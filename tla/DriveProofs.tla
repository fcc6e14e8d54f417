---------------------------- MODULE DriveProofs ----------------------------
(***************************************************************************)
(* Proofs about Drive, for any number of requests, purgers, shares,        *)
(* folders, sessions and faults: first each component on its own, then     *)
(* what holds of the four together.                                        *)
(***************************************************************************)
EXTENDS MCDrive, TLAPS

-----------------------------------------------------------------------------
(* Edit sessions.  Sessions do not overwrite each other's saves unseen.    *)

(* A session that has begun has the lock, and the lock its lease, until it *)
(* has ended or its lease has.                                             *)
Holds(s) == session[s].status # "none" /\ ~session[s].ended /\ ~session[s].lapsed

LockInv ==
    \A s \in EditSession :
        /\ Holds(s) => editLock.of = s /\ editLock.live
        /\ session[s].ended => session[s].status \in {"ended", "conflicted"}

(* Nobody else works on a session that is being started, and only on one   *)
(* that has begun.                                                         *)
CallInv ==
    \A c \in Editor :
        /\ call[c].op = "start" =>
              /\ call[c].of \in EditSession
              /\ session[call[c].of].status = "none"
              /\ \A d \in Editor \ {c} : call[d].op = "start" => call[d].of # call[c].of
        /\ call[c].op \in {"save", "heartbeat", "end"} =>
              /\ call[c].of \in EditSession
              /\ session[call[c].of].status # "none"

(* A base revision counts the sessions' revisions there were, and no more  *)
(* of the others' than there are.                                          *)
Counts(base, known) ==
    known <= revisions.saved /\ known <= base /\ base <= known + revisions.stray

BaseInv ==
    /\ \A s \in EditSession : Counts(session[s].base, session[s].known)
    /\ \A c \in Editor : CallAt(c, "start", "insert") => Counts(call[c].base, call[c].known)

(* A save that has compared revisions is up to date while its session      *)
(* holds the lock.                                                         *)
SaveInv ==
    \A c \in Editor :
        CallAt(c, "save", "commit") /\ Holds(call[c].of) =>
            /\ revisions.saved = call[c].known
            /\ call[c].expects => revisions.saved = session[call[c].of].known

EditingInv == EditingTypeOK /\ LockInv /\ CallInv /\ BaseInv /\ SaveInv

-----------------------------------------------------------------------------
(* Nothing has begun at first.                                             *)
LEMMA EditingInvStart == EditingInit => EditingInv
  BY EditingAssumption
  DEF EditingInit, EditingInv, EditingTypeOK, SessionRow, EditCall, LockInv, Holds, CallInv, BaseInv, Counts,
      SaveInv, CallAt, NoCall, Unlocked, Revision

(* The call of nobody is a call, and in no step.                           *)
LEMMA NoCallIsCall == NoCall \in EditCall /\ NoCall.op = "none"
  BY EditingAssumption DEF NoCall, EditCall

(* The fields of the records.                                              *)
LEMMA Fields ==
  ASSUME EditingTypeOK
  PROVE  /\ revisions.saved \in Nat /\ revisions.stray \in Nat
         /\ Revision \in 0..MaxRevisions /\ revisions.saved \in 0..MaxRevisions
         /\ editLock.of \in EditSession \cup {NoSession} /\ editLock.live \in BOOLEAN
         /\ \A c \in Editor : call[c] \in EditCall
         /\ \A s \in EditSession : session[s] \in SessionRow
         /\ \A c \in Editor : call[c].base \in Nat /\ call[c].known \in Nat
         /\ \A s \in EditSession : session[s].base \in Nat /\ session[s].known \in Nat
<1>1. /\ \A c \in Editor : call[c] \in EditCall
      /\ \A s \in EditSession : session[s] \in SessionRow
  BY DEF EditingTypeOK
<1>2. 0..MaxRevisions \subseteq Nat
  BY EditingAssumption
<1>3. ASSUME NEW c \in Editor PROVE call[c].base \in Nat /\ call[c].known \in Nat
  BY <1>1, <1>2 DEF EditCall
<1>4. ASSUME NEW s \in EditSession PROVE session[s].base \in Nat /\ session[s].known \in Nat
  BY <1>1, <1>2 DEF SessionRow
<1> QED
  BY <1>1, <1>3, <1>4, EditingAssumption DEF EditingTypeOK, Revision

LEMMA CallFields ==
  ASSUME NEW k \in EditCall
  PROVE  /\ k.op \in {"none", "start", "save", "heartbeat", "end"}
         /\ k.of \in EditSession \cup {NoSession} /\ k.expects \in BOOLEAN
         /\ k.base \in 0..MaxRevisions /\ k.known \in 0..MaxRevisions
  BY DEF EditCall

LEMMA RowFields ==
  ASSUME NEW r \in SessionRow
  PROVE  /\ r.status \in {"none", "active", "ended", "conflicted"}
         /\ r.live \in BOOLEAN /\ r.ended \in BOOLEAN /\ r.lapsed \in BOOLEAN
         /\ r.base \in 0..MaxRevisions /\ r.known \in 0..MaxRevisions
  BY DEF SessionRow

(* A step of a request that leaves sessions and revisions alone, and       *)
(* removes at most a lock whose lease is over.                             *)
LEMMA CallOnly ==
  ASSUME EditingInv, NEW c \in Editor, NEW k \in EditCall,
         call' = [call EXCEPT ![c] = k], UNCHANGED <<session, revisions, simple>>,
         editLock' = editLock \/ (editLock' = Unlocked /\ ~editLock.live),
         k.op = "start" => /\ k.of \in EditSession /\ session[k.of].status = "none"
                           /\ \A d \in Editor \ {c} : call[d].op = "start" => call[d].of # k.of,
         k.op \in {"save", "heartbeat", "end"} =>
            k.of \in EditSession /\ session[k.of].status # "none",
         k.op = "start" /\ k.at = "insert" => Counts(k.base, k.known),
         k.op = "save" /\ k.at = "commit" /\ Holds(k.of) =>
            /\ revisions.saved = k.known
            /\ k.expects => revisions.saved = session[k.of].known
  PROVE  EditingInv'
<1>1. EditingTypeOK /\ LockInv /\ CallInv /\ BaseInv /\ SaveInv
  BY DEF EditingInv
<1>2. /\ call' \in [Editor -> EditCall] /\ call'[c] = k
      /\ \A d \in Editor : d # c => call'[d] = call[d]
  BY <1>1 DEF EditingTypeOK
<1>3. EditingTypeOK'
  <2>1. editLock' \in [of : EditSession \cup {NoSession}, live : BOOLEAN]
    <3>1. Unlocked \in [of : EditSession \cup {NoSession}, live : BOOLEAN]
      BY DEF Unlocked
    <3> QED
      BY <1>1, <3>1 DEF EditingTypeOK
  <2> QED
    BY <1>1, <1>2, <2>1 DEF EditingTypeOK, Revision
<1>4. LockInv'
  BY <1>1 DEF LockInv, Holds
<1>5. CallInv'
  BY <1>1, <1>2 DEF CallInv
<1>6. BaseInv'
  BY <1>1, <1>2 DEF BaseInv, Counts, CallAt
<1>7. SaveInv'
  BY <1>1, <1>2 DEF SaveInv, CallAt, Holds
<1> QED
  BY <1>3, <1>4, <1>5, <1>6, <1>7 DEF EditingInv

(* The last step of a request, which writes the row of its session.        *)
LEMMA RowAndReply ==
  ASSUME EditingInv, NEW c \in Editor, call[c].op # "none", NEW r \in SessionRow,
         call' = [call EXCEPT ![c] = NoCall],
         session' = [session EXCEPT ![call[c].of] = r], r.status # "none",
         UNCHANGED simple,
         editLock' \in [of : EditSession \cup {NoSession}, live : BOOLEAN],
         revisions' \in [saved : 0..MaxRevisions, stray : 0..MaxRevisions],
         Revision' <= MaxRevisions,
         revisions'.saved >= revisions.saved, revisions'.stray >= revisions.stray,
         Counts(r.base, r.known)
  PROVE  /\ EditingTypeOK' /\ CallInv' /\ BaseInv'
         /\ call[c].of \in EditSession
         /\ session'[call[c].of] = r
         /\ \A s \in EditSession : s # call[c].of => session'[s] = session[s]
         /\ call'[c] = NoCall
         /\ \A d \in Editor : d # c => call'[d] = call[d]
<1>1. EditingTypeOK /\ LockInv /\ CallInv /\ BaseInv /\ SaveInv
  BY DEF EditingInv
<1>2. call[c].of \in EditSession
  BY <1>1, Fields, CallFields DEF CallInv
<1>3. /\ call' \in [Editor -> EditCall] /\ call'[c] = NoCall
      /\ \A d \in Editor : d # c => call'[d] = call[d]
  BY <1>1, NoCallIsCall DEF EditingTypeOK
<1>4. /\ session' \in [EditSession -> SessionRow] /\ session'[call[c].of] = r
      /\ \A s \in EditSession : s # call[c].of => session'[s] = session[s]
  BY <1>1, <1>2 DEF EditingTypeOK
<1>5. EditingTypeOK'
  BY <1>1, <1>3, <1>4 DEF EditingTypeOK
<1>6. CallInv'
  <2> SUFFICES ASSUME NEW d \in Editor
               PROVE  /\ call'[d].op = "start" =>
                            /\ call'[d].of \in EditSession
                            /\ session'[call'[d].of].status = "none"
                            /\ \A e \in Editor \ {d} :
                                  call'[e].op = "start" => call'[e].of # call'[d].of
                      /\ call'[d].op \in {"save", "heartbeat", "end"} =>
                            /\ call'[d].of \in EditSession
                            /\ session'[call'[d].of].status # "none"
    BY DEF CallInv
  <2>1. CASE d = c
    BY <2>1, <1>3, NoCallIsCall
  <2>2. CASE d # c
    <3>1. call'[d] = call[d]
      BY <2>2, <1>3
    <3>2. call[d].op = "start" => call[d].of # call[c].of
      BY <1>1, <2>2, Fields, CallFields DEF CallInv
    <3>3. \A e \in Editor : call'[e].op = "start" => call'[e] = call[e]
      BY <1>3, NoCallIsCall
    <3> QED
      BY <1>1, <1>4, <3>1, <3>2, <3>3 DEF CallInv
  <2> QED
    BY <2>1, <2>2
<1>7. BaseInv'
  <2>1. \A s \in EditSession : session[s].base \in Nat /\ session[s].known \in Nat
    BY <1>1, Fields
  <2>2. \A d \in Editor : call[d].base \in Nat /\ call[d].known \in Nat
    BY <1>1, Fields
  <2>3. r.base \in Nat /\ r.known \in Nat
    BY RowFields, EditingAssumption
  <2>4. /\ revisions.saved \in Nat /\ revisions.stray \in Nat
        /\ revisions'.saved \in Nat /\ revisions'.stray \in Nat
    BY <1>1, Fields, EditingAssumption
  <2>5. \A s \in EditSession : Counts(session[s].base, session[s].known)'
    BY <1>1, <1>4, <2>1, <2>3, <2>4 DEF BaseInv, Counts
  <2>6. \A d \in Editor : CallAt(d, "start", "insert")' => Counts(call[d].base, call[d].known)'
    BY <1>1, <1>3, <2>2, <2>4, NoCallIsCall DEF BaseInv, Counts, CallAt
  <2> QED
    BY <2>5, <2>6 DEF BaseInv
<1> QED
  BY <1>2, <1>3, <1>4, <1>5, <1>6, <1>7

-----------------------------------------------------------------------------
(* One action of a request at a time.                                      *)
LEMMA OpenInv ==
  ASSUME EditingInv, NEW c \in Editor, NEW s \in EditSession, NEW expects \in BOOLEAN,
         \/ /\ session[s].status = "none" /\ \A d \in Editor : call[d].of # s
            /\ Open(c, "start", "clean", s, expects)
         \/ Usable(s) /\ (\/ Open(c, "save", "compare", s, expects)
                          \/ Open(c, "heartbeat", "write", s, expects)
                          \/ Open(c, "end", "write", s, expects))
  PROVE  EditingInv'
<1>1. PICK op \in {"start", "save", "heartbeat", "end"}, at \in {"clean", "compare", "write"} :
         /\ Open(c, op, at, s, expects)
         /\ op = "start" => session[s].status = "none" /\ \A d \in Editor : call[d].of # s
         /\ op # "start" => session[s].status # "none"
  BY DEF Usable
<1> DEFINE k == [op |-> op, at |-> at, of |-> s, expects |-> expects, base |-> 0, known |-> 0]
<1>2. k \in EditCall /\ k.op = op /\ k.at = at /\ k.of = s
  <2>1. 0 \in 0..MaxRevisions
    BY EditingAssumption
  <2> QED
    BY <2>1 DEF EditCall
<1>3. call' = [call EXCEPT ![c] = k] /\ UNCHANGED <<session, editLock, revisions, simple>>
  BY <1>1 DEF Open
<1> HIDE DEF k
<1> QED
  BY <1>1, <1>2, <1>3, CallOnly

LEMMA DeleteExpiredInv ==
  ASSUME EditingInv, NEW c \in Editor, DeleteExpired(c) PROVE EditingInv'
<1>1. EditingTypeOK /\ LockInv /\ CallInv /\ BaseInv /\ SaveInv
  BY DEF EditingInv
<1> DEFINE k == [call[c] EXCEPT !.at = "read"]
<1>2. k \in EditCall /\ k.op = "start" /\ k.at = "read" /\ k.of = call[c].of
  BY <1>1, Fields DEF DeleteExpired, CallAt, EditCall
<1>3. call' = [call EXCEPT ![c] = k] /\ UNCHANGED <<session, revisions, simple>>
  BY DEF DeleteExpired, Continue
<1>4. editLock' = editLock \/ (editLock' = Unlocked /\ ~editLock.live)
  BY DEF DeleteExpired
<1>5. /\ call[c].of \in EditSession /\ session[call[c].of].status = "none"
      /\ \A d \in Editor \ {c} : call[d].op = "start" => call[d].of # call[c].of
  BY <1>1 DEF DeleteExpired, CallAt, CallInv
<1> HIDE DEF k
<1> QED
  BY <1>2, <1>3, <1>4, <1>5, CallOnly

LEMMA ReadBaseInv ==
  ASSUME EditingInv, NEW c \in Editor, ReadBase(c) PROVE EditingInv'
<1>1. EditingTypeOK /\ LockInv /\ CallInv /\ BaseInv /\ SaveInv
  BY DEF EditingInv
<1> DEFINE k == [call[c] EXCEPT !.at = "insert", !.base = Revision, !.known = revisions.saved]
<1>2. /\ k \in EditCall /\ k.op = "start" /\ k.of = call[c].of
      /\ k.base = Revision /\ k.known = revisions.saved
  BY <1>1, Fields DEF ReadBase, CallAt, EditCall
<1>3. call' = [call EXCEPT ![c] = k] /\ UNCHANGED <<session, editLock, revisions, simple>>
  BY DEF ReadBase
<1>4. /\ call[c].of \in EditSession /\ session[call[c].of].status = "none"
      /\ \A d \in Editor \ {c} : call[d].op = "start" => call[d].of # call[c].of
  BY <1>1 DEF ReadBase, CallAt, CallInv
<1>5. Counts(k.base, k.known)
  BY <1>1, <1>2, Fields DEF Counts, Revision
<1> HIDE DEF k
<1> QED
  BY <1>2, <1>3, <1>4, <1>5, CallOnly

(* Sessions that hold the lock have the one lock there is, so a save that  *)
(* finds its session's base to be the last revision is up to date.         *)
LEMMA CompareRevisionInv ==
  ASSUME EditingInv, NEW c \in Editor, CompareRevision(c) PROVE EditingInv'
<1>1. EditingTypeOK /\ LockInv /\ CallInv /\ BaseInv /\ SaveInv
  BY DEF EditingInv
<1> DEFINE k == [call[c] EXCEPT !.at = "commit", !.known = revisions.saved]
<1>2. /\ k \in EditCall /\ k.op = "save" /\ k.of = call[c].of
      /\ k.known = revisions.saved /\ k.expects = call[c].expects
  BY <1>1, Fields DEF CompareRevision, CallAt, EditCall
<1>3. call' = [call EXCEPT ![c] = k] /\ UNCHANGED <<session, editLock, revisions, simple>>
  BY DEF CompareRevision
<1>4. call[c].of \in EditSession /\ session[call[c].of].status # "none"
  BY <1>1 DEF CompareRevision, CallAt, CallInv
<1>5. call[c].expects => revisions.saved = session[call[c].of].known
  <2>1. call[c].expects => session[call[c].of].base = Revision
    BY DEF CompareRevision
  <2>2. Counts(session[call[c].of].base, session[call[c].of].known)
    BY <1>1, <1>4 DEF BaseInv
  <2>3. session[call[c].of].base \in Nat /\ session[call[c].of].known \in Nat
    BY <1>1, <1>4, Fields
  <2> QED
    BY <1>1, <2>1, <2>2, <2>3, Fields DEF Counts, Revision
<1> HIDE DEF k
<1> QED
  BY <1>2, <1>3, <1>4, <1>5, CallOnly

LEMMA AbandonInv ==
  ASSUME EditingInv, NEW c \in Editor, Abandon(c) PROVE EditingInv'
<1>1. call' = [call EXCEPT ![c] = NoCall] /\ UNCHANGED <<session, editLock, revisions, simple>>
  BY DEF Abandon, Reply
<1> QED
  BY <1>1, NoCallIsCall, CallOnly

LEMMA InsertSessionInv ==
  ASSUME EditingInv, NEW c \in Editor, InsertSession(c) PROVE EditingInv'
<1>1. EditingTypeOK /\ LockInv /\ CallInv /\ BaseInv /\ SaveInv
  BY DEF EditingInv
<1>2. call[c].of \in EditSession
  BY <1>1 DEF InsertSession, CallAt, CallInv
<1> DEFINE r == [session[call[c].of] EXCEPT !.status = "active", !.live = TRUE,
                                            !.base = call[c].base, !.known = call[c].known]
<1>3. session[call[c].of] \in SessionRow /\ call[c] \in EditCall
  BY <1>1, <1>2, Fields
<1>4. /\ r \in SessionRow /\ r.status = "active" /\ r.base = call[c].base /\ r.known = call[c].known
      /\ ~r.ended
  <2>1. ~session[call[c].of].ended
    BY <1>1, <1>2 DEF InsertSession, CallAt, CallInv, LockInv
  <2> QED
    BY <1>3, <2>1, CallFields DEF SessionRow
<1>5. /\ call' = [call EXCEPT ![c] = NoCall] /\ session' = [session EXCEPT ![call[c].of] = r]
      /\ UNCHANGED <<revisions, simple>> /\ editLock' = [of |-> call[c].of, live |-> TRUE]
  BY DEF InsertSession, Reply
<1>6. Counts(r.base, r.known) /\ call[c].op # "none"
  BY <1>1, <1>4 DEF InsertSession, BaseInv, CallAt
<1>7. Revision' <= MaxRevisions /\ revisions'.saved >= revisions.saved /\ revisions'.stray >= revisions.stray
  BY <1>1, <1>5, Fields DEF Revision, EditingTypeOK
<1>8. editLock' \in [of : EditSession \cup {NoSession}, live : BOOLEAN]
  BY <1>2, <1>5
<1>9. revisions' \in [saved : 0..MaxRevisions, stray : 0..MaxRevisions]
  BY <1>1, <1>5 DEF EditingTypeOK
<1> HIDE DEF r
<1>10. /\ EditingTypeOK' /\ CallInv' /\ BaseInv' /\ session'[call[c].of] = r
       /\ \A s \in EditSession : s # call[c].of => session'[s] = session[s]
       /\ call'[c] = NoCall /\ \A d \in Editor : d # c => call'[d] = call[d]
  BY <1>4, <1>5, <1>6, <1>7, <1>8, <1>9, RowAndReply
<1>11. \A s \in EditSession : Holds(s) => FALSE
  BY <1>1, EditingAssumption DEF LockInv, InsertSession
<1>12. LockInv'
  BY <1>1, <1>4, <1>5, <1>10, <1>11 DEF LockInv, Holds
<1>13. \A d \in Editor : d # c /\ call[d].op = "save" => call[d].of \in EditSession /\ call[d].of # call[c].of
  BY <1>1 DEF CallInv, InsertSession, CallAt
<1>14. SaveInv'
  BY <1>10, <1>11, <1>13, NoCallIsCall DEF SaveInv, Holds, CallAt
<1> QED
  BY <1>10, <1>12, <1>14 DEF EditingInv

(* The other three leave the sessions' bases alone.  (The lock stays with  *)
(* a session that holds it, unless the session ends.)                      *)
LEMMA EndingInv ==
  ASSUME EditingInv, NEW c \in Editor,
         call[c].op \in {"save", "heartbeat", "end"},
         NEW r \in SessionRow, call' = [call EXCEPT ![c] = NoCall],
         session' = [session EXCEPT ![call[c].of] = r], r.status # "none",
         r.base = session[call[c].of].base, r.known = session[call[c].of].known,
         ~r.ended /\ ~r.lapsed => Holds(call[c].of),
         r.ended => r.status \in {"ended", "conflicted"},
         UNCHANGED simple,
         revisions' \in [saved : 0..MaxRevisions, stray : 0..MaxRevisions],
         Revision' <= MaxRevisions,
         revisions'.saved >= revisions.saved, revisions'.stray >= revisions.stray,
         editLock' \in [of : EditSession \cup {NoSession}, live : BOOLEAN],
         \/ editLock'.of = editLock.of /\ (editLock.live => editLock'.live)
         \/ editLock.of = call[c].of /\ r.ended,
         \/ revisions'.saved = revisions.saved
         \/ editLock.of = call[c].of /\ r.ended
  PROVE  EditingInv'
<1>1. EditingTypeOK /\ LockInv /\ CallInv /\ BaseInv /\ SaveInv
  BY DEF EditingInv
<1>2. call[c].of \in EditSession
  BY <1>1 DEF CallInv
<1>3. Counts(r.base, r.known)
  BY <1>1, <1>2 DEF BaseInv
<1>4. /\ EditingTypeOK' /\ CallInv' /\ BaseInv' /\ session'[call[c].of] = r
      /\ \A s \in EditSession : s # call[c].of => session'[s] = session[s]
      /\ call'[c] = NoCall /\ \A d \in Editor : d # c => call'[d] = call[d]
  BY <1>3, RowAndReply
<1>5. \A s \in EditSession : Holds(s)' => Holds(s) /\ (s = call[c].of => ~r.ended)
  BY <1>2, <1>4 DEF Holds
<1>6. LockInv'
  BY <1>1, <1>2, <1>4, <1>5 DEF LockInv
<1>7. SaveInv'
  <2> SUFFICES ASSUME NEW d \in Editor, CallAt(d, "save", "commit")', Holds(call[d].of)'
               PROVE  /\ revisions'.saved = call'[d].known
                      /\ call'[d].expects => revisions'.saved = session'[call'[d].of].known
    BY DEF SaveInv
  <2>1. d # c /\ call'[d] = call[d]
    BY <1>4, NoCallIsCall DEF CallAt
  <2>2. call[d].of \in EditSession
    BY <1>1, <2>1 DEF CallInv, CallAt
  <2>3. Holds(call[d].of) /\ (call[d].of = call[c].of => ~r.ended)
    BY <1>4, <1>5, <2>1, <2>2 DEF Holds
  <2>4. revisions'.saved = revisions.saved
    BY <1>1, <2>2, <2>3 DEF LockInv
  <2>5. session'[call[d].of].known = session[call[d].of].known
    BY <1>4, <2>2
  <2> QED
    BY <1>1, <2>1, <2>3, <2>4, <2>5 DEF SaveInv, CallAt
<1> QED
  BY <1>4, <1>6, <1>7 DEF EditingInv

(* A row that is written and nothing else.                                 *)
LEMMA ConflictDetectedInv ==
  ASSUME EditingInv, NEW c \in Editor, ConflictDetected(c) PROVE EditingInv'
<1>1. EditingTypeOK /\ LockInv /\ CallInv /\ BaseInv /\ SaveInv
  BY DEF EditingInv
<1>2. call[c].of \in EditSession /\ session[call[c].of].status # "none" /\ call[c].op = "save"
  BY <1>1 DEF ConflictDetected, CallAt, CallInv
<1>3. call' = [call EXCEPT ![c] = NoCall] /\ UNCHANGED <<editLock, revisions, simple>>
  BY DEF ConflictDetected, Reply
<1>4. CASE UNCHANGED session
  BY <1>3, <1>4, NoCallIsCall, CallOnly
<1>5. CASE session' = [session EXCEPT ![call[c].of].status = "conflicted"]
  <2> DEFINE r == [session[call[c].of] EXCEPT !.status = "conflicted"]
  <2>1. session[call[c].of] \in SessionRow
    BY <1>1, <1>2, Fields
  <2>2. /\ r \in SessionRow /\ r.status = "conflicted" /\ r.base = session[call[c].of].base
        /\ r.known = session[call[c].of].known
        /\ r.ended = session[call[c].of].ended /\ r.lapsed = session[call[c].of].lapsed
    BY <2>1 DEF SessionRow
  <2>3. session' = [session EXCEPT ![call[c].of] = r]
    BY <1>5
  <2>4. /\ revisions' \in [saved : 0..MaxRevisions, stray : 0..MaxRevisions]
        /\ Revision' <= MaxRevisions /\ revisions'.saved = revisions.saved
        /\ revisions'.saved >= revisions.saved /\ revisions'.stray >= revisions.stray
    BY <1>1, <1>3, Fields DEF Revision, EditingTypeOK
  <2>5. /\ editLock' \in [of : EditSession \cup {NoSession}, live : BOOLEAN]
        /\ editLock'.of = editLock.of /\ (editLock.live => editLock'.live)
    BY <1>1, <1>3 DEF EditingTypeOK
  <2> HIDE DEF r
  <2>6. ~r.ended /\ ~r.lapsed => Holds(call[c].of)
    BY <1>2, <2>2 DEF Holds
  <2> QED
    BY <1>2, <1>3, <2>2, <2>3, <2>4, <2>5, <2>6, EndingInv
<1> QED
  BY <1>4, <1>5 DEF ConflictDetected

(* Ending a session, which removes the lock if it is the session's.        *)
LEMMA EndSessionFacts ==
  ASSUME EditingTypeOK, NEW s \in EditSession, EndSession(s)
  PROVE  \E r \in SessionRow :
            /\ session' = [session EXCEPT ![s] = r]
            /\ r.status = "ended" /\ r.ended
            /\ r.base = session[s].base /\ r.known = session[s].known
            /\ editLock' \in [of : EditSession \cup {NoSession}, live : BOOLEAN]
            /\ \/ editLock'.of = editLock.of /\ (editLock.live => editLock'.live)
               \/ editLock.of = s
<1> DEFINE r == [session[s] EXCEPT !.status = "ended", !.ended = TRUE]
<1>1. session[s] \in SessionRow
  BY Fields
<1>2. /\ r \in SessionRow /\ r.status = "ended" /\ r.ended
      /\ r.base = session[s].base /\ r.known = session[s].known
  BY <1>1 DEF SessionRow
<1>3. session' = [session EXCEPT ![s] = r]
  BY DEF EndSession
<1>4. /\ editLock' \in [of : EditSession \cup {NoSession}, live : BOOLEAN]
      /\ \/ editLock'.of = editLock.of /\ (editLock.live => editLock'.live)
         \/ editLock.of = s
  BY DEF EndSession, EditingTypeOK, Unlocked
<1> HIDE DEF r
<1> QED
  BY <1>2, <1>3, <1>4

LEMMA CommitSaveInv ==
  ASSUME EditingInv, NEW c \in Editor, CommitSave(c) PROVE EditingInv'
<1>1. EditingTypeOK /\ LockInv /\ CallInv /\ BaseInv /\ SaveInv
  BY DEF EditingInv
<1>2. call[c].of \in EditSession /\ call[c].op = "save"
  BY <1>1 DEF CommitSave, CallAt, CallInv
<1>3. call' = [call EXCEPT ![c] = NoCall] /\ UNCHANGED simple
  BY DEF CommitSave, Reply
<1>4. PICK r \in SessionRow :
            /\ session' = [session EXCEPT ![call[c].of] = r]
            /\ r.status = "ended" /\ r.ended
            /\ r.base = session[call[c].of].base /\ r.known = session[call[c].of].known
            /\ editLock' \in [of : EditSession \cup {NoSession}, live : BOOLEAN]
            /\ \/ editLock'.of = editLock.of /\ (editLock.live => editLock'.live)
               \/ editLock.of = call[c].of
  BY <1>1, <1>2, EndSessionFacts DEF CommitSave
<1>5. /\ revisions' \in [saved : 0..MaxRevisions, stray : 0..MaxRevisions]
      /\ Revision' <= MaxRevisions
      /\ revisions'.saved >= revisions.saved /\ revisions'.stray >= revisions.stray
      /\ revisions'.saved = revisions.saved \/ editLock.of = call[c].of
  <2>1. /\ revisions \in [saved : 0..MaxRevisions, stray : 0..MaxRevisions]
        /\ revisions.saved + revisions.stray < MaxRevisions
    BY <1>1 DEF EditingTypeOK, CommitSave, Revision
  <2>2. CASE editLock.of = call[c].of
    <3>1. revisions' = [revisions EXCEPT !.saved = @ + 1]
      BY <2>2 DEF CommitSave
    <3> QED
      BY <2>1, <2>2, <3>1, EditingAssumption DEF Revision
  <2>3. CASE editLock.of # call[c].of
    <3>1. revisions' = [revisions EXCEPT !.stray = @ + 1]
      BY <2>3 DEF CommitSave
    <3> QED
      BY <2>1, <3>1, EditingAssumption DEF Revision
  <2> QED
    BY <2>2, <2>3
<1> QED
  BY <1>2, <1>3, <1>4, <1>5, EndingInv

LEMMA EndWriteInv ==
  ASSUME EditingInv, NEW c \in Editor, EndWrite(c) PROVE EditingInv'
<1>1. EditingTypeOK /\ LockInv /\ CallInv /\ BaseInv /\ SaveInv
  BY DEF EditingInv
<1>2. call[c].of \in EditSession /\ call[c].op = "end"
  BY <1>1 DEF EndWrite, CallAt, CallInv
<1>3. call' = [call EXCEPT ![c] = NoCall] /\ UNCHANGED <<revisions, simple>>
  BY DEF EndWrite, Reply
<1>4. PICK r \in SessionRow :
            /\ session' = [session EXCEPT ![call[c].of] = r]
            /\ r.status = "ended" /\ r.ended
            /\ r.base = session[call[c].of].base /\ r.known = session[call[c].of].known
            /\ editLock' \in [of : EditSession \cup {NoSession}, live : BOOLEAN]
            /\ \/ editLock'.of = editLock.of /\ (editLock.live => editLock'.live)
               \/ editLock.of = call[c].of
  BY <1>1, <1>2, EndSessionFacts DEF EndWrite
<1>5. /\ revisions' \in [saved : 0..MaxRevisions, stray : 0..MaxRevisions]
      /\ Revision' <= MaxRevisions /\ revisions'.saved = revisions.saved
      /\ revisions'.saved >= revisions.saved /\ revisions'.stray >= revisions.stray
  BY <1>1, <1>3, Fields DEF Revision, EditingTypeOK
<1> QED
  BY <1>2, <1>3, <1>4, <1>5, EndingInv

LEMMA HeartbeatWriteInv ==
  ASSUME EditingInv, NEW c \in Editor, HeartbeatWrite(c) PROVE EditingInv'
<1>1. EditingTypeOK /\ LockInv /\ CallInv /\ BaseInv /\ SaveInv
  BY DEF EditingInv
<1>2. call[c].of \in EditSession /\ session[call[c].of].status # "none" /\ call[c].op = "heartbeat"
  BY <1>1 DEF HeartbeatWrite, CallAt, CallInv
<1>3. call' = [call EXCEPT ![c] = NoCall] /\ UNCHANGED <<revisions, simple>>
  BY DEF HeartbeatWrite, Reply
<1> DEFINE r == [session[call[c].of] EXCEPT !.live = @ \/ session[call[c].of].status = "active"]
<1>4. session[call[c].of] \in SessionRow
  BY <1>1, <1>2, Fields
<1>5. /\ r \in SessionRow /\ r.status = session[call[c].of].status
      /\ r.base = session[call[c].of].base /\ r.known = session[call[c].of].known
      /\ r.ended = session[call[c].of].ended /\ r.lapsed = session[call[c].of].lapsed
  <2>1. CASE session[call[c].of].status = "active"
    <3>1. r = [session[call[c].of] EXCEPT !.live = TRUE]
      BY <1>4, <2>1 DEF SessionRow
    <3> HIDE DEF r
    <3> QED
      BY <1>4, <3>1 DEF SessionRow
  <2>2. CASE session[call[c].of].status # "active"
    <3>1. r = session[call[c].of]
      BY <1>4, <2>2 DEF SessionRow
    <3> HIDE DEF r
    <3> QED
      BY <1>4, <3>1
  <2> QED
    BY <2>1, <2>2
<1>6. session' = [session EXCEPT ![call[c].of] = r]
  BY DEF HeartbeatWrite
<1>7. /\ editLock' \in [of : EditSession \cup {NoSession}, live : BOOLEAN]
      /\ editLock'.of = editLock.of /\ (editLock.live => editLock'.live)
  <2>1. (editLock.live \/ editLock.of = call[c].of) \in BOOLEAN
    OBVIOUS
  <2> QED
    BY <1>1, <2>1 DEF HeartbeatWrite, EditingTypeOK
<1>8. /\ revisions' \in [saved : 0..MaxRevisions, stray : 0..MaxRevisions]
      /\ Revision' <= MaxRevisions /\ revisions'.saved = revisions.saved
      /\ revisions'.saved >= revisions.saved /\ revisions'.stray >= revisions.stray
  BY <1>1, <1>3, Fields DEF Revision, EditingTypeOK
<1> HIDE DEF r
<1>9. /\ ~r.ended /\ ~r.lapsed => Holds(call[c].of)
      /\ r.ended => r.status \in {"ended", "conflicted"}
  BY <1>1, <1>2, <1>5 DEF Holds, LockInv
<1> QED
  BY <1>2, <1>3, <1>5, <1>6, <1>7, <1>8, <1>9, EndingInv

LEMMA EditorStepInv ==
  ASSUME EditingInv, NEW c \in Editor, EditorStep(c) PROVE EditingInv'
<1>1. CASE \E s \in EditSession :
              \/ /\ session[s].status = "none" /\ \A d \in Editor : call[d].of # s
                 /\ Open(c, "start", "clean", s, FALSE)
              \/ Usable(s) /\ (\/ \E expects \in BOOLEAN : Open(c, "save", "compare", s, expects)
                               \/ Open(c, "heartbeat", "write", s, FALSE)
                               \/ Open(c, "end", "write", s, FALSE))
  <2>1. PICK s \in EditSession, expects \in BOOLEAN :
              \/ /\ session[s].status = "none" /\ \A d \in Editor : call[d].of # s
                 /\ Open(c, "start", "clean", s, expects)
              \/ Usable(s) /\ (\/ Open(c, "save", "compare", s, expects)
                               \/ Open(c, "heartbeat", "write", s, expects)
                               \/ Open(c, "end", "write", s, expects))
    BY <1>1
  <2> QED
    BY <2>1, OpenInv
<1> QED
  BY <1>1, DeleteExpiredInv, ReadBaseInv, InsertSessionInv, CompareRevisionInv,
     ConflictDetectedInv, CommitSaveInv, HeartbeatWriteInv, EndWriteInv, AbandonInv
  DEF EditorStep

-----------------------------------------------------------------------------
(* The end of a lease, after which its session holds nothing.              *)
LEMMA LeaseEndsInv ==
  ASSUME EditingInv, NEW s \in EditSession, LeaseEnds(s) PROVE EditingInv'
<1>1. EditingTypeOK /\ LockInv /\ CallInv /\ BaseInv /\ SaveInv
  BY DEF EditingInv
<1> DEFINE r == [session[s] EXCEPT !.live = FALSE, !.lapsed = TRUE]
<1>2. session[s] \in SessionRow
  BY <1>1, Fields
<1>3. /\ r \in SessionRow /\ r.status = session[s].status /\ r.lapsed
      /\ r.ended = session[s].ended
      /\ r.base = session[s].base /\ r.known = session[s].known
  BY <1>2 DEF SessionRow
<1>4. session' = [session EXCEPT ![s] = r] /\ UNCHANGED <<revisions, call, simple>>
  BY DEF LeaseEnds
<1>5. /\ editLock' \in [of : EditSession \cup {NoSession}, live : BOOLEAN]
      /\ editLock'.of = editLock.of
      /\ editLock.live /\ editLock.of # s => editLock'.live
  <2>1. (editLock.live /\ editLock.of # s) \in BOOLEAN
    OBVIOUS
  <2> QED
    BY <1>1, <2>1 DEF LeaseEnds, EditingTypeOK
<1> HIDE DEF r
<1>6. /\ session' \in [EditSession -> SessionRow] /\ session'[s] = r
      /\ \A t \in EditSession : t # s => session'[t] = session[t]
  BY <1>1, <1>3, <1>4 DEF EditingTypeOK
<1>7. EditingTypeOK'
  BY <1>1, <1>4, <1>5, <1>6 DEF EditingTypeOK, Revision
<1>8. LockInv'
  BY <1>1, <1>3, <1>5, <1>6 DEF LockInv, Holds
<1>9. CallInv'
  BY <1>1, <1>3, <1>4, <1>6 DEF CallInv
<1>10. BaseInv'
  BY <1>1, <1>3, <1>4, <1>6 DEF BaseInv, Counts, CallAt
<1>11. SaveInv'
  <2>1. \A c \in Editor : call[c].op = "save" => call[c].of \in EditSession
    BY <1>1 DEF CallInv
  <2> QED
    BY <1>1, <1>3, <1>4, <1>6, <2>1 DEF SaveInv, CallAt, Holds
<1> QED
  BY <1>7, <1>8, <1>9, <1>10, <1>11 DEF EditingInv

(* An anonymous editor's revision is none of the sessions'.                *)
LEMMA PublicOverwriteInv ==
  ASSUME EditingInv, PublicOverwrite PROVE EditingInv'
<1>1. EditingTypeOK /\ LockInv /\ CallInv /\ BaseInv /\ SaveInv
  BY DEF EditingInv
<1>2. UNCHANGED <<session, editLock, call, simple>>
  BY DEF PublicOverwrite
<1>3. /\ revisions' \in [saved : 0..MaxRevisions, stray : 0..MaxRevisions]
      /\ Revision' <= MaxRevisions
      /\ revisions'.saved = revisions.saved /\ revisions'.stray = revisions.stray + 1
  BY <1>1, EditingAssumption DEF PublicOverwrite, EditingTypeOK, Revision
<1>4. EditingTypeOK'
  BY <1>1, <1>2, <1>3 DEF EditingTypeOK
<1>5. LockInv' /\ CallInv'
  BY <1>1, <1>2 DEF LockInv, CallInv, Holds
<1>7. SaveInv'
  BY <1>1, <1>2, <1>3 DEF SaveInv, Holds, CallAt
<1>6. BaseInv'
  <2>1. \A s \in EditSession : session[s].base \in Nat /\ session[s].known \in Nat
    BY <1>1, Fields
  <2>2. \A d \in Editor : call[d].base \in Nat /\ call[d].known \in Nat
    BY <1>1, Fields
  <2> QED
    BY <1>1, <1>2, <1>3, <2>1, <2>2, Fields DEF BaseInv, Counts, CallAt
<1> QED
  BY <1>4, <1>5, <1>6, <1>7 DEF EditingInv

LEMMA EditingStepInv ==
  ASSUME EditingInv, EditingNext PROVE EditingInv'
  BY EditorStepInv, LeaseEndsInv, PublicOverwriteInv DEF EditingNext

LEMMA EditingStutter == EditingInv /\ UNCHANGED editingVars => EditingInv'
  BY DEF editingVars, EditingInv, EditingTypeOK, LockInv, Holds, CallInv, BaseInv, Counts,
         SaveInv, CallAt, Revision

LEMMA EditingImplies == EditingInv => EditsBuildOnLast
<1> SUFFICES ASSUME EditingInv PROVE EditsBuildOnLast
  OBVIOUS
<1>1. EditingTypeOK /\ LockInv /\ CallInv /\ SaveInv
  BY DEF EditingInv
<1>2. ASSUME NEW s \in EditSession, session[s].status = "active", ~session[s].lapsed
      PROVE  editLock.of = s
  BY <1>1, <1>2 DEF LockInv, Holds
<1>3. ASSUME NEW c \in Editor, CallAt(c, "save", "commit")
      PROVE  \/ session[call[c].of].lapsed \/ session[call[c].of].ended
             \/ /\ revisions.saved = call[c].known
                /\ call[c].expects => revisions.saved = session[call[c].of].known
  BY <1>1, <1>3 DEF SaveInv, CallInv, Holds, CallAt
<1> QED
  BY <1>2, <1>3 DEF EditsBuildOnLast

(* Sessions do not overwrite each other's saves unseen: a session has the  *)
(* lock until it or its lease has ended, and no other that has it saves    *)
(* between a save's comparison of revisions and its commit.                *)
THEOREM EditsNeverLost == EditingSpec => []EditsBuildOnLast
  BY EditingInvStart, EditingStepInv, EditingStutter, EditingImplies, PTL DEF EditingSpec

-----------------------------------------------------------------------------
(* Sharing.  The user's access follows the shares.                         *)

(* A request that has removed the tuple of its share, and has yet to write *)
(* one, is clearing the share.                                             *)
Clearing(a) == task[a].at \in {"row", "grant", "undo"}
Cleared(s)  == \E a \in Sharer : Clearing(a) /\ task[a].share = s

(* The only tuple of a share is removed, so that no second request can     *)
(* remove it: every tuple is the one of a live share that no request is    *)
(* clearing, and no two requests clear the same share.                     *)
TupleInv ==
    ~crossed =>
        /\ \A role \in tuples : \E s \in Share : Live(s) /\ share[s].role = role /\ ~Cleared(s)
        /\ \A a, b \in Sharer :
              Clearing(a) /\ Clearing(b) /\ task[a].share = task[b].share => a = b
        /\ \A a \in Sharer : At(a, "grant") =>
              Live(task[a].share) /\ share[task[a].share].role = task[a].role

(* Without a fault nothing waits for the repair, and an active share has   *)
(* its tuple when no request is clearing it.                               *)
FaultlessInv ==
    faults = 0 =>
        /\ \A s \in Share : share[s].status # "pending_sync"
        /\ \A a \in Sharer : ~At(a, "mark")
        /\ ~crossed => \A s \in Share :
              share[s].status = "active" => share[s].role \in tuples \/ Cleared(s)

(* A repair that nothing disturbs has on its list what has no access yet.  *)
RepairInv ==
    repair.alone => \A s \in Share : Live(s) =>
        Grants(share[s].role) \/ [share |-> s, role |-> share[s].role] \in repair.listed

SharingInv == SharingTypeOK /\ FaultsTypeOK /\ TupleInv /\ FaultlessInv /\ RepairInv

ShareRow == [status : {"none", "active", "pending_sync", "revoked"}, role : Role]

SharerTask == [op : {"none", "create", "accept", "update", "revoke"},
               at : {"idle", "insert", "delete", "row", "grant", "mark", "undo", "spend"},
               share : Share \cup {NoShare}, old : Role, role : Role]

RepairRow == [listed : SUBSET [share : Share, role : Role], mend : Share \cup {NoShare},
              alone : BOOLEAN]

LEMMA SharingFields ==
  ASSUME SharingTypeOK
  PROVE  /\ \A s \in Share : share[s] \in ShareRow /\ share[s].role \in Role
         /\ \A s \in Share : share[s].status \in {"none", "active", "pending_sync", "revoked"}
         /\ \A a \in Sharer : /\ task[a] \in SharerTask
                              /\ task[a].old \in Role /\ task[a].role \in Role
                              /\ task[a].share \in Share \cup {NoShare}
         /\ repair \in RepairRow
  BY DEF SharingTypeOK, ShareRow, SharerTask, RepairRow

LEMMA SharingInvStart == SharingInit /\ FaultsTypeOK => SharingInv
<1> SUFFICES ASSUME SharingInit, FaultsTypeOK PROVE SharingInv
  OBVIOUS
<1>1. Done \in SharerTask /\ NoList \in RepairRow /\ "viewer" \in Role
  BY DEF Done, SharerTask, NoList, RepairRow, Role
<1>2. SharingTypeOK
  <2>1. share \in [Share -> ShareRow]
    BY <1>1 DEF SharingInit, ShareRow
  <2>2. \A a \in Sharer : task[a].at = "idle"
    BY DEF SharingInit, Done
  <2> QED
    BY <1>1, <2>1, <2>2 DEF SharingInit, SharingTypeOK, ShareRow, SharerTask, RepairRow
<1>3. TupleInv /\ FaultlessInv
  BY DEF SharingInit, TupleInv, FaultlessInv, Clearing, At, Done
<1>4. RepairInv
  BY DEF SharingInit, RepairInv, NoList
<1> QED
  BY <1>2, <1>3, <1>4 DEF SharingInv

LEMMA FaultsKept == ASSUME FaultsTypeOK, Fault \/ Unfailing
                    PROVE  FaultsTypeOK' /\ (faults' = 0 => faults = 0 /\ Unfailing)
  BY FaultsAssumption DEF FaultsTypeOK, Fault, Unfailing

(* A step of a request, as far as what it writes is of its type.           *)
LEMMA SharerMoves ==
  ASSUME SharingInv, NEW a \in Sharer, NEW t \in SharerTask, task' = [task EXCEPT ![a] = t],
         Disturb, Fault \/ Unfailing,
         share' \in [Share -> ShareRow],
         \A s \in Share : share[s].status # "none" => share'[s].status # "none",
         t.at \notin {"idle", "insert"} => t.share \in Share /\ share'[t.share].status # "none",
         tuples' \subseteq Role, invited' \in {"pending", "accepted", "revoked"},
         crossed' \in BOOLEAN
  PROVE  /\ SharingTypeOK' /\ RepairInv' /\ FaultsTypeOK'
         /\ faults' = 0 => faults = 0 /\ Unfailing
         /\ task'[a] = t
         /\ \A b \in Sharer : b # a => task'[b] = task[b]
         /\ \A s \in Share : Cleared(s)' => Cleared(s) \/ (Clearing(a)' /\ s = t.share)
         /\ \A s \in Share : Cleared(s) => Cleared(s)' \/ (Clearing(a) /\ s = task[a].share)
         /\ Clearing(a)' <=> t.at \in {"row", "grant", "undo"}
<1>1. SharingTypeOK /\ FaultsTypeOK
  BY DEF SharingInv
<1>2. /\ task' \in [Sharer -> SharerTask] /\ task'[a] = t
      /\ \A b \in Sharer : b # a => task'[b] = task[b]
  BY <1>1 DEF SharingTypeOK, SharerTask
<1>3. repair' \in RepairRow /\ repair'.alone = FALSE
  BY <1>1, SharingFields DEF Disturb, RepairRow
<1>4. SharingTypeOK'
  BY <1>1, <1>2, <1>3 DEF SharingTypeOK, ShareRow, SharerTask, RepairRow
<1>5. RepairInv'
  BY <1>3 DEF RepairInv
<1>6. /\ \A s \in Share : Cleared(s)' => Cleared(s) \/ (Clearing(a)' /\ s = t.share)
      /\ \A s \in Share : Cleared(s) => Cleared(s)' \/ (Clearing(a) /\ s = task[a].share)
      /\ Clearing(a)' <=> t.at \in {"row", "grant", "undo"}
  BY <1>2 DEF Cleared, Clearing
<1> QED
  BY <1>1, <1>2, <1>4, <1>5, <1>6, FaultsKept

(* A step that changes neither a tuple nor what share is live with which   *)
(* role.                                                                   *)
LEMMA QuietStep ==
  ASSUME SharingInv, NEW a \in Sharer, NEW t \in SharerTask, task' = [task EXCEPT ![a] = t],
         Disturb, Fault \/ Unfailing,
         share' \in [Share -> ShareRow],
         \A s \in Share : /\ share[s].status # "none" => share'[s].status # "none"
                          /\ Live(s)' <=> Live(s)
                          /\ share'[s].role = share[s].role,
         t.at \notin {"idle", "insert"} => t.share \in Share /\ share'[t.share].status # "none",
         invited' \in {"pending", "accepted", "revoked"}, UNCHANGED <<tuples, crossed>>,
         t.at \in {"row", "grant", "undo"} =>
             Clearing(a) /\ t.share = task[a].share /\ t.at = "undo",
         faults' = 0 => /\ share' = share /\ t.at # "mark"
                        /\ Clearing(a) => t.at = "undo"
  PROVE  SharingInv'
<1>1. SharingTypeOK /\ FaultsTypeOK /\ TupleInv /\ FaultlessInv
  BY DEF SharingInv
<1>2. tuples' \subseteq Role
  BY <1>1 DEF SharingTypeOK
<1>3. crossed' \in BOOLEAN
  BY <1>1 DEF SharingTypeOK
<1>4. /\ SharingTypeOK' /\ RepairInv' /\ FaultsTypeOK'
      /\ faults' = 0 => faults = 0 /\ Unfailing
      /\ task'[a] = t
      /\ \A b \in Sharer : b # a => task'[b] = task[b]
      /\ \A s \in Share : Cleared(s)' => Cleared(s) \/ (Clearing(a)' /\ s = t.share)
      /\ \A s \in Share : Cleared(s) => Cleared(s)' \/ (Clearing(a) /\ s = task[a].share)
      /\ Clearing(a)' <=> t.at \in {"row", "grant", "undo"}
  BY <1>2, <1>3, SharerMoves
<1>5. \A s \in Share : Cleared(s)' => Cleared(s)
  BY <1>4 DEF Cleared
<1>6. TupleInv'
  <2> SUFFICES ASSUME ~crossed
               PROVE  /\ \A role \in tuples : \E s \in Share : Live(s)' /\ share'[s].role = role /\ ~Cleared(s)'
                      /\ \A b, c \in Sharer :
                            Clearing(b)' /\ Clearing(c)' /\ task'[b].share = task'[c].share => b = c
                      /\ \A b \in Sharer : At(b, "grant")' =>
                            Live(task[b].share)' /\ share'[task'[b].share].role = task'[b].role
    BY DEF TupleInv
  <2>1. \A role \in tuples : \E s \in Share : Live(s)' /\ share'[s].role = role /\ ~Cleared(s)'
    BY <1>1, <1>5 DEF TupleInv
  <2>2. \A b \in Sharer : Clearing(b)' => Clearing(b) /\ task'[b].share = task[b].share
    BY <1>4 DEF Clearing
  <2>3. \A b, c \in Sharer :
            Clearing(b)' /\ Clearing(c)' /\ task'[b].share = task'[c].share => b = c
    BY <1>1, <2>2 DEF TupleInv
  <2>4. ASSUME NEW b \in Sharer, At(b, "grant")'
        PROVE  Live(task[b].share)' /\ share'[task'[b].share].role = task'[b].role
    <3>1. b # a /\ task'[b] = task[b] /\ At(b, "grant")
      BY <1>4, <2>4 DEF At
    <3>2. task[b].share \in Share
      BY <1>1, <3>1 DEF SharingTypeOK, At
    <3>3. Live(task[b].share) /\ share[task[b].share].role = task[b].role
      BY <1>1, <3>1 DEF TupleInv
    <3> QED
      BY <3>1, <3>2, <3>3 DEF Live
  <2> QED
    BY <2>1, <2>3, <2>4
<1>7. FaultlessInv'
  <2> SUFFICES ASSUME faults' = 0
               PROVE  /\ \A s \in Share : share'[s].status # "pending_sync"
                      /\ \A b \in Sharer : ~At(b, "mark")'
                      /\ ~crossed' => \A s \in Share :
                            share'[s].status = "active" => share'[s].role \in tuples' \/ Cleared(s)'
    BY DEF FaultlessInv
  <2>1. faults = 0 /\ share' = share
    BY <1>4
  <2>2. \A b \in Sharer : ~At(b, "mark")'
    BY <1>1, <1>4, <2>1 DEF FaultlessInv, At
  <2>3. \A s \in Share : Cleared(s) => Cleared(s)'
    BY <1>4 DEF Cleared, Clearing
  <2> QED
    BY <1>1, <2>1, <2>2, <2>3 DEF FaultlessInv
<1> QED
  BY <1>4, <1>6, <1>7 DEF SharingInv

(* A request that is where it works on a share has one.                    *)
LEMMA OwnShare ==
  ASSUME SharingTypeOK, NEW a \in Sharer, task[a].at \notin {"idle", "insert"}
  PROVE  task[a].share \in Share /\ share[task[a].share].status # "none"
  BY DEF SharingTypeOK

LEMMA BecomeTask ==
  ASSUME SharingTypeOK, NEW a \in Sharer, Become(a, "row") \/ Become(a, "grant") \/ Become(a, "undo")
                                          \/ Become(a, "mark") \/ Become(a, "spend")
  PROVE  \E t \in SharerTask :
            /\ task' = [task EXCEPT ![a] = t]
            /\ \A step \in {"row", "grant", "undo", "mark", "spend"} : Become(a, step) => t.at = step
            /\ t.at \in {"row", "grant", "undo", "mark", "spend"}
            /\ t.share = task[a].share /\ t.role = task[a].role /\ t.old = task[a].old
<1>1. task[a] \in SharerTask
  BY SharingFields
<1>2. PICK step \in {"row", "grant", "undo", "mark", "spend"} : Become(a, step)
  OBVIOUS
<1> DEFINE t == [task[a] EXCEPT !.at = step]
<1>3. t \in SharerTask
  BY <1>1 DEF SharerTask
<1>4. task' = [task EXCEPT ![a] = t]
  BY <1>2 DEF Become
<1>5. t.at = step /\ t.share = task[a].share /\ t.role = task[a].role /\ t.old = task[a].old
  BY <1>1 DEF SharerTask
<1>6. ASSUME NEW to \in {"row", "grant", "undo", "mark", "spend"}, Become(a, to)
      PROVE  t.at = to
  <2>1. task'[a].at = to /\ task'[a].at = step
    BY <1>1, <1>2, <1>6 DEF Become, SharingTypeOK, SharerTask
  <2> QED
    BY <1>5, <2>1
<1> QED
  BY <1>3, <1>4, <1>5, <1>6

LEMMA DoneTask == Done \in SharerTask /\ Done.at = "idle"
  BY DEF Done, SharerTask, Role

(* The row of a share is created.                                          *)
LEMMA InsertShareInv ==
  ASSUME SharingInv, Disturb, NEW a \in Sharer, NEW s \in Share, NEW op \in {"create", "accept"},
         NEW role \in Role, ~Clearing(a), InsertShare(a, s, op, role)
  PROVE  SharingInv'
<1>1. SharingTypeOK /\ FaultsTypeOK /\ TupleInv /\ FaultlessInv
  BY DEF SharingInv
<1>2. /\ share \in [Share -> ShareRow] /\ tuples \subseteq Role
      /\ invited' \in {"pending", "accepted", "revoked"}
  BY <1>1 DEF SharingTypeOK, ShareRow, InsertShare
<1>3. crossed' \in BOOLEAN
  BY <1>1 DEF SharingTypeOK, InsertShare
<1>4. share[s].status = "none" /\ UNCHANGED <<tuples, invited, crossed>> /\ Unfailing
  BY DEF InsertShare
<1>5. CASE share' = share /\ task' = [task EXCEPT ![a] = Done]
  BY <1>2, <1>4, <1>5, DoneTask, QuietStep DEF Live
<1>6. CASE /\ share' = [share EXCEPT ![s] = [status |-> "active", role |-> role]]
           /\ task' = [task EXCEPT ![a] = [Done EXCEPT !.op = op, !.at = "grant", !.share = s,
                                                       !.role = role]]
  <2> DEFINE t == [Done EXCEPT !.op = op, !.at = "grant", !.share = s, !.role = role]
  <2>1. t \in SharerTask /\ t.at = "grant" /\ t.share = s /\ t.role = role
    BY DoneTask DEF SharerTask, Done
  <2>2. /\ share' \in [Share -> ShareRow]
        /\ share'[s].status = "active" /\ share'[s].role = role
        /\ \A x \in Share : x # s => share'[x] = share[x]
    BY <1>2, <1>6 DEF ShareRow
  <2> HIDE DEF t
  <2>3. /\ SharingTypeOK' /\ RepairInv' /\ FaultsTypeOK'
        /\ faults' = 0 => faults = 0 /\ Unfailing
        /\ task'[a] = t
        /\ \A b \in Sharer : b # a => task'[b] = task[b]
        /\ \A x \in Share : Cleared(x)' => Cleared(x) \/ (Clearing(a)' /\ x = t.share)
        /\ \A x \in Share : Cleared(x) => Cleared(x)' \/ (Clearing(a) /\ x = task[a].share)
        /\ Clearing(a)' <=> t.at \in {"row", "grant", "undo"}
    BY <1>2, <1>3, <1>4, <1>6, <2>1, <2>2, SharerMoves DEF t
  <2>4. ~Cleared(s) /\ \A b \in Sharer : Clearing(b) => task[b].share # s
    BY <1>1, <1>4, OwnShare DEF Cleared, Clearing
  <2>5. TupleInv'
    <3> SUFFICES ASSUME ~crossed
                 PROVE  /\ \A x \in tuples : \E y \in Share : Live(y)' /\ share'[y].role = x /\ ~Cleared(y)'
                        /\ \A b, c \in Sharer :
                              Clearing(b)' /\ Clearing(c)' /\ task'[b].share = task'[c].share => b = c
                        /\ \A b \in Sharer : At(b, "grant")' =>
                              Live(task[b].share)' /\ share'[task'[b].share].role = task'[b].role
      BY <1>4 DEF TupleInv
    <3>1. \A x \in tuples : \E y \in Share : Live(y)' /\ share'[y].role = x /\ ~Cleared(y)'
      <4> TAKE x \in tuples
      <4>1. PICK y \in Share : Live(y) /\ share[y].role = x /\ ~Cleared(y)
        BY <1>1 DEF TupleInv
      <4>2. y # s
        BY <1>4, <4>1 DEF Live
      <4> QED
        BY <2>1, <2>2, <2>3, <4>1, <4>2 DEF Live
    <3>2. \A b \in Sharer \ {a} : Clearing(b)' => Clearing(b) /\ task'[b] = task[b]
      BY <2>3 DEF Clearing
    <3>3. \A b, c \in Sharer :
              Clearing(b)' /\ Clearing(c)' /\ task'[b].share = task'[c].share => b = c
      BY <1>1, <2>1, <2>3, <2>4, <3>2 DEF TupleInv
    <3>4. ASSUME NEW b \in Sharer, At(b, "grant")'
          PROVE  Live(task[b].share)' /\ share'[task'[b].share].role = task'[b].role
      <4>1. CASE b = a
        BY <2>1, <2>2, <2>3, <4>1 DEF Live
      <4>2. CASE b # a
        <5>1. Clearing(b) /\ At(b, "grant") /\ task'[b] = task[b] /\ task[b].share \in Share
          BY <1>1, <2>3, <3>4, <4>2, OwnShare DEF At, Clearing
        <5>2. Live(task[b].share) /\ share[task[b].share].role = task[b].role /\ task[b].share # s
          BY <1>1, <2>4, <5>1 DEF TupleInv
        <5> QED
          BY <2>2, <5>1, <5>2 DEF Live
      <4> QED
        BY <4>1, <4>2
    <3> QED
      BY <3>1, <3>3, <3>4
  <2>6. FaultlessInv'
    <3>1. \A x \in Share : x # s /\ Cleared(x) => Cleared(x)'
      BY <2>3
    <3>2. Cleared(s)'
      BY <2>1, <2>3 DEF Cleared
    <3>3. faults' = 0 => \A b \in Sharer : ~At(b, "mark")'
      BY <1>1, <2>1, <2>3 DEF FaultlessInv, At
    <3> QED
      BY <1>1, <1>4, <2>2, <2>3, <3>1, <3>2, <3>3 DEF FaultlessInv
  <2> QED
    BY <2>3, <2>5, <2>6 DEF SharingInv
<1> QED
  BY <1>5, <1>6 DEF InsertShare, Finish

(* The tuple of a share as it was read is removed.                         *)
LEMMA TupleRemoved ==
  ASSUME SharingInv, Disturb, NEW a \in Sharer, At(a, "delete"), Fault \/ Unfailing,
         NEW t \in SharerTask, task' = [task EXCEPT ![a] = t],
         t.at = "idle" \/ (t.at = "row" /\ t.share = task[a].share), Unfailing => t.at = "row",
         task[a].old \in tuples, tuples' = tuples \ {task[a].old},
         AsRead(task[a].share, task[a].old), UNCHANGED <<share, invited>>
  PROVE  SharingInv'
<1> DEFINE old == task[a].old
<1>1. SharingTypeOK /\ FaultsTypeOK /\ TupleInv /\ FaultlessInv
  BY DEF SharingInv
<1>2. PICK s \in Share : s = task[a].share /\ share[s].status # "none"
  BY <1>1, OwnShare DEF At
<1>3. /\ share \in [Share -> ShareRow] /\ tuples \subseteq Role
      /\ invited \in {"pending", "accepted", "revoked"}
  BY <1>1 DEF SharingTypeOK, ShareRow
<1>4. crossed' \in BOOLEAN
  BY DEF AsRead
<1>5. ~crossed' => /\ ~crossed /\ Live(s) /\ share[s].role = old
                   /\ \A x \in Share \ {s} : ~Live(x)
  BY <1>2 DEF AsRead
<1> HIDE DEF old
<1>a. t.at \notin {"idle", "insert"} => t.share \in Share /\ share'[t.share].status # "none"
  BY <1>2
<1>b. tuples' \subseteq Role /\ share' \in [Share -> ShareRow]
      /\ invited' \in {"pending", "accepted", "revoked"}
      /\ \A x \in Share : share[x].status # "none" => share'[x].status # "none"
  BY <1>3
<1>6. /\ SharingTypeOK' /\ RepairInv' /\ FaultsTypeOK'
      /\ faults' = 0 => faults = 0 /\ Unfailing
      /\ task'[a] = t
      /\ \A b \in Sharer : b # a => task'[b] = task[b]
      /\ \A x \in Share : Cleared(x)' => Cleared(x) \/ (Clearing(a)' /\ x = t.share)
      /\ \A x \in Share : Cleared(x) => Cleared(x)' \/ (Clearing(a) /\ x = task[a].share)
      /\ Clearing(a)' <=> t.at \in {"row", "grant", "undo"}
  BY <1>a, <1>b, <1>4, SharerMoves
<1>7. TupleInv'
  <2> SUFFICES ASSUME ~crossed'
               PROVE  /\ tuples' = {}
                      /\ \A b, c \in Sharer :
                            Clearing(b)' /\ Clearing(c)' /\ task'[b].share = task'[c].share => b = c
                      /\ \A b \in Sharer : At(b, "grant")' =>
                            Live(task[b].share)' /\ share'[task'[b].share].role = task'[b].role
    BY DEF TupleInv
  <2>1. \A x \in tuples : x = old
    BY <1>1, <1>5 DEF TupleInv
  <2>2. tuples' = {}
    BY <2>1 DEF old
  <2>3. ~Cleared(s)
    BY <1>1, <1>5 DEF TupleInv, old
  <2>4. \A b \in Sharer \ {a} : Clearing(b)' => Clearing(b) /\ task'[b] = task[b] /\ task[b].share # s
    BY <1>6, <2>3 DEF Clearing, Cleared
  <2>5. Clearing(a)' => task'[a].share = s
    BY <1>6, <1>2
  <2>6. \A b, c \in Sharer :
            Clearing(b)' /\ Clearing(c)' /\ task'[b].share = task'[c].share => b = c
    BY <1>1, <1>5, <2>4, <2>5 DEF TupleInv
  <2>7. ASSUME NEW b \in Sharer, At(b, "grant")'
        PROVE  Live(task[b].share)' /\ share'[task'[b].share].role = task'[b].role
    <3>1. b # a /\ At(b, "grant") /\ task'[b] = task[b]
      BY <1>6, <2>7 DEF At
    <3> QED
      BY <1>1, <1>5, <3>1 DEF TupleInv, Live
  <2> QED
    BY <2>2, <2>6, <2>7
<1>8. FaultlessInv'
  <2> SUFFICES ASSUME faults' = 0
               PROVE  /\ \A x \in Share : share[x].status # "pending_sync"
                      /\ \A b \in Sharer : ~At(b, "mark")'
                      /\ ~crossed' => \A x \in Share : share[x].status = "active" => Cleared(x)'
    BY DEF FaultlessInv
  <2>1. t.at = "row" /\ t.share = s
    BY <1>6, <1>2
  <2>2. Cleared(s)'
    BY <1>6, <2>1 DEF Cleared
  <2>3. \A b \in Sharer : ~At(b, "mark")'
    BY <1>1, <1>6, <2>1 DEF FaultlessInv, At
  <2>4. \A x \in Share : share[x].status = "active" => Live(x)
    BY DEF Live
  <2> QED
    BY <1>1, <1>5, <1>6, <2>2, <2>3, <2>4 DEF FaultlessInv
<1> QED
  BY <1>6, <1>7, <1>8 DEF SharingInv

LEMMA DeleteTupleInv ==
  ASSUME SharingInv, Disturb, NEW a \in Sharer, DeleteTuple(a) PROVE SharingInv'
<1>1. SharingTypeOK
  BY DEF SharingInv
<1>2. At(a, "delete") /\ UNCHANGED <<share, invited>>
  BY DEF DeleteTuple
<1>3. /\ share \in [Share -> ShareRow]
      /\ invited' \in {"pending", "accepted", "revoked"} /\ ~Clearing(a)
  BY <1>1, <1>2 DEF SharingTypeOK, ShareRow, Clearing, At
<1> DEFINE delete == tuples' = tuples \ {task[a].old} /\ AsRead(task[a].share, task[a].old)
<1>4. \/ task[a].old \in tuples /\ delete /\ Become(a, "row") /\ Unfailing
      \/ Finish(a) /\ UNCHANGED <<tuples, crossed>> /\ (Fault \/ Unfailing)
      \/ task[a].old \in tuples /\ Fault /\ delete /\ Finish(a)
  BY DEF DeleteTuple, Fails
<1>5. CASE task[a].old \in tuples /\ delete /\ Become(a, "row") /\ Unfailing
  <2>1. PICK t \in SharerTask :
            task' = [task EXCEPT ![a] = t] /\ t.at = "row" /\ t.share = task[a].share
    BY <1>1, <1>5, BecomeTask
  <2> QED
    BY <1>2, <1>5, <2>1, TupleRemoved
<1>6. CASE Finish(a) /\ UNCHANGED <<tuples, crossed>> /\ (Fault \/ Unfailing)
  <2>1. task' = [task EXCEPT ![a] = Done]
    BY <1>6 DEF Finish
  <2> QED
    BY <1>2, <1>3, <1>6, <2>1, DoneTask, QuietStep DEF Live
<1>7. CASE task[a].old \in tuples /\ Fault /\ delete /\ Finish(a)
  <2>1. task' = [task EXCEPT ![a] = Done]
    BY <1>7 DEF Finish
  <2>2. ~Unfailing
    BY <1>7, FaultsAssumption DEF Fault, Unfailing, SharingInv, FaultsTypeOK
  <2> QED
    BY <1>2, <1>7, <2>1, <2>2, DoneTask, TupleRemoved
<1> QED
  BY <1>4, <1>5, <1>6, <1>7

(* The row of a share that a request is clearing takes what the request    *)
(* is to give it.                                                          *)
LEMMA RowWritten ==
  ASSUME SharingInv, Disturb, NEW a \in Sharer, At(a, "row"), Fault \/ Unfailing,
         NEW t \in SharerTask, task' = [task EXCEPT ![a] = t],
         NEW r \in ShareRow, share' = [share EXCEPT ![task[a].share] = r],
         \/ r.status = "revoked" /\ t.at = "idle"
         \/ r.status = "active" /\ t.at \in {"grant", "undo"} /\ t.share = task[a].share
            /\ t.role = r.role,
         UNCHANGED <<tuples, invited, crossed>>
  PROVE  SharingInv'
<1>1. SharingTypeOK /\ FaultsTypeOK /\ TupleInv /\ FaultlessInv
  BY DEF SharingInv
<1>2. PICK s \in Share : s = task[a].share /\ share[s].status # "none"
  BY <1>1, OwnShare DEF At
<1>3. /\ share \in [Share -> ShareRow] /\ tuples \subseteq Role
      /\ invited \in {"pending", "accepted", "revoked"}
  BY <1>1 DEF SharingTypeOK, ShareRow
<1>4. crossed' \in BOOLEAN
  BY <1>1 DEF SharingTypeOK
<1>5. /\ share' \in [Share -> ShareRow] /\ share'[s] = r
      /\ \A x \in Share : x # s => share'[x] = share[x]
      /\ Clearing(a)
  BY <1>2, <1>3 DEF Clearing, At
<1>6. /\ \A x \in Share : share[x].status # "none" => share'[x].status # "none"
      /\ t.at \notin {"idle", "insert"} => t.share \in Share /\ share'[t.share].status # "none"
      /\ tuples' \subseteq Role /\ invited' \in {"pending", "accepted", "revoked"}
  BY <1>2, <1>3, <1>5
<1>7. /\ SharingTypeOK' /\ RepairInv' /\ FaultsTypeOK'
      /\ faults' = 0 => faults = 0 /\ Unfailing
      /\ task'[a] = t
      /\ \A b \in Sharer : b # a => task'[b] = task[b]
      /\ \A x \in Share : Cleared(x)' => Cleared(x) \/ (Clearing(a)' /\ x = t.share)
      /\ \A x \in Share : Cleared(x) => Cleared(x)' \/ (Clearing(a) /\ x = task[a].share)
      /\ Clearing(a)' <=> t.at \in {"row", "grant", "undo"}
  BY <1>4, <1>5, <1>6, SharerMoves
<1>8. Cleared(s)
  BY <1>2, <1>5 DEF Cleared
<1>9. TupleInv'
  <2> SUFFICES ASSUME ~crossed
               PROVE  /\ \A x \in tuples : \E y \in Share : Live(y)' /\ share'[y].role = x /\ ~Cleared(y)'
                      /\ \A b, c \in Sharer :
                            Clearing(b)' /\ Clearing(c)' /\ task'[b].share = task'[c].share => b = c
                      /\ \A b \in Sharer : At(b, "grant")' =>
                            Live(task[b].share)' /\ share'[task'[b].share].role = task'[b].role
    BY DEF TupleInv
  <2>1. \A x \in tuples : \E y \in Share : Live(y)' /\ share'[y].role = x /\ ~Cleared(y)'
    <3> TAKE x \in tuples
    <3>1. PICK y \in Share : Live(y) /\ share[y].role = x /\ ~Cleared(y)
      BY <1>1 DEF TupleInv
    <3>2. y # s
      BY <1>8, <3>1
    <3> QED
      BY <1>5, <1>7, <3>1, <3>2, <1>2 DEF Live
  <2>2. \A b \in Sharer \ {a} : Clearing(b)' => Clearing(b) /\ task'[b] = task[b]
    BY <1>7 DEF Clearing
  <2>3. \A b \in Sharer \ {a} : Clearing(b) => task[b].share # s
    BY <1>1, <1>5, <1>2 DEF TupleInv
  <2>4. Clearing(a)' => task'[a].share = s
    BY <1>7, <1>2
  <2>5. \A b, c \in Sharer :
            Clearing(b)' /\ Clearing(c)' /\ task'[b].share = task'[c].share => b = c
    BY <1>1, <2>2, <2>3, <2>4 DEF TupleInv
  <2>6. ASSUME NEW b \in Sharer, At(b, "grant")'
        PROVE  Live(task[b].share)' /\ share'[task'[b].share].role = task'[b].role
    <3>1. CASE b = a
      BY <1>5, <1>7, <2>6, <3>1, <1>2 DEF Live, At
    <3>2. CASE b # a
      <4>1. Clearing(b) /\ At(b, "grant") /\ task'[b] = task[b] /\ task[b].share \in Share
        BY <1>1, <1>7, <2>6, <3>2, OwnShare DEF At, Clearing
      <4>2. Live(task[b].share) /\ share[task[b].share].role = task[b].role /\ task[b].share # s
        BY <1>1, <2>3, <3>2, <4>1 DEF TupleInv
      <4> QED
        BY <1>5, <4>1, <4>2 DEF Live
    <3> QED
      BY <3>1, <3>2
  <2> QED
    BY <2>1, <2>5, <2>6
<1>10. FaultlessInv'
  <2>1. \A x \in Share : x # s /\ Cleared(x) => Cleared(x)'
    BY <1>7, <1>2
  <2>2. r.status = "active" => Cleared(s)'
    BY <1>7, <1>2 DEF Cleared
  <2>3. faults' = 0 => \A b \in Sharer : ~At(b, "mark")'
    BY <1>1, <1>7 DEF FaultlessInv, At
  <2> QED
    BY <1>1, <1>5, <1>7, <2>1, <2>2, <2>3 DEF FaultlessInv
<1> QED
  BY <1>7, <1>9, <1>10 DEF SharingInv

LEMMA RevokeRowInv ==
  ASSUME SharingInv, Disturb, NEW a \in Sharer, RevokeRow(a) PROVE SharingInv'
<1>1. SharingTypeOK
  BY DEF SharingInv
<1>2. /\ At(a, "row") /\ UNCHANGED <<tuples, invited, crossed>>
      /\ task' = [task EXCEPT ![a] = Done] /\ Clearing(a)
  BY DEF RevokeRow, Finish, At, Clearing
<1>3. PICK s \in Share : s = task[a].share /\ share[s].status # "none"
  BY <1>1, <1>2, OwnShare DEF At
<1>4. /\ share \in [Share -> ShareRow] /\ share[s] \in ShareRow
      /\ invited' \in {"pending", "accepted", "revoked"}
  BY <1>1, <1>2 DEF SharingTypeOK, ShareRow
<1>5. \/ share' = [share EXCEPT ![s].status = "revoked"] /\ (Fault \/ Unfailing)
      \/ Fault /\ share' = share
  BY <1>3 DEF RevokeRow, Fails
<1>6. CASE share' = [share EXCEPT ![s].status = "revoked"] /\ (Fault \/ Unfailing)
  <2> DEFINE r == [share[s] EXCEPT !.status = "revoked"]
  <2>1. r \in ShareRow /\ r.status = "revoked" /\ share' = [share EXCEPT ![task[a].share] = r]
    BY <1>3, <1>4, <1>6 DEF ShareRow
  <2> HIDE DEF r
  <2> QED
    BY <1>2, <1>6, <2>1, DoneTask, RowWritten
<1>7. CASE Fault /\ share' = share
  <2>1. faults' # 0
    BY <1>7, FaultsAssumption DEF Fault, SharingInv, FaultsTypeOK
  <2> QED
    BY <1>2, <1>4, <1>7, <2>1, DoneTask, QuietStep DEF Live
<1> QED
  BY <1>5, <1>6, <1>7

LEMMA UpdateRowInv ==
  ASSUME SharingInv, Disturb, NEW a \in Sharer, UpdateRow(a) PROVE SharingInv'
<1>1. SharingTypeOK
  BY DEF SharingInv
<1>2. At(a, "row") /\ UNCHANGED <<tuples, invited, crossed>> /\ Clearing(a)
  BY DEF UpdateRow, At, Clearing
<1>3. PICK s \in Share : s = task[a].share /\ share[s].status # "none"
  BY <1>1, <1>2, OwnShare DEF At
<1>4. /\ share \in [Share -> ShareRow] /\ task[a].role \in Role
      /\ invited' \in {"pending", "accepted", "revoked"}
  BY <1>1, <1>2 DEF SharingTypeOK, ShareRow
<1> DEFINE r == [status |-> "active", role |-> task[a].role]
<1>5. \/ share' = [share EXCEPT ![s] = r] /\ (Become(a, "grant") \/ Become(a, "undo"))
      \/ share' = share /\ Become(a, "undo")
  BY <1>3 DEF UpdateRow, Fails
<1>6. Fault \/ Unfailing
  BY DEF UpdateRow, Fails
<1>7. PICK t \in SharerTask :
         /\ task' = [task EXCEPT ![a] = t]
         /\ \A step \in {"row", "grant", "undo", "mark", "spend"} : Become(a, step) => t.at = step
         /\ t.at \in {"row", "grant", "undo", "mark", "spend"}
         /\ t.share = task[a].share /\ t.role = task[a].role /\ t.old = task[a].old
  BY <1>1, <1>5, BecomeTask
<1>8. CASE share' = [share EXCEPT ![s] = r] /\ (Become(a, "grant") \/ Become(a, "undo"))
  <2>1. /\ r \in ShareRow /\ r.status = "active" /\ r.role = t.role
        /\ share' = [share EXCEPT ![task[a].share] = r]
    BY <1>3, <1>4, <1>7, <1>8 DEF ShareRow
  <2>2. t.at \in {"grant", "undo"}
    BY <1>7, <1>8
  <2> HIDE DEF r
  <2> QED
    BY <1>2, <1>6, <1>7, <2>1, <2>2, RowWritten
<1>9. CASE share' = share /\ Become(a, "undo")
  <2>1. t.at = "undo" /\ t.share \in Share /\ share'[t.share].status # "none"
    BY <1>3, <1>7, <1>9
  <2> QED
    BY <1>2, <1>4, <1>6, <1>7, <1>9, <2>1, QuietStep DEF Live
<1> QED
  BY <1>5, <1>8, <1>9

(* The request in whose hands a share is writes a tuple of the share.      *)
LEMMA TupleWritten ==
  ASSUME SharingInv, Disturb, NEW a \in Sharer, Clearing(a), Fault \/ Unfailing,
         NEW t \in SharerTask, task' = [task EXCEPT ![a] = t],
         t.at \in {"idle", "spend", "mark"}, t.at # "idle" => t.share = task[a].share,
         Unfailing => t.at # "mark",
         NEW role \in Role, tuples' = tuples \cup {role}, UNCHANGED <<share, invited>>,
         crossed' \in BOOLEAN,
         ~crossed' => /\ ~crossed /\ Live(task[a].share)
                      /\ share[task[a].share].role = role
  PROVE  SharingInv'
<1>1. SharingTypeOK /\ FaultsTypeOK /\ TupleInv /\ FaultlessInv
  BY DEF SharingInv
<1>2. PICK s \in Share : s = task[a].share /\ share[s].status # "none"
  BY <1>1, OwnShare DEF Clearing
<1>3. /\ share' \in [Share -> ShareRow] /\ tuples' \subseteq Role
      /\ invited' \in {"pending", "accepted", "revoked"}
      /\ \A x \in Share : share[x].status # "none" => share'[x].status # "none"
      /\ t.at \notin {"idle", "insert"} => t.share \in Share /\ share'[t.share].status # "none"
  BY <1>1, <1>2 DEF SharingTypeOK, ShareRow
<1>4. /\ SharingTypeOK' /\ RepairInv' /\ FaultsTypeOK'
      /\ faults' = 0 => faults = 0 /\ Unfailing
      /\ task'[a] = t
      /\ \A b \in Sharer : b # a => task'[b] = task[b]
      /\ \A x \in Share : Cleared(x)' => Cleared(x) \/ (Clearing(a)' /\ x = t.share)
      /\ \A x \in Share : Cleared(x) => Cleared(x)' \/ (Clearing(a) /\ x = task[a].share)
      /\ Clearing(a)' <=> t.at \in {"row", "grant", "undo"}
  BY <1>3, SharerMoves
<1>5. \A b \in Sharer : Clearing(b)' => b # a /\ Clearing(b) /\ task'[b] = task[b]
  BY <1>4 DEF Clearing
<1>6. TupleInv'
  <2> SUFFICES ASSUME ~crossed'
               PROVE  /\ \A x \in tuples' : \E y \in Share : Live(y) /\ share[y].role = x /\ ~Cleared(y)'
                      /\ \A b, c \in Sharer :
                            Clearing(b)' /\ Clearing(c)' /\ task'[b].share = task'[c].share => b = c
                      /\ \A b \in Sharer : At(b, "grant")' =>
                            Live(task[b].share)' /\ share'[task'[b].share].role = task'[b].role
    BY DEF TupleInv, Live
  <2>1. \A b \in Sharer \ {a} : Clearing(b) => task[b].share # s
    BY <1>1, <1>2 DEF TupleInv
  <2>2. ~Cleared(s)'
    BY <1>5, <2>1 DEF Cleared
  <2>3. \A x \in tuples' : \E y \in Share : Live(y) /\ share[y].role = x /\ ~Cleared(y)'
    <3> TAKE x \in tuples'
    <3>1. CASE x = role
      BY <1>2, <2>2, <3>1
    <3>2. CASE x \in tuples
      BY <1>1, <1>4, <3>2 DEF TupleInv
    <3> QED
      BY <3>1, <3>2
  <2>4. \A b, c \in Sharer :
            Clearing(b)' /\ Clearing(c)' /\ task'[b].share = task'[c].share => b = c
    BY <1>1, <1>5 DEF TupleInv
  <2>5. ASSUME NEW b \in Sharer, At(b, "grant")'
        PROVE  Live(task[b].share)' /\ share'[task'[b].share].role = task'[b].role
    <3>1. b # a /\ At(b, "grant") /\ task'[b] = task[b]
      BY <1>4, <2>5 DEF At
    <3> QED
      BY <1>1, <3>1 DEF TupleInv, Live
  <2> QED
    BY <2>3, <2>4, <2>5
<1>7. FaultlessInv'
  <2> SUFFICES ASSUME faults' = 0
               PROVE  /\ \A x \in Share : share[x].status # "pending_sync"
                      /\ \A b \in Sharer : ~At(b, "mark")'
                      /\ ~crossed' => \A x \in Share :
                            share[x].status = "active" => share[x].role \in tuples' \/ Cleared(x)'
    BY DEF FaultlessInv
  <2>1. \A b \in Sharer : ~At(b, "mark")'
    BY <1>1, <1>4 DEF FaultlessInv, At
  <2>2. \A x \in Share : Cleared(x) /\ x # s => Cleared(x)'
    BY <1>2, <1>4
  <2>3. ~crossed' => ~crossed /\ share[s].role \in tuples'
    BY <1>2
  <2> QED
    BY <1>1, <1>4, <2>1, <2>2, <2>3 DEF FaultlessInv
<1> QED
  BY <1>4, <1>6, <1>7 DEF SharingInv

LEMMA GrantAccessInv ==
  ASSUME SharingInv, Disturb, NEW a \in Sharer, GrantAccess(a) PROVE SharingInv'
<1>1. SharingTypeOK /\ TupleInv
  BY DEF SharingInv
<1>2. At(a, "grant") /\ UNCHANGED <<share, invited, crossed>> /\ Clearing(a)
  BY DEF GrantAccess, At, Clearing
<1>3. /\ task[a].role \in Role /\ share \in [Share -> ShareRow]
      /\ invited' \in {"pending", "accepted", "revoked"}
  BY <1>1, <1>2 DEF SharingTypeOK, ShareRow
<1>4. crossed' \in BOOLEAN
  BY <1>1, <1>2 DEF SharingTypeOK
<1>5. ~crossed' => /\ ~crossed /\ Live(task[a].share)
                   /\ share[task[a].share].role = task[a].role
  BY <1>1, <1>2 DEF TupleInv
<1>6. PICK s \in Share : s = task[a].share /\ share[s].status # "none"
  BY <1>1, <1>2, OwnShare DEF At
<1>7. /\ Fault \/ Unfailing
      /\ \/ tuples' = tuples \cup {task[a].role} /\ (Become(a, "spend") \/ Finish(a))
         \/ Fault /\ tuples' = tuples \cup {task[a].role} /\ Become(a, "mark")
         \/ Fault /\ tuples' = tuples /\ Become(a, "mark")
  BY DEF GrantAccess, Write, Fails
<1>8. Fault => ~Unfailing /\ faults' # 0
  BY FaultsAssumption DEF Fault, Unfailing, SharingInv, FaultsTypeOK
<1>9. CASE tuples' = tuples \cup {task[a].role} /\ Finish(a)
  <2>1. task' = [task EXCEPT ![a] = Done]
    BY <1>9 DEF Finish
  <2> QED
    BY <1>2, <1>3, <1>4, <1>5, <1>7, <1>9, <2>1, DoneTask, TupleWritten
<1>10. CASE tuples' = tuples \cup {task[a].role} /\ Become(a, "spend")
  <2>1. PICK t \in SharerTask :
           task' = [task EXCEPT ![a] = t] /\ t.at = "spend" /\ t.share = task[a].share
    BY <1>1, <1>10, BecomeTask
  <2> QED
    BY <1>2, <1>3, <1>4, <1>5, <1>7, <1>10, <2>1, TupleWritten
<1>11. CASE Fault /\ Become(a, "mark")
  <2>1. PICK t \in SharerTask :
           task' = [task EXCEPT ![a] = t] /\ t.at = "mark" /\ t.share = task[a].share
    BY <1>1, <1>11, BecomeTask
  <2>2. CASE tuples' = tuples \cup {task[a].role}
    BY <1>2, <1>3, <1>4, <1>5, <1>8, <1>11, <2>1, <2>2, TupleWritten
  <2>3. CASE tuples' = tuples
    <3>1. t.share \in Share /\ share'[t.share].status # "none"
      BY <1>2, <1>6, <2>1
    <3> QED
      BY <1>2, <1>3, <1>8, <1>11, <2>1, <2>3, <3>1, QuietStep DEF Live
  <2> QED
    BY <1>7, <1>11, <2>2, <2>3
<1> QED
  BY <1>7, <1>9, <1>10, <1>11

LEMMA UndoDeleteInv ==
  ASSUME SharingInv, Disturb, NEW a \in Sharer, UndoDelete(a) PROVE SharingInv'
<1>1. SharingTypeOK
  BY DEF SharingInv
<1>2. /\ At(a, "undo") /\ UNCHANGED <<share, invited>> /\ Clearing(a)
      /\ task' = [task EXCEPT ![a] = Done]
  BY DEF UndoDelete, At, Clearing, Finish
<1>3. /\ task[a].old \in Role /\ share \in [Share -> ShareRow]
      /\ invited' \in {"pending", "accepted", "revoked"}
  BY <1>1, <1>2 DEF SharingTypeOK, ShareRow
<1>4. \/ /\ tuples' = tuples \cup {task[a].old} /\ AsRead(task[a].share, task[a].old)
         /\ Fault \/ Unfailing
      \/ Fault /\ UNCHANGED <<tuples, crossed>>
  BY DEF UndoDelete, Write, Fails
<1>5. CASE /\ tuples' = tuples \cup {task[a].old} /\ AsRead(task[a].share, task[a].old)
           /\ Fault \/ Unfailing
  <2>1. crossed' \in BOOLEAN
    BY <1>5 DEF AsRead
  <2>2. ~crossed' => /\ ~crossed /\ Live(task[a].share)
                     /\ share[task[a].share].role = task[a].old
    BY <1>5 DEF AsRead
  <2> QED
    BY <1>2, <1>3, <1>5, <2>1, <2>2, DoneTask, TupleWritten
<1>6. CASE Fault /\ UNCHANGED <<tuples, crossed>>
  <2>1. faults' # 0
    BY <1>6, FaultsAssumption DEF Fault, SharingInv, FaultsTypeOK
  <2> QED
    BY <1>2, <1>3, <1>6, <2>1, DoneTask, QuietStep DEF Live
<1> QED
  BY <1>4, <1>5, <1>6

LEMMA MarkPendingInv ==
  ASSUME SharingInv, Disturb, NEW a \in Sharer, MarkPending(a) PROVE SharingInv'
<1>1. SharingTypeOK /\ FaultlessInv
  BY DEF SharingInv
<1>2. /\ At(a, "mark") /\ UNCHANGED <<tuples, invited, crossed>> /\ Unfailing
      /\ task' = [task EXCEPT ![a] = Done]
  BY DEF MarkPending, Finish
<1>3. PICK s \in Share : s = task[a].share /\ share[s].status # "none"
  BY <1>1, <1>2, OwnShare DEF At
<1>4. /\ share \in [Share -> ShareRow] /\ invited' \in {"pending", "accepted", "revoked"}
  BY <1>1, <1>2 DEF SharingTypeOK, ShareRow
<1>5. share' = IF share[s].status = "revoked" THEN share
               ELSE [share EXCEPT ![s].status = "pending_sync"]
  BY <1>3 DEF MarkPending
<1>6. /\ share' \in [Share -> ShareRow]
      /\ \A x \in Share : /\ share[x].status # "none" => share'[x].status # "none"
                          /\ share'[x].role = share[x].role
  BY <1>4, <1>5 DEF ShareRow
<1>7. \A x \in Share : Live(x)' <=> Live(x)
  <2> TAKE x \in Share
  <2>1. CASE x = s
    <3>1. share[s].status \in {"active", "pending_sync", "revoked"}
      BY <1>3, <1>4 DEF ShareRow
    <3>2. share'[s].status = IF share[s].status = "revoked" THEN "revoked" ELSE "pending_sync"
      BY <1>4, <1>5 DEF ShareRow
    <3> QED
      BY <2>1, <3>1, <3>2 DEF Live
  <2>2. CASE x # s
    BY <1>4, <1>5, <2>2 DEF Live
  <2> QED
    BY <2>1, <2>2
<1>8. faults' # 0
  BY <1>1, <1>2 DEF FaultlessInv, Unfailing
<1> QED
  BY <1>2, <1>4, <1>6, <1>7, <1>8, DoneTask, QuietStep

(* The other steps of requests change only what they themselves know.      *)
LEMMA SmallStepInv ==
  ASSUME SharingInv, Disturb, NEW a \in Sharer,
         \/ \E role \in Role : ReadInvitation(a, role)
         \/ \E s \in Share, op \in {"revoke", "update"}, role \in Role : ReadShare(a, s, op, role)
         \/ SpendInvitation(a) \/ StopSharing(a)
  PROVE  SharingInv'
<1>1. SharingTypeOK
  BY DEF SharingInv
<1>2. /\ share \in [Share -> ShareRow] /\ \A x \in Share : share[x].role \in Role
      /\ invited \in {"pending", "accepted", "revoked"}
  BY <1>1, SharingFields DEF SharingTypeOK, ShareRow
<1>3. ASSUME NEW role \in Role, ReadInvitation(a, role) PROVE SharingInv'
  <2> DEFINE t == [Done EXCEPT !.op = "accept", !.at = "insert", !.role = role]
  <2>1. t \in SharerTask /\ t.at = "insert"
    BY DoneTask DEF SharerTask, Done
  <2>2. /\ task' = [task EXCEPT ![a] = t] /\ ~Clearing(a)
        /\ UNCHANGED <<share, tuples, invited, crossed>> /\ Unfailing
    BY <1>3 DEF ReadInvitation, Clearing, At
  <2> HIDE DEF t
  <2> QED
    BY <1>2, <2>1, <2>2, QuietStep DEF Live
<1>4. ASSUME NEW s \in Share, NEW op \in {"revoke", "update"}, NEW role \in Role,
             ReadShare(a, s, op, role)
      PROVE  SharingInv'
  <2> DEFINE t == [op |-> op, at |-> "delete", share |-> s, old |-> share[s].role,
                   role |-> role]
  <2>1. t \in SharerTask /\ t.at = "delete" /\ t.share = s
    BY <1>2 DEF SharerTask
  <2>2. /\ task' = [task EXCEPT ![a] = t] /\ ~Clearing(a) /\ share[s].status # "none"
        /\ UNCHANGED <<share, tuples, invited, crossed>> /\ Unfailing
    BY <1>4 DEF ReadShare, Clearing, At, Live
  <2> HIDE DEF t
  <2>3. share'[t.share].status # "none"
    BY <2>1, <2>2
  <2> QED
    BY <1>2, <2>1, <2>2, <2>3, QuietStep DEF Live
<1>5. CASE SpendInvitation(a)
  <2>1. /\ task' = [task EXCEPT ![a] = Done] /\ ~Clearing(a) /\ invited' = "accepted"
        /\ UNCHANGED <<share, tuples, crossed>> /\ Unfailing
    BY <1>5 DEF SpendInvitation, Clearing, At, Finish
  <2> QED
    BY <1>2, <2>1, DoneTask, QuietStep DEF Live
<1>6. CASE StopSharing(a)
  <2>1. /\ task' = [task EXCEPT ![a] = Done] /\ Fault
        /\ UNCHANGED <<share, tuples, invited, crossed>>
    BY <1>6 DEF StopSharing, Finish
  <2>2. faults' # 0
    BY <2>1, FaultsAssumption DEF Fault, SharingInv, FaultsTypeOK
  <2> QED
    BY <1>2, <2>1, <2>2, DoneTask, QuietStep DEF Live
<1> QED
  BY <1>3, <1>4, <1>5, <1>6

LEMMA SharerStepInv ==
  ASSUME SharingInv, Disturb, NEW a \in Sharer, SharerStep(a) PROVE SharingInv'
<1>1. SharingTypeOK /\ NoShare \notin Share
  BY SharingAssumption DEF SharingInv
<1>2. Fresh # {} => NextShare \in Share
  BY DEF Fresh, NextShare
<1>3. \/ \E role \in Role, op \in {"create", "accept"} :
            ~Clearing(a) /\ InsertShare(a, NextShare, op, role) /\ Fresh # {}
      \/ \E role \in Role : ReadInvitation(a, role)
      \/ \E role \in Role, s \in Share, op \in {"revoke", "update"} : ReadShare(a, s, op, role)
      \/ GrantAccess(a) \/ MarkPending(a) \/ SpendInvitation(a) \/ DeleteTuple(a) \/ RevokeRow(a)
      \/ UpdateRow(a) \/ UndoDelete(a) \/ StopSharing(a)
  <2>1. "viewer" \in Role /\ task[a].role \in Role
    BY <1>1, SharingFields DEF Role
  <2> QED
    BY <2>1 DEF SharerStep, CreateShare, InsertAccepted, Clearing, At
<1>5. CASE \E role \in Role, op \in {"create", "accept"} :
             ~Clearing(a) /\ InsertShare(a, NextShare, op, role) /\ Fresh # {}
  BY <1>2, <1>5, InsertShareInv
<1> QED
  BY <1>3, <1>5, SmallStepInv, GrantAccessInv, MarkPendingInv, DeleteTupleInv, RevokeRowInv,
     UpdateRowInv, UndoDeleteInv

-----------------------------------------------------------------------------
(* The repair.                                                             *)

(* It takes no task, and leaves shares live with the roles they have.      *)
LEMMA RepairMoves ==
  ASSUME SharingInv, UNCHANGED <<task, invited>>, Fault \/ Unfailing,
         share' \in [Share -> ShareRow],
         \A s \in Share : /\ share[s].status # "none" => share'[s].status # "none"
                          /\ Live(s)' <=> Live(s)
                          /\ share'[s].role = share[s].role,
         faults' = 0 => share' = share,
         tuples' \subseteq Role, tuples \subseteq tuples', crossed' \in BOOLEAN,
         repair' \in RepairRow,
         ~crossed' => /\ ~crossed
                      /\ \A x \in tuples' \ tuples :
                            \E s \in Share : Live(s) /\ share[s].role = x /\ ~Cleared(s)
  PROVE  SharingTypeOK' /\ FaultsTypeOK' /\ TupleInv' /\ FaultlessInv'
<1>1. SharingTypeOK /\ FaultsTypeOK /\ TupleInv /\ FaultlessInv
  BY DEF SharingInv
<1>2. FaultsTypeOK' /\ (faults' = 0 => faults = 0)
  BY <1>1, FaultsKept
<1>3. SharingTypeOK'
  BY <1>1 DEF SharingTypeOK, ShareRow, RepairRow
<1>4. /\ \A s \in Share : Cleared(s)' <=> Cleared(s)
      /\ \A a \in Sharer : Clearing(a)' <=> Clearing(a)
  BY DEF Cleared, Clearing
<1>5. TupleInv'
  <2> SUFFICES ASSUME ~crossed'
               PROVE  /\ \A x \in tuples' : \E y \in Share : Live(y)' /\ share'[y].role = x /\ ~Cleared(y)'
                      /\ \A b, c \in Sharer :
                            Clearing(b)' /\ Clearing(c)' /\ task[b].share = task[c].share => b = c
                      /\ \A b \in Sharer : At(b, "grant")' =>
                            Live(task[b].share)' /\ share'[task[b].share].role = task[b].role
    BY DEF TupleInv
  <2>1. \A x \in tuples' : \E y \in Share : Live(y) /\ share[y].role = x /\ ~Cleared(y)
    BY <1>1 DEF TupleInv
  <2>2. ASSUME NEW b \in Sharer, At(b, "grant")'
        PROVE  Live(task[b].share)' /\ share'[task[b].share].role = task[b].role
    <3>1. At(b, "grant") /\ task[b].share \in Share
      BY <1>1, <2>2, OwnShare DEF At
    <3>2. Live(task[b].share) /\ share[task[b].share].role = task[b].role
      BY <1>1, <3>1 DEF TupleInv
    <3> QED
      BY <3>1, <3>2 DEF Live
  <2> QED
    BY <1>1, <1>4, <2>1, <2>2 DEF TupleInv
<1>6. FaultlessInv'
  BY <1>1, <1>2, <1>4 DEF FaultlessInv, At
<1> QED
  BY <1>2, <1>3, <1>5, <1>6

LEMMA ListSharesInv == ASSUME SharingInv, ListShares PROVE SharingInv'
<1>1. SharingTypeOK
  BY DEF SharingInv
<1>2. /\ UNCHANGED <<share, tuples, task, invited, crossed>> /\ Unfailing
      /\ repair' = [listed |-> {[share |-> s, role |-> share[s].role] : s \in {t \in Share : Live(t)}},
                    mend |-> NoShare, alone |-> \A a \in Sharer : At(a, "idle")]
  BY DEF ListShares
<1>3. share' \in [Share -> ShareRow] /\ tuples' \subseteq Role
  BY <1>1, <1>2 DEF SharingTypeOK, ShareRow
<1>4. crossed' \in BOOLEAN
  BY <1>1, <1>2 DEF SharingTypeOK
<1>5. repair' \in RepairRow
  <2>1. repair'.listed \subseteq [share : Share, role : Role]
    BY <1>1, <1>2, SharingFields
  <2>2. repair'.alone \in BOOLEAN
    BY <1>2
  <2> QED
    BY <1>2, <2>1, <2>2 DEF RepairRow
<1>6. SharingTypeOK' /\ FaultsTypeOK' /\ TupleInv' /\ FaultlessInv'
  BY <1>2, <1>3, <1>4, <1>5, RepairMoves DEF Live
<1>7. RepairInv'
  BY <1>2 DEF RepairInv, Live
<1> QED
  BY <1>6, <1>7 DEF SharingInv

LEMMA CheckShareInv ==
  ASSUME SharingInv, NEW item \in repair.listed, CheckShare(item) PROVE SharingInv'
<1>1. SharingTypeOK /\ RepairInv
  BY DEF SharingInv
<1>2. /\ repair \in RepairRow /\ item \in [share : Share, role : Role]
      /\ item.share \in Share /\ item.role \in Role
  BY <1>1, SharingFields DEF RepairRow
<1>3. UNCHANGED <<share, task, invited>>
  BY DEF CheckShare
<1>4. share' \in [Share -> ShareRow] /\ tuples \subseteq Role
  BY <1>1, <1>3 DEF SharingTypeOK, ShareRow
<1>5. crossed \in BOOLEAN
  BY <1>1 DEF SharingTypeOK
<1> DEFINE wrote == /\ tuples' = tuples \cup {item.role}
                    /\ \/ InHand(item.share) /\ crossed' = TRUE
                       \/ ~InHand(item.share) /\ AsRead(item.share, item.role)
           rest == [repair EXCEPT !.listed = @ \ {item}]
<1>6. \/ Grants(item.role) /\ repair' = rest /\ Unfailing /\ UNCHANGED <<tuples, crossed>>
      \/ wrote /\ Unfailing /\ repair' = [rest EXCEPT !.mend = item.share]
      \/ Fault /\ wrote /\ repair' = [rest EXCEPT !.mend = item.share, !.alone = FALSE]
      \/ Fault /\ wrote /\ repair' = [rest EXCEPT !.alone = FALSE]
      \/ Fault /\ UNCHANGED <<tuples, crossed>> /\ repair' = [rest EXCEPT !.alone = FALSE]
  BY DEF CheckShare, Write, Fails
<1>7. rest \in RepairRow /\ rest.listed = repair.listed \ {item} /\ rest.alone = repair.alone
  BY <1>2 DEF RepairRow
<1> HIDE DEF rest
<1>8. /\ repair' \in RepairRow
      /\ repair'.alone => repair.alone /\ repair'.listed = repair.listed \ {item}
                          /\ (Grants(item.role) \/ wrote)
  BY <1>2, <1>6, <1>7 DEF RepairRow
<1>9. tuples' \subseteq Role /\ tuples \subseteq tuples' /\ (Fault \/ Unfailing)
  BY <1>2, <1>4, <1>6
<1>10. wrote => crossed' \in BOOLEAN
  <2>1. InHand(item.share) /\ crossed' = TRUE => crossed' \in BOOLEAN
    OBVIOUS
  <2>2. AsRead(item.share, item.role) => crossed' \in BOOLEAN
    BY DEF AsRead
  <2> QED
    BY <2>1, <2>2
<1>11. crossed' \in BOOLEAN
  BY <1>5, <1>6, <1>10
<1>12. ASSUME wrote, ~crossed'
       PROVE  ~crossed /\ Live(item.share) /\ share[item.share].role = item.role
              /\ ~Cleared(item.share)
  <2>1. ~InHand(item.share) /\ AsRead(item.share, item.role)
    BY <1>12
  <2>2. ~Cleared(item.share)
    BY <2>1 DEF InHand, Cleared, Clearing
  <2> QED
    BY <1>12, <2>1, <2>2 DEF AsRead
<1>13. ~crossed' => /\ ~crossed
                    /\ \A x \in tuples' \ tuples :
                          \E s \in Share : Live(s) /\ share[s].role = x /\ ~Cleared(s)
  <2>1. CASE UNCHANGED <<tuples, crossed>>
    BY <2>1
  <2>2. CASE wrote
    BY <1>2, <1>12, <2>2
  <2> QED
    BY <1>6, <2>1, <2>2
<1> HIDE DEF wrote
<1>14. SharingTypeOK' /\ FaultsTypeOK' /\ TupleInv' /\ FaultlessInv'
  BY <1>3, <1>4, <1>8, <1>9, <1>11, <1>13, RepairMoves DEF Live
<1>15. RepairInv'
  <2> SUFFICES ASSUME repair'.alone, NEW s \in Share, Live(s)
               PROVE  \/ Grants(share[s].role)'
                      \/ [share |-> s, role |-> share[s].role] \in repair'.listed
    BY <1>3 DEF RepairInv, Live
  <2>1. Grants(share[s].role) \/ [share |-> s, role |-> share[s].role] \in repair.listed
    BY <1>1, <1>8 DEF RepairInv
  <2>2. Grants(share[s].role) => Grants(share[s].role)'
    BY <1>3, <1>9 DEF Grants
  <2>3. CASE item = [share |-> s, role |-> share[s].role]
    <3>1. item.role = share[s].role
      BY <2>3
    <3>2. wrote => Grants(share[s].role)'
      BY <1>3, <3>1 DEF wrote, Grants
    <3> QED
      BY <1>8, <2>2, <3>1, <3>2
  <2> QED
    BY <1>8, <2>1, <2>2, <2>3
<1> QED
  BY <1>14, <1>15 DEF SharingInv

LEMMA MarkSyncedInv == ASSUME SharingInv, MarkSynced PROVE SharingInv'
<1>1. SharingTypeOK /\ RepairInv /\ FaultlessInv
  BY DEF SharingInv
<1>2. repair \in RepairRow /\ repair.mend \in Share
  BY <1>1, SharingFields DEF RepairRow, MarkSynced
<1>3. /\ UNCHANGED <<tuples, task, invited, crossed>> /\ Unfailing
      /\ repair' = [repair EXCEPT !.mend = NoShare]
      /\ share' = IF share[repair.mend].status = "pending_sync" /\ Unique(repair.mend)
                  THEN [share EXCEPT ![repair.mend].status = "active"] ELSE share
  BY DEF MarkSynced
<1>4. /\ repair' \in RepairRow /\ repair'.listed = repair.listed
      /\ repair'.alone = repair.alone
  BY <1>2, <1>3 DEF RepairRow
<1>5. share \in [Share -> ShareRow] /\ tuples \subseteq Role
  BY <1>1 DEF SharingTypeOK, ShareRow
<1>6. crossed' \in BOOLEAN
  BY <1>1, <1>3 DEF SharingTypeOK
<1>7. /\ share' \in [Share -> ShareRow]
      /\ \A s \in Share : /\ share[s].status # "none" => share'[s].status # "none"
                          /\ Live(s)' <=> Live(s)
                          /\ share'[s].role = share[s].role
  <2>1. CASE share' = share
    BY <1>5, <2>1 DEF Live
  <2>2. CASE /\ share[repair.mend].status = "pending_sync"
             /\ share' = [share EXCEPT ![repair.mend].status = "active"]
    BY <1>2, <1>5, <2>2 DEF Live, ShareRow
  <2> QED
    BY <1>3, <2>1, <2>2
<1>8. faults' = 0 => share' = share
  BY <1>1, <1>2, <1>3 DEF FaultlessInv, Unfailing
<1>9. SharingTypeOK' /\ FaultsTypeOK' /\ TupleInv' /\ FaultlessInv'
  BY <1>3, <1>4, <1>5, <1>6, <1>7, <1>8, RepairMoves
<1>10. RepairInv'
  <2>1. \A s \in Share : Grants(share[s].role) => Grants(share[s].role)'
    BY <1>3, <1>7 DEF Grants
  <2> QED
    BY <1>1, <1>4, <1>7, <2>1 DEF RepairInv
<1> QED
  BY <1>9, <1>10 DEF SharingInv

LEMMA SharingStep == ASSUME SharingInv, SharingNext PROVE SharingInv'
<1>1. CASE RevokeInvitation /\ Disturb
  <2>1. SharingTypeOK
    BY DEF SharingInv
  <2>2. UNCHANGED <<share, tuples, task, crossed>> /\ Unfailing /\ invited' = "revoked"
    BY <1>1 DEF RevokeInvitation
  <2>3. repair' \in RepairRow /\ repair'.alone = FALSE
    BY <1>1, <2>1, SharingFields DEF Disturb, RepairRow
  <2>4. SharingTypeOK'
    BY <2>1, <2>2, <2>3 DEF SharingTypeOK, RepairRow
  <2>5. FaultsTypeOK' /\ RepairInv'
    BY <2>2, <2>3 DEF SharingInv, FaultsTypeOK, Unfailing, RepairInv
  <2>6. TupleInv' /\ FaultlessInv'
    BY <2>2 DEF SharingInv, TupleInv, FaultlessInv, Live, Cleared, Clearing, At, Unfailing
  <2> QED
    BY <2>4, <2>5, <2>6 DEF SharingInv
<1>2. CASE RepairStep
  BY <1>2, ListSharesInv, CheckShareInv, MarkSyncedInv DEF RepairStep
<1>3. CASE \E a \in Sharer : SharerStep(a) /\ Disturb
  BY <1>3, SharerStepInv
<1> QED
  BY <1>1, <1>2, <1>3 DEF SharingNext

LEMMA SharingImplies == SharingInv => AccessFollowsShares
<1> SUFFICES ASSUME SharingInv PROVE AccessFollowsShares
  OBVIOUS
<1>1. \A s \in Share : Cleared(s) => InHand(s)
  BY DEF Cleared, Clearing, InHand
<1>2. faults \in Nat
  BY FaultsAssumption DEF SharingInv, FaultsTypeOK
<1>3. crossed \/ \A role \in tuples : \E s \in Share : Live(s) /\ share[s].role = role
  BY DEF SharingInv, TupleInv
<1>4. \A s \in Share : share[s].status = "active" =>
         share[s].role \in tuples \/ InHand(s) \/ faults > 0 \/ crossed
  BY <1>1, <1>2 DEF SharingInv, FaultlessInv
<1>5. repair.alone /\ repair.listed = {} => \A s \in Share : Live(s) => Grants(share[s].role)
  BY DEF SharingInv, RepairInv
<1> QED
  BY <1>3, <1>4, <1>5 DEF AccessFollowsShares

LEMMA SharingStutter == SharingInv /\ UNCHANGED <<sharingVars, faults>> => SharingInv'
<1> SUFFICES ASSUME SharingInv, UNCHANGED <<sharingVars, faults>> PROVE SharingInv'
  OBVIOUS
<1>1. UNCHANGED <<share, tuples, task, invited, repair, crossed, faults>>
  BY DEF sharingVars
<1>2. SharingTypeOK' /\ FaultsTypeOK' /\ RepairInv'
  BY <1>1 DEF SharingInv, SharingTypeOK, FaultsTypeOK, RepairInv, Live, Grants
<1>3. TupleInv' /\ FaultlessInv'
  BY <1>1 DEF SharingInv, TupleInv, FaultlessInv, Live, Cleared, Clearing, At
<1> QED
  BY <1>2, <1>3 DEF SharingInv

LEMMA SharingInvariance == SharingSpec => []SharingInv
<1>1. SharingInit /\ FaultsInit => SharingInv
  BY SharingInvStart, FaultsAssumption DEF FaultsInit, FaultsTypeOK
<1> QED
  BY <1>1, SharingStep, SharingStutter, PTL DEF SharingSpec

(* The user's access follows the shares: as long as no request or repair   *)
(* has written a tuple for a share as it no longer was, a tuple belongs to *)
(* a live share with its role, and an active share has its tuple unless a  *)
(* request is about to write it or one has failed; a repair that went      *)
(* through its list undisturbed has given every live share its access.     *)
THEOREM AccessIsShared == SharingSpec => []AccessFollowsShares
  BY SharingInvariance, SharingImplies, PTL

-----------------------------------------------------------------------------
(* The folders.  They form a tree.                                         *)
Tree == \A i \in Status("live") : Present(place[i].parent) /\ place[i].parent \notin Below(i)

(* What is below a folder is closed under live children, and is the least  *)
(* such set.                                                               *)
LEMMA BelowLeast ==
  ASSUME NEW f, NEW S \in SUBSET Folder, f \in S, Closed(S) PROVE Below(f) \subseteq S
  BY DEF Below

LEMMA BelowClosed ==
  ASSUME NEW f \in Status("live")
  PROVE  f \in Below(f) /\ Closed(Below(f)) /\ Below(f) \in SUBSET Folder
  BY DEF Below, Closed, Status

LEMMA BelowNone == ASSUME NEW f, f \notin Status("live") PROVE Below(f) = {}
  BY DEF Below

(* A live folder comes to be in another, or at the root.                   *)
LEMMA TreeMove ==
  ASSUME Tree, NEW i \in Folder, NEW f \in Folder \cup {Root}, i \in Status("live"),
         Present(f), f = Root \/ f \notin Below(i),
         Status("live")' = Status("live"), place'[i].parent = f,
         \A j \in Folder \ {i} : place'[j].parent = place[j].parent
  PROVE  Tree'
<1> SUFFICES ASSUME NEW j \in Status("live")
             PROVE  Present(place[j].parent)' /\ (place[j].parent \notin Below(j))'
  BY DEF Tree
<1>1. j \in Folder /\ Root \notin Folder
  BY DriveTreeAssumption DEF Status
<1>2. Present(place[j].parent)'
  BY <1>1 DEF Tree, Present
<1>3. PICK B \in SUBSET Folder : B = Below(i)
  BY BelowClosed
<1>4. PICK C \in SUBSET Folder : C = Below(j)
  BY BelowClosed
<1>5. i \in B /\ Closed(B) /\ j \in C /\ Closed(C) /\ f \notin B
  BY <1>1, <1>3, <1>4, BelowClosed DEF Below, Status
<1>6. CASE j = i
  <2>1. Closed(B)'
    BY <1>5 DEF Closed, Status
  <2>2. (Below(i) \subseteq B)'
    BY <1>5, <2>1 DEF Below
  <2> QED
    BY <1>2, <1>5, <1>6, <2>2
<1>7. CASE j # i /\ f \notin C
  <2>1. Closed(C)'
    BY <1>5, <1>7 DEF Closed, Status
  <2>2. (Below(j) \subseteq C)'
    BY <1>5, <2>1 DEF Below
  <2> QED
    BY <1>1, <1>2, <1>4, <1>7, <2>2 DEF Tree
<1>8. CASE j # i /\ f \in C
  <2>1. Closed(B \cup C)'
    BY <1>5 DEF Closed, Status
  <2>2. (Below(j) \subseteq B \cup C)'
    BY <1>5, <2>1 DEF Below
  <2>3. place[j].parent \notin B
    <3>1. place[j].parent \in B => j \in B
      BY <1>5 DEF Closed
    <3>2. j \in B => C \subseteq B
      BY <1>4, <1>5 DEF Below
    <3> QED
      BY <1>5, <1>8, <3>1, <3>2
  <2> QED
    BY <1>1, <1>2, <1>4, <1>8, <2>2, <2>3 DEF Tree
<1> QED
  BY <1>6, <1>7, <1>8

(* A folder that was not live comes to be in a live one, or at the root.   *)
LEMMA TreeAdd ==
  ASSUME Tree, NEW i \in Folder, NEW f \in Folder \cup {Root}, i \notin Status("live"),
         Present(f), Status("live")' = Status("live") \cup {i}, place'[i].parent = f,
         \A j \in Folder \ {i} : place'[j].parent = place[j].parent
  PROVE  Tree'
<1> SUFFICES ASSUME NEW j \in Status("live") \cup {i}
             PROVE  Present(place[j].parent)' /\ (place[j].parent \notin Below(j))'
  BY DEF Tree
<1>1. j \in Folder /\ Root \notin Folder /\ i # Root /\ f # i
  BY DriveTreeAssumption DEF Status, Present
<1>2. \A g \in Status("live") : place'[g].parent = place[g].parent /\ place[g].parent # i
  BY <1>1 DEF Tree, Present, Status
<1>3. Present(place[j].parent)'
  BY <1>1, <1>2 DEF Tree, Present
<1>4. CASE j = i
  <2>1. Closed({i})'
    BY <1>1, <1>2 DEF Closed, Status
  <2>2. (Below(i) \subseteq {i})'
    BY <2>1 DEF Below
  <2> QED
    BY <1>1, <1>3, <1>4, <2>2
<1>5. CASE j # i
  <2>1. PICK C \in SUBSET Folder : C = Below(j)
    BY <1>5, BelowClosed
  <2>2. j \in C /\ Closed(C)
    BY <1>5, <2>1, BelowClosed
  <2>3. Closed(C \cup {i})'
    BY <1>2, <2>2 DEF Closed
  <2>4. (Below(j) \subseteq C \cup {i})'
    BY <2>2, <2>3 DEF Below
  <2> QED
    BY <1>1, <1>2, <1>3, <1>5, <2>1, <2>4 DEF Tree
<1> QED
  BY <1>4, <1>5

(* A folder that no live one is in ceases to be live, or none does.        *)
LEMMA TreeDrop ==
  ASSUME Tree, Status("live")' \subseteq Status("live"),
         \A j \in Status("live")' : place'[j].parent = place[j].parent,
         \A i \in Status("live") \ Status("live")' : Children(i) \cap Status("live") = {}
  PROVE  Tree'
<1> SUFFICES ASSUME NEW j \in Status("live")'
             PROVE  Present(place[j].parent)' /\ (place[j].parent \notin Below(j))'
  BY DEF Tree
<1>1. j \in Status("live") /\ j \in Folder
  BY DEF Status
<1>2. Present(place[j].parent)'
  BY <1>1 DEF Tree, Present, Children
<1>3. PICK C \in SUBSET Folder : C = Below(j)
  BY <1>1, BelowClosed
<1>4. j \in C /\ Closed(C)
  BY <1>1, <1>3, BelowClosed
<1>5. Closed(C)'
  BY <1>4 DEF Closed
<1>6. (Below(j) \subseteq C)'
  BY <1>4, <1>5 DEF Below
<1> QED
  BY <1>1, <1>2, <1>3, <1>6 DEF Tree

(* What the errand of a request may be, by its next step; and where the    *)
(* request has looked at the tree, it was as it needs.                     *)
PlaceRow == [status : {"absent", "live", "trash", "gone"}, parent : Folder \cup {Root},
             saved : Folder \cup {Root}, inherit : BOOLEAN]

ErrandRow == [op : {"none", "create", "move", "inherit", "delete", "restore", "purge"},
              at : {"idle", "check", "old", "new", "row", "undo", "rewrite", "remove"},
              item : Folder \cup {Root}, from : Folder \cup {Root}, to : Folder \cup {Root},
              on : BOOLEAN, sure : BOOLEAN]

ErrandOK(e) ==
    \/ e = NoErrand
    \/ /\ e.at # "idle" /\ e.op # "none" /\ e.item \in Folder
       /\ e.at = "new" => e.op \in {"create", "inherit", "move", "restore"}
       /\ e.at = "old" => e.op \in {"inherit", "move", "restore"}
       /\ e.at \in {"undo", "rewrite"} => e.op \in {"move", "restore"}
       /\ e.at = "remove" => e.op = "create"
       /\ e.at = "check" => e.op \in {"move", "delete"}

Looked(e) ==
    \/ e.at \in {"old", "row"}
    \/ e.at = "new" /\ e.op # "create"
    \/ e.at = "check" /\ e.op = "delete"

(* The folders that a folder inherits access from.                         *)
Heirs(i) == {f \in Folder : <<i, f>> \in parents}

(* A folder that no request has in hand inherits from its parent, and from *)
(* no other folder, as its row says.                                       *)
Agrees(i) ==
    /\ Heirs(i) \subseteq {place[i].parent}
    /\ place[i].inherit = TRUE => place[i].parent = Root \/ place[i].parent \in Heirs(i)
    /\ place[i].saved \in {Root, place[i].parent}

Settled(i) ==
    /\ Agrees(i)
    /\ place[i].status \in {"absent", "live"} => place[i].saved = Root
    /\ place[i].status = "absent" => place[i].parent = Root

(* And so it does when its one request has written no tuple yet; then what *)
(* it inherits from is what the request has got to.                        *)
Created(i, e) ==
    /\ e.op = "create"
    /\ \/ e.at = "row" /\ place[i].status = "absent" /\ Settled(i)
       \/ /\ e.at = "new" /\ place[i].status = "live" /\ place[i].parent = e.to
          /\ Heirs(i) = {} /\ place[i].saved = Root

Removed(i, e) ==
    \/ e.op = "purge" /\ e.at = "row" /\ place[i].status = "trash" /\ Settled(i)
    \/ e.op = "delete" /\ e.at \in {"check", "row"} /\ place[i].status = "live" /\ Agrees(i)

Flagged(i, e) ==
    /\ e.op = "inherit" /\ place[i].status = "live" /\ place[i].saved = Root
    /\ e.from = place[i].parent /\ e.to = place[i].parent /\ place[i].parent # Root
    /\ \/ e.at = "old" /\ e.on = FALSE /\ Settled(i)
       \/ e.at = "new" /\ e.on = TRUE /\ Settled(i)
       \/ /\ e.at = "row" /\ Heirs(i) \subseteq {place[i].parent}
          /\ e.on = TRUE => place[i].parent \in Heirs(i)

Moved(i, e) ==
    /\ \/ e.op = "move" /\ place[i].status = "live" /\ place[i].saved = Root
       \/ e.op = "restore" /\ place[i].status = "trash"
    /\ place[i].saved \in {Root, place[i].parent}
    /\ e.from = place[i].parent
    /\ \/ e.at = "check" /\ e.op = "move" /\ Settled(i)
       \/ e.at = "old" /\ Settled(i)
       \/ e.at = "new" /\ Heirs(i) = {}
       \/ e.at = "row" /\ Heirs(i) = {e.to} \ {Root}
       \/ e.at = "row" /\ e.op = "restore" /\ e.to = e.from /\ Settled(i)
       \/ e.at = "undo" /\ Heirs(i) \subseteq {e.to, e.from}
       \/ e.at = "rewrite" /\ Heirs(i) \subseteq {e.from}

WorkedOn(i, e) == Created(i, e) \/ Removed(i, e) \/ Flagged(i, e) \/ Moved(i, e)

FolderInv(i) ==
    /\ \A m, n \in Mover : errand[m].item = i /\ errand[n].item = i => m = n
    /\ (\A m \in Mover : errand[m].item # i) => Settled(i)
    /\ \A m \in Mover : errand[m].item = i => WorkedOn(i, errand[m])

OrderlyInv ==
    /\ Tree
    /\ \A m \in Mover : Looked(errand[m]) => errand[m].sure = TRUE
    /\ \A i \in Folder \ clashed : FolderInv(i)

TreeInv ==
    /\ TreeTypeOK /\ FaultsTypeOK
    /\ \A m \in Mover : ErrandOK(errand[m])
    /\ ~raced => OrderlyInv

LEMMA TreeFields ==
  ASSUME TreeInv
  PROVE  /\ place \in [Folder -> PlaceRow] /\ parents \subseteq Folder \X Folder
         /\ errand \in [Mover -> ErrandRow]
         /\ \A i \in Folder : /\ place[i] \in PlaceRow
                              /\ place[i].status \in {"absent", "live", "trash", "gone"}
                              /\ place[i].parent \in Folder \cup {Root}
                              /\ place[i].saved \in Folder \cup {Root}
                              /\ place[i].inherit \in BOOLEAN
         /\ \A m \in Mover : errand[m] \in ErrandRow /\ ErrandOK(errand[m])
         /\ Root \notin Folder
  BY DriveTreeAssumption DEF TreeInv, TreeTypeOK, PlaceRow, ErrandRow

LEMMA NoErrandRow == NoErrand \in ErrandRow /\ ErrandOK(NoErrand) /\ ~Looked(NoErrand)
                     /\ NoErrand.at = "idle" /\ NoErrand.item = Root
  BY DEF NoErrand, ErrandRow, ErrandOK, Looked

LEMMA TreeInvStart == TreeInit /\ FaultsTypeOK => TreeInv
<1> SUFFICES ASSUME TreeInit, FaultsTypeOK PROVE TreeInv
  OBVIOUS
<1> DEFINE first == [status |-> "absent", parent |-> Root, saved |-> Root, inherit |-> TRUE]
<1>1. first \in PlaceRow /\ first.status = "absent" /\ first.parent = Root /\ first.saved = Root
  BY DEF PlaceRow
<1>2. place = [i \in Folder |-> first] /\ errand = [m \in Mover |-> NoErrand] /\ parents = {}
  BY DEF TreeInit
<1> HIDE DEF first
<1>3. /\ place \in [Folder -> PlaceRow] /\ \A i \in Folder : place[i].status = "absent"
      /\ errand \in [Mover -> ErrandRow]
  BY <1>1, <1>2, NoErrandRow
<1>4. TreeTypeOK
  <2>1. raced \in BOOLEAN
    BY DEF TreeInit
  <2> QED
    BY <1>2, <1>3, <2>1 DEF TreeInit, TreeTypeOK, PlaceRow, ErrandRow
<1>5. \A m \in Mover : errand[m] = NoErrand
  BY <1>2
<1>6. Status("live") = {}
  BY <1>3 DEF Status
<1>7. \A i \in Folder : FolderInv(i)
  <2> TAKE i \in Folder
  <2>1. Heirs(i) = {}
    BY <1>2 DEF Heirs
  <2>2. Settled(i)
    BY <1>1, <1>2, <2>1 DEF Settled, Agrees
  <2>3. \A m \in Mover : errand[m].item # i
    BY <1>5, NoErrandRow, DriveTreeAssumption
  <2> QED
    BY <2>2, <2>3 DEF FolderInv
<1> QED
  BY <1>4, <1>5, <1>6, <1>7, NoErrandRow DEF TreeInv, OrderlyInv, Tree

(* What the two histories leave when they have nothing to record.          *)
LEMMA Recorded ==
  ASSUME TreeInv, NEW m \in Mover, Record(m)
  PROVE  /\ raced' \in BOOLEAN /\ clashed' \subseteq Folder /\ clashed \subseteq clashed'
         /\ ~raced' => /\ ~raced
                       /\ AtStep(m, "row") /\ errand[m].sure = TRUE =>
                             Sound(errand[m].op, errand[m].item, errand[m].to)
                       /\ AtStep(m, "remove") => Sound("remove", errand[m].item, errand[m].to)
         /\ \A i \in Folder \ clashed' :
               /\ errand[m].item = i => ~Spoilt(m)
               /\ \A n, o \in Mover : errand'[n].item = i /\ errand'[o].item = i => n = o
<1>1. raced' \in BOOLEAN
  BY DEF Record
<1>2. ~raced' => /\ ~raced
                 /\ AtStep(m, "row") /\ errand[m].sure = TRUE =>
                       Sound(errand[m].op, errand[m].item, errand[m].to)
                 /\ AtStep(m, "remove") => Sound("remove", errand[m].item, errand[m].to)
  BY DEF Record, AtStep
<1>3. clashed' = clashed \cup
         {i \in Folder : (\E n, o \in InHandOf(i)' : n # o) \/ (errand[m].item = i /\ Spoilt(m))}
  BY DEF Record
<1>4. clashed \subseteq Folder
  BY DEF TreeInv, TreeTypeOK
<1>5. \A i \in Folder \ clashed' :
         /\ errand[m].item = i => ~Spoilt(m)
         /\ \A n, o \in InHandOf(i)' : n = o
  BY <1>3
<1>6. \A i \in Folder : InHandOf(i)' = {n \in Mover : errand'[n].item = i}
  BY DEF InHandOf
<1> QED
  BY <1>1, <1>2, <1>3, <1>4, <1>5, <1>6

(* What is known of the folder that a request works on, or begins to, when *)
(* the step is not recorded.                                               *)
LEMMA Before ==
  ASSUME TreeInv, NEW m \in Mover, Record(m), ~raced'
  PROVE  /\ Tree
         /\ Looked(errand[m]) => errand[m].sure = TRUE
         /\ AtStep(m, "row") => Sound(errand[m].op, errand[m].item, errand[m].to)
         /\ AtStep(m, "remove") => Sound("remove", errand[m].item, errand[m].to)
         /\ \A i \in Folder \ clashed' :
               /\ errand[m].item = i => WorkedOn(i, errand[m]) /\ ~Spoilt(m)
               /\ AtStep(m, "idle") /\ errand'[m].item = i
                     /\ (\A n \in Mover : n # m => errand'[n] = errand[n]) => Settled(i)
<1>1. OrderlyInv
  BY Recorded DEF TreeInv
<1>2. Looked(errand[m]) => errand[m].sure = TRUE
  BY <1>1 DEF OrderlyInv
<1>3. AtStep(m, "row") => Sound(errand[m].op, errand[m].item, errand[m].to)
  BY <1>2, Recorded DEF Looked, AtStep
<1>4. ASSUME NEW i \in Folder \ clashed'
      PROVE  /\ errand[m].item = i => WorkedOn(i, errand[m]) /\ ~Spoilt(m)
             /\ AtStep(m, "idle") /\ errand'[m].item = i
                   /\ (\A n \in Mover : n # m => errand'[n] = errand[n]) => Settled(i)
  <2>1. FolderInv(i)
    BY <1>1, Recorded DEF OrderlyInv
  <2>2. errand[m].item = i => WorkedOn(i, errand[m]) /\ ~Spoilt(m)
    BY <2>1, Recorded DEF FolderInv
  <2>3. ASSUME AtStep(m, "idle"), errand'[m].item = i, \A n \in Mover : n # m => errand'[n] = errand[n]
        PROVE  Settled(i)
    <3>1. errand[m].item # i
      BY <2>3, TreeFields, NoErrandRow DEF ErrandOK, AtStep
    <3>2. \A n \in Mover : errand[n].item # i
      BY <2>3, <3>1, Recorded
    <3> QED
      BY <2>1, <3>2 DEF FolderInv
  <2> QED
    BY <2>2, <2>3
<1> QED
  BY <1>1, <1>2, <1>3, <1>4, Recorded DEF OrderlyInv

(* A step of one request on one folder.                                    *)
LEMMA ErrandStep ==
  ASSUME TreeInv, NEW m \in Mover, Record(m), Fault \/ Unfailing,
         NEW e \in ErrandRow, ErrandOK(e), errand' = [errand EXCEPT ![m] = e],
         NEW i \in Folder, {errand[m].item, e.item} \subseteq {i, Root},
         errand[m].item = i \/ e.item = i,
         place' \in [Folder -> PlaceRow],
         \A f, g \in Folder : place'[f].status = "gone" => place'[g].parent # f,
         parents' \subseteq Folder \X Folder,
         \A j \in Folder \ {i} : Heirs(j)' = Heirs(j),
         ~raced' => Tree',
         ~raced' /\ Looked(e) => e.sure = TRUE,
         ~raced' => \A j \in Folder \ {i} :
            /\ place'[j].status = place[j].status /\ place'[j].parent = place[j].parent
            /\ place'[j].inherit = place[j].inherit
            /\ place'[j].saved \in {Root, place[j].saved},
         ~raced' /\ i \notin clashed' /\ e.item = i => WorkedOn(i, e)',
         ~raced' /\ i \notin clashed' /\ e.item # i => Settled(i)'
  PROVE  TreeInv'
<1>1. /\ errand' \in [Mover -> ErrandRow] /\ errand'[m] = e
      /\ \A n \in Mover : n # m => errand'[n] = errand[n]
  BY TreeFields
<1>2. TreeTypeOK'
  BY <1>1, Recorded DEF TreeTypeOK, PlaceRow, ErrandRow
<1>3. FaultsTypeOK'
  BY FaultsKept DEF TreeInv
<1>4. \A n \in Mover : ErrandOK(errand'[n])
  BY <1>1, TreeFields
<1>5. ASSUME ~raced' PROVE OrderlyInv'
  <2>1. OrderlyInv
    BY <1>5, Recorded DEF TreeInv
  <2>2. \A n \in Mover : Looked(errand'[n]) => errand'[n].sure = TRUE
    BY <1>1, <1>5, <2>1 DEF OrderlyInv
  <2>3. ASSUME NEW j \in Folder \ clashed' PROVE FolderInv(j)'
    <3>1. FolderInv(j) /\ j \in Folder /\ j # Root
      BY <2>1, <2>3, Recorded, DriveTreeAssumption DEF OrderlyInv
    <3>2. \A n, o \in Mover : errand'[n].item = j /\ errand'[o].item = j => n = o
      BY <2>3, Recorded
    <3>3. CASE j = i
      <4>1. CASE e.item = i
        <5>1. WorkedOn(i, e)'
          BY <1>5, <2>3, <3>3, <4>1
        <5>2. \A n \in Mover : errand'[n].item = i => n = m
          BY <1>1, <3>2, <3>3, <4>1
        <5> QED
          BY <1>1, <3>2, <3>3, <4>1, <5>1, <5>2 DEF FolderInv
      <4>2. CASE e.item # i
        <5>1. Settled(i)'
          BY <1>5, <2>3, <3>3, <4>2
        <5>2. \A n \in Mover : errand'[n].item # i
          BY <1>1, <3>1, <3>3, <4>2 DEF FolderInv
        <5> QED
          BY <3>2, <3>3, <5>1, <5>2 DEF FolderInv
      <4> QED
        BY <4>1, <4>2
    <3>4. CASE j # i
      <4>1. /\ place'[j].status = place[j].status /\ place'[j].parent = place[j].parent
            /\ place'[j].inherit = place[j].inherit
            /\ place'[j].saved \in {Root, place[j].saved} /\ Heirs(j)' = Heirs(j)
        BY <1>5, <3>1, <3>4
      <4>2. Settled(j) => Settled(j)'
        BY <4>1 DEF Settled, Agrees
      <4>3. ASSUME NEW d \in ErrandRow, WorkedOn(j, d) PROVE WorkedOn(j, d)'
        <5>1. Created(j, d) => Created(j, d)'
          BY <4>1, <4>2 DEF Created
        <5>2. Removed(j, d) => Removed(j, d)'
          BY <4>1, <4>2 DEF Removed, Agrees
        <5>3. Flagged(j, d) => Flagged(j, d)'
          BY <4>1, <4>2 DEF Flagged
        <5>4. Moved(j, d) => Moved(j, d)'
          BY <4>1, <4>2 DEF Moved
        <5> QED
          BY <4>3, <5>1, <5>2, <5>3, <5>4 DEF WorkedOn
      <4>4. \A n \in Mover : errand'[n].item = j <=> errand[n].item = j
        BY <1>1, <3>1, <3>4
      <4>5. \A n \in Mover : errand[n].item = j => errand'[n] = errand[n] /\ errand[n] \in ErrandRow
        BY <1>1, <3>1, <3>4, TreeFields
      <4>6. ASSUME NEW n \in Mover, errand'[n].item = j PROVE WorkedOn(j, errand[n])'
        <5>1. PICK d \in ErrandRow : d = errand[n] /\ d = errand'[n]
          BY <4>4, <4>5, <4>6
        <5>2. WorkedOn(j, d)
          BY <3>1, <4>4, <4>6, <5>1 DEF FolderInv
        <5>3. WorkedOn(j, d)'
          BY <4>3, <5>2
        <5> QED
          BY <5>1, <5>3 DEF WorkedOn, Created, Removed, Flagged, Moved
      <4> QED
        BY <3>1, <3>2, <4>2, <4>4, <4>6 DEF FolderInv
    <3> QED
      BY <3>3, <3>4
  <2> QED
    BY <1>5, <2>2, <2>3 DEF OrderlyInv
<1> QED
  BY <1>2, <1>3, <1>4, <1>5 DEF TreeInv

-----------------------------------------------------------------------------
(* The tuples of a folder, and what a request that moves on is at.         *)

LEMMA HeirsOf ==
  ASSUME Root \notin Folder, parents \subseteq Folder \X Folder, NEW i \in Folder,
         NEW f \in Folder \cup {Root},
         parents' = parents \/ parents' = parents \cup Tuple(i, f) \/ parents' = parents \ Tuple(i, f)
  PROVE  /\ parents' \subseteq Folder \X Folder
         /\ \A j \in Folder \ {i} : Heirs(j)' = Heirs(j)
         /\ parents' = parents => Heirs(i)' = Heirs(i)
         /\ parents' = parents \cup Tuple(i, f) => Heirs(i)' = Heirs(i) \cup ({f} \ {Root})
         /\ parents' = parents \ Tuple(i, f) => Heirs(i)' = Heirs(i) \ {f}
         /\ Tuple(i, f) \subseteq parents <=> f = Root \/ f \in Heirs(i)
<1>1. parents' \subseteq Folder \X Folder
  BY DEF Tuple
<1>2. \A j \in Folder \ {i} : Heirs(j)' = Heirs(j)
  BY DEF Heirs, Tuple
<1>3. parents' = parents => Heirs(i)' = Heirs(i)
  BY DEF Heirs
<1>4. parents' = parents \cup Tuple(i, f) => Heirs(i)' = Heirs(i) \cup ({f} \ {Root})
  BY DEF Heirs, Tuple
<1>5. parents' = parents \ Tuple(i, f) => Heirs(i)' = Heirs(i) \ {f}
  BY DEF Heirs, Tuple
<1>6. Tuple(i, f) \subseteq parents <=> f = Root \/ f \in Heirs(i)
  BY DEF Heirs, Tuple
<1> QED
  BY <1>1, <1>2, <1>3, <1>4, <1>5, <1>6

LEMMA Proceeds ==
  ASSUME TreeInv, NEW m \in Mover,
         NEW s \in {"check", "old", "new", "row", "undo", "rewrite", "remove"}, Proceed(m, s)
  PROVE  \E e \in ErrandRow :
            /\ errand' = [errand EXCEPT ![m] = e]
            /\ e.at = s /\ e.op = errand[m].op /\ e.item = errand[m].item
            /\ e.from = errand[m].from /\ e.to = errand[m].to /\ e.on = errand[m].on
            /\ e.sure = errand[m].sure
<1> DEFINE e == [errand[m] EXCEPT !.at = s]
<1>1. errand[m] \in ErrandRow
  BY TreeFields
<1>2. e \in ErrandRow
  BY <1>1 DEF ErrandRow
<1>3. /\ e.at = s /\ e.op = errand[m].op /\ e.item = errand[m].item
      /\ e.from = errand[m].from /\ e.to = errand[m].to /\ e.on = errand[m].on
      /\ e.sure = errand[m].sure
  BY <1>1 DEF ErrandRow
<1>4. errand' = [errand EXCEPT ![m] = e]
  BY DEF Proceed
<1> QED
  BY <1>2, <1>3, <1>4

(* Rows and tuples that stay as they are.                                  *)
LEMMA SamePlace ==
  ASSUME UNCHANGED place
  PROVE  /\ Tree' <=> Tree
         /\ parents' = parents => \A i \in Folder : /\ Settled(i)' <=> Settled(i)
                                                    /\ Heirs(i)' = Heirs(i)
<1>1. Tree' <=> Tree
  BY DEF Tree, Present, Below, Closed, Status
<1>2. parents' = parents => \A i \in Folder : /\ Settled(i)' <=> Settled(i)
                                              /\ Heirs(i)' = Heirs(i)
  BY DEF Settled, Agrees, Heirs
<1> QED
  BY <1>1, <1>2

LEMMA SoundIs ==
  ASSUME NEW i, NEW f, NEW op \in {"create", "move", "inherit", "restore"}
  PROVE  /\ Sound("purge", i, f) <=> Children(i) = {}
         /\ Sound("delete", i, f) <=> Children(i) \cap Status("live") = {}
         /\ Sound("remove", i, f) <=> Children(i) \cap Status("live") = {}
         /\ Sound(op, i, f) <=> Present(f) /\ (f = Root \/ f \notin Below(i))
  BY DEF Sound

LEMMA SoundBoolean ==
  ASSUME NEW i, NEW f, NEW op \in {"create", "move", "inherit", "restore", "delete", "purge"}
  PROVE  Sound(op, i, f) \in BOOLEAN
<1>1. (Present(f) /\ (f = Root \/ f \notin Below(i))) \in BOOLEAN
  OBVIOUS
<1> QED
  BY <1>1 DEF Sound

(* A request is begun.                                                     *)
LEMMA BeginStep ==
  ASSUME TreeInv, NEW m \in Mover, Record(m), Unfailing, UNCHANGED <<place, parents>>,
         AtStep(m, "idle"), NEW i \in Folder, NEW e \in ErrandRow,
         errand' = [errand EXCEPT ![m] = e], e.item = i,
         e.op \in {"create", "move", "inherit", "restore", "delete", "purge"},
         e.at \in {"check", "old", "new", "row"},
         e.at = "new" => e.op = "inherit",
         e.at = "old" => e.op \in {"inherit", "restore"},
         e.at = "check" => e.op \in {"move", "delete"},
         ~raced /\ Tree => (e.op = "move" /\ e.at = "check") \/ e.sure = TRUE,
         Settled(i) => WorkedOn(i, e)
  PROVE  TreeInv'
<1>1. ErrandOK(e)
  BY DEF ErrandOK
<1>2. /\ place \in [Folder -> PlaceRow] /\ parents \subseteq Folder \X Folder
      /\ \A x, y \in Folder : place[x].status = "gone" => place[y].parent # x
      /\ errand \in [Mover -> ErrandRow]
  BY TreeFields DEF TreeInv, TreeTypeOK
<1>3. errand[m].item = Root
  <2>1. errand[m].at = "idle"
    BY DEF AtStep
  <2>2. errand[m] = NoErrand
    BY <2>1, TreeFields DEF ErrandOK
  <2> QED
    BY <2>2, NoErrandRow
<1>4. errand'[m] = e /\ \A n \in Mover : n # m => errand'[n] = errand[n]
  BY <1>1, <1>2
<1>5. errand'[m].item = i
  BY <1>1, <1>4
<1>6. ASSUME ~raced'
      PROVE  /\ Tree'
             /\ Looked(e) => e.sure = TRUE
             /\ i \notin clashed' => WorkedOn(i, e)'
  <2>1. Tree /\ ~raced
    BY <1>6, Before, Recorded
  <2>2. Looked(e) => e.sure = TRUE
    BY <1>1, <2>1 DEF Looked
  <2>3. i \notin clashed' => Settled(i)
    BY <1>6, <1>4, <1>5, Before
  <2>4. i \notin clashed' => WorkedOn(i, e)
    BY <1>1, <2>3
  <2>5. WorkedOn(i, e) => WorkedOn(i, e)'
    BY SamePlace DEF WorkedOn, Created, Removed, Flagged, Moved, Agrees
  <2> QED
    BY <2>1, <2>2, <2>4, <2>5, SamePlace
<1>7. \A j \in Folder \ {i} : Heirs(j)' = Heirs(j)
  BY DEF Heirs
<1>8. /\ {errand[m].item, e.item} \subseteq {i, Root} /\ e.item = i
      /\ place' \in [Folder -> PlaceRow] /\ parents' \subseteq Folder \X Folder
      /\ \A x, y \in Folder : place'[x].status = "gone" => place'[y].parent # x
  BY <1>1, <1>2, <1>3
<1>9. /\ ~raced' => Tree'
      /\ ~raced' /\ Looked(e) => e.sure = TRUE
      /\ ~raced' /\ i \notin clashed' /\ e.item = i => WorkedOn(i, e)'
  BY <1>6
<1>10. ~raced' => \A j \in Folder \ {i} :
          /\ place'[j].status = place[j].status /\ place'[j].parent = place[j].parent
          /\ place'[j].inherit = place[j].inherit
          /\ place'[j].saved \in {Root, place[j].saved}
  OBVIOUS
<1>11. errand[m].item = i \/ e.item = i
  BY <1>8
<1>12. ~raced' /\ i \notin clashed' /\ e.item # i => Settled(i)'
  BY <1>8
<1>13. Fault \/ Unfailing
  OBVIOUS
<1> QED
  BY <1>1, <1>7, <1>8, <1>9, <1>10, <1>11, <1>12, <1>13, ErrandStep
LEMMA WorkedOnIs ==
  ASSUME NEW i \in Folder, NEW e
  PROVE  Created(i, e) \/ Removed(i, e) \/ Flagged(i, e) \/ Moved(i, e) => WorkedOn(i, e)
  BY DEF WorkedOn

LEMMA StartCreateStep ==
  ASSUME TreeInv, NEW m \in Mover, Record(m), NEW i \in Folder, NEW f \in Folder \cup {Root},
         StartCreate(m, i, f)
  PROVE  TreeInv'
<1>1. /\ AtStep(m, "idle") /\ Begin(m, "create", i, Root, f, FALSE, "row")
      /\ UNCHANGED <<place, parents>> /\ Unfailing /\ place[i].status = "absent" /\ Present(f)
  BY DEF StartCreate
<1>2. Sound("create", i, f)
  <2>1. Below(i) = {}
    BY <1>1, BelowNone DEF Status
  <2> QED
    BY <1>1, <2>1, SoundIs
<1>3. PICK e \in ErrandRow :
         /\ errand' = [errand EXCEPT ![m] = e]
         /\ e.op = "create" /\ e.at = "row" /\ e.item = i /\ e.from = Root /\ e.to = f
         /\ Sound("create", i, f) => e.sure = TRUE
  <2> DEFINE d == [op |-> "create", at |-> "row", item |-> i, from |-> Root, to |-> f, on |-> FALSE,
                   sure |-> Sound("create", i, f)]
  <2>1. d \in ErrandRow
    BY SoundBoolean DEF ErrandRow
  <2>2. errand' = [errand EXCEPT ![m] = d]
    BY <1>1 DEF Begin
  <2>3. /\ d.op = "create" /\ d.at = "row" /\ d.item = i /\ d.from = Root /\ d.to = f
        /\ Sound("create", i, f) => d.sure = TRUE
    BY SoundBoolean
  <2> HIDE DEF d
  <2> QED
    BY <2>1, <2>2, <2>3
<1>4. Settled(i) => WorkedOn(i, e)
  BY <1>1, <1>3, WorkedOnIs DEF Created
<1> QED
  BY <1>1, <1>2, <1>3, <1>4, BeginStep

LEMMA StartMoveStep ==
  ASSUME TreeInv, NEW m \in Mover, Record(m), NEW i \in Folder, NEW f \in Folder \cup {Root},
         StartMove(m, i, f)
  PROVE  TreeInv'
<1>1. /\ AtStep(m, "idle") /\ Begin(m, "move", i, place[i].parent, f, FALSE, "check")
      /\ UNCHANGED <<place, parents>> /\ Unfailing /\ place[i].status = "live"
  BY DEF StartMove, Status
<1>2. PICK p \in Folder \cup {Root} : p = place[i].parent
  BY TreeFields
<1>3. Begin(m, "move", i, p, f, FALSE, "check")
  BY <1>1, <1>2
<1>4. PICK e \in ErrandRow :
         /\ errand' = [errand EXCEPT ![m] = e]
         /\ e.op = "move" /\ e.at = "check" /\ e.item = i /\ e.from = p /\ e.to = f
         /\ Sound("move", i, f) => e.sure = TRUE
  <2> DEFINE d == [op |-> "move", at |-> "check", item |-> i, from |-> p, to |-> f, on |-> FALSE,
                   sure |-> Sound("move", i, f)]
  <2>1. d \in ErrandRow
    BY SoundBoolean DEF ErrandRow
  <2>2. errand' = [errand EXCEPT ![m] = d]
    BY <1>3 DEF Begin
  <2>3. /\ d.op = "move" /\ d.at = "check" /\ d.item = i /\ d.from = p /\ d.to = f
        /\ Sound("move", i, f) => d.sure = TRUE
    BY SoundBoolean
  <2> HIDE DEF d
  <2> QED
    BY <2>1, <2>2, <2>3
<1>5. Settled(i) => WorkedOn(i, e)
  BY <1>1, <1>2, <1>4, WorkedOnIs DEF Moved, Settled
<1> QED
  BY <1>1, <1>4, <1>5, BeginStep

LEMMA StartInheritStep ==
  ASSUME TreeInv, NEW m \in Mover, Record(m), NEW i \in Folder, NEW on \in BOOLEAN,
         StartInherit(m, i, on)
  PROVE  TreeInv'
<1> DEFINE step == IF on THEN "new" ELSE "old"
<1>1. /\ AtStep(m, "idle")
      /\ Begin(m, "inherit", i, place[i].parent, place[i].parent, on, step)
      /\ UNCHANGED <<place, parents>> /\ Unfailing /\ place[i].status = "live" /\ i \in Status("live")
      /\ place[i].parent # Root /\ Present(place[i].parent)
  BY DEF StartInherit, Status
<1>2. PICK p \in Folder \cup {Root} : p = place[i].parent
  BY TreeFields
<1>3. step \in {"check", "old", "new", "row"} /\ step \in {"new", "old"}
      /\ (step = "new" => on = TRUE) /\ (step = "old" => on = FALSE)
  OBVIOUS
<1> HIDE DEF step
<1>4. Begin(m, "inherit", i, p, p, on, step)
  BY <1>1, <1>2
<1>5. PICK e \in ErrandRow :
         /\ errand' = [errand EXCEPT ![m] = e]
         /\ e.op = "inherit" /\ e.at = step /\ e.item = i /\ e.from = p /\ e.to = p
         /\ Sound("inherit", i, p) => e.sure = TRUE
         /\ (on = TRUE => e.on = TRUE) /\ (on = FALSE => e.on = FALSE)
  <2> DEFINE d == [op |-> "inherit", at |-> step, item |-> i, from |-> p, to |-> p, on |-> on,
                   sure |-> Sound("inherit", i, p)]
  <2>1. d \in ErrandRow
    BY <1>3, SoundBoolean DEF ErrandRow
  <2>2. errand' = [errand EXCEPT ![m] = d]
    BY <1>4 DEF Begin
  <2>3. /\ d.op = "inherit" /\ d.at = step /\ d.item = i /\ d.from = p /\ d.to = p
        /\ Sound("inherit", i, p) => d.sure = TRUE
        /\ (on = TRUE => d.on = TRUE) /\ (on = FALSE => d.on = FALSE)
    BY SoundBoolean
  <2> HIDE DEF d
  <2> QED
    BY <2>1, <2>2, <2>3
<1>6. Settled(i) => WorkedOn(i, e)
  BY <1>1, <1>2, <1>3, <1>5, WorkedOnIs DEF Flagged, Settled
<1>7. Tree => e.sure = TRUE
  BY <1>1, <1>2, <1>5, SoundIs DEF Tree
<1> QED
  BY <1>1, <1>3, <1>5, <1>6, <1>7, BeginStep

LEMMA StartDeleteStep ==
  ASSUME TreeInv, NEW m \in Mover, Record(m), NEW i \in Folder, StartDelete(m, i)
  PROVE  TreeInv'
<1>1. /\ AtStep(m, "idle") /\ Begin(m, "delete", i, Root, Root, FALSE, "check")
      /\ UNCHANGED <<place, parents>> /\ Unfailing /\ place[i].status = "live"
      /\ Children(i) \cap Status("live") = {}
  BY DEF StartDelete, Status
<1>2. PICK e \in ErrandRow :
         /\ errand' = [errand EXCEPT ![m] = e]
         /\ e.op = "delete" /\ e.at = "check" /\ e.item = i /\ e.from = Root /\ e.to = Root
         /\ Sound("delete", i, Root) => e.sure = TRUE
  <2> DEFINE d == [op |-> "delete", at |-> "check", item |-> i, from |-> Root, to |-> Root, on |-> FALSE,
                   sure |-> Sound("delete", i, Root)]
  <2>1. d \in ErrandRow
    BY SoundBoolean DEF ErrandRow
  <2>2. errand' = [errand EXCEPT ![m] = d]
    BY <1>1 DEF Begin
  <2>3. /\ d.op = "delete" /\ d.at = "check" /\ d.item = i /\ d.from = Root /\ d.to = Root
        /\ Sound("delete", i, Root) => d.sure = TRUE
    BY SoundBoolean
  <2> HIDE DEF d
  <2> QED
    BY <2>1, <2>2, <2>3
<1>3. Settled(i) => WorkedOn(i, e)
  BY <1>1, <1>2, WorkedOnIs DEF Removed, Settled
<1>4. Sound("delete", i, Root)
  BY <1>1, SoundIs
<1> QED
  BY <1>1, <1>2, <1>3, <1>4, BeginStep

LEMMA StartPurgeStep ==
  ASSUME TreeInv, NEW m \in Mover, Record(m), NEW i \in Folder, StartPurge(m, i)
  PROVE  TreeInv'
<1>1. /\ AtStep(m, "idle") /\ Begin(m, "purge", i, Root, Root, FALSE, "row")
      /\ UNCHANGED <<place, parents>> /\ Unfailing /\ place[i].status = "trash"
      /\ Children(i) = {}
  BY DEF StartPurge, Status
<1>2. PICK e \in ErrandRow :
         /\ errand' = [errand EXCEPT ![m] = e]
         /\ e.op = "purge" /\ e.at = "row" /\ e.item = i /\ e.from = Root /\ e.to = Root
         /\ Sound("purge", i, Root) => e.sure = TRUE
  <2> DEFINE d == [op |-> "purge", at |-> "row", item |-> i, from |-> Root, to |-> Root, on |-> FALSE,
                   sure |-> Sound("purge", i, Root)]
  <2>1. d \in ErrandRow
    BY SoundBoolean DEF ErrandRow
  <2>2. errand' = [errand EXCEPT ![m] = d]
    BY <1>1 DEF Begin
  <2>3. /\ d.op = "purge" /\ d.at = "row" /\ d.item = i /\ d.from = Root /\ d.to = Root
        /\ Sound("purge", i, Root) => d.sure = TRUE
    BY SoundBoolean
  <2> HIDE DEF d
  <2> QED
    BY <2>1, <2>2, <2>3
<1>3. Settled(i) => WorkedOn(i, e)
  BY <1>1, <1>2, WorkedOnIs DEF Removed
<1>4. Sound("purge", i, Root)
  BY <1>1, SoundIs
<1> QED
  BY <1>1, <1>2, <1>3, <1>4, BeginStep

LEMMA StartRestoreStep ==
  ASSUME TreeInv, NEW m \in Mover, Record(m), NEW i \in Folder, NEW f \in Folder \cup {Root},
         NEW chosen \in BOOLEAN, StartRestore(m, i, f, chosen)
  PROVE  TreeInv'
<1> DEFINE previous == IF place[i].parent = Root THEN place[i].saved ELSE place[i].parent
           target == IF chosen THEN f ELSE IF Present(previous) THEN previous ELSE Root
<1>1. /\ AtStep(m, "idle")
      /\ Begin(m, "restore", i, previous, target, FALSE, IF previous = target THEN "row" ELSE "old")
      /\ UNCHANGED <<place, parents>> /\ Unfailing /\ place[i].status = "trash"
      /\ chosen => Present(f)
  BY DEF StartRestore, Status
<1>2. previous \in Folder \cup {Root} /\ target \in Folder \cup {Root} /\ Present(target)
  BY <1>1, TreeFields DEF Present
<1>3. PICK p \in Folder \cup {Root}, t \in Folder \cup {Root} : p = previous /\ t = target
  BY <1>2
<1>4. Settled(i) => p = place[i].parent
  BY <1>3 DEF Settled, Agrees
<1>5. PICK step \in {"row", "old"} : step = IF previous = target THEN "row" ELSE "old"
  OBVIOUS
<1>6. step = "row" => p = t
  BY <1>3, <1>5
<1>7. Begin(m, "restore", i, p, t, FALSE, step)
  BY <1>1, <1>3, <1>5
<1>8. PICK e \in ErrandRow :
         /\ errand' = [errand EXCEPT ![m] = e]
         /\ e.op = "restore" /\ e.at = step /\ e.item = i /\ e.from = p /\ e.to = t
         /\ Sound("restore", i, t) => e.sure = TRUE
  <2> DEFINE d == [op |-> "restore", at |-> step, item |-> i, from |-> p, to |-> t, on |-> FALSE,
                   sure |-> Sound("restore", i, t)]
  <2>1. d \in ErrandRow
    BY SoundBoolean DEF ErrandRow
  <2>2. errand' = [errand EXCEPT ![m] = d]
    BY <1>7 DEF Begin
  <2>3. /\ d.op = "restore" /\ d.at = step /\ d.item = i /\ d.from = p /\ d.to = t
        /\ Sound("restore", i, t) => d.sure = TRUE
    BY SoundBoolean
  <2> HIDE DEF d
  <2> QED
    BY <2>1, <2>2, <2>3
<1>9. Settled(i) => WorkedOn(i, e)
  <2>1. Settled(i) => Moved(i, e)
    BY <1>1, <1>4, <1>6, <1>8 DEF Moved, Settled, Agrees
  <2> QED
    BY <2>1, WorkedOnIs
<1>10. Sound("restore", i, t)
  <2>1. Below(i) = {}
    BY <1>1, BelowNone DEF Status
  <2> QED
    BY <1>2, <1>3, <2>1, SoundIs
<1> QED
  BY <1>1, <1>5, <1>8, <1>9, <1>10, BeginStep

-----------------------------------------------------------------------------
(* A step that writes a tuple, or none.                                    *)
LEMMA TupleStep ==
  ASSUME TreeInv, NEW m \in Mover, Record(m), Fault \/ Unfailing, UNCHANGED place,
         NEW e \in ErrandRow, ErrandOK(e), errand' = [errand EXCEPT ![m] = e],
         NEW i \in Folder, {errand[m].item, e.item} \subseteq {i, Root},
         errand[m].item = i \/ e.item = i, NEW f \in Folder \cup {Root},
         parents' = parents \/ parents' = parents \cup Tuple(i, f) \/ parents' = parents \ Tuple(i, f),
         ~raced' /\ Looked(e) => e.sure = TRUE,
         ~raced' /\ i \notin clashed' /\ e.item = i => WorkedOn(i, e)',
         ~raced' /\ i \notin clashed' /\ e.item # i => Settled(i)'
  PROVE  TreeInv'
<1>1. /\ place' = place /\ place \in [Folder -> PlaceRow] /\ parents \subseteq Folder \X Folder
      /\ \A x, y \in Folder : place[x].status = "gone" => place[y].parent # x
      /\ Root \notin Folder
  BY TreeFields DEF TreeInv, TreeTypeOK
<1>2. parents' \subseteq Folder \X Folder /\ \A j \in Folder \ {i} : Heirs(j)' = Heirs(j)
  BY <1>1, HeirsOf
<1>3. ~raced' => Tree'
  BY Before, SamePlace
<1>4. /\ place' \in [Folder -> PlaceRow]
      /\ \A x, y \in Folder : place'[x].status = "gone" => place'[y].parent # x
  BY <1>1
<1>5. ~raced' => \A j \in Folder \ {i} :
          /\ place'[j].status = place[j].status /\ place'[j].parent = place[j].parent
          /\ place'[j].inherit = place[j].inherit
          /\ place'[j].saved \in {Root, place[j].saved}
  BY <1>1
<1>6. parents' \subseteq Folder \X Folder
  BY <1>2
<1>7. \A j \in Folder \ {i} : Heirs(j)' = Heirs(j)
  BY <1>2
<1> QED
  BY <1>3, <1>4, <1>5, <1>6, <1>7, ErrandStep

(* The row and the errand of a request that has one.                       *)
LEMMA UnderWay ==
  ASSUME TreeInv, NEW m \in Mover, ~AtStep(m, "idle")
  PROVE  /\ errand[m] \in ErrandRow /\ ErrandOK(errand[m])
         /\ errand[m].item \in Folder /\ errand[m].from \in Folder \cup {Root}
         /\ errand[m].to \in Folder \cup {Root}
         /\ errand[m].at # "idle" /\ errand[m].op # "none" /\ errand[m] # NoErrand
<1>1. errand[m] \in ErrandRow /\ ErrandOK(errand[m])
  BY TreeFields
<1>2. errand[m].at # "idle" /\ errand[m] # NoErrand
  BY NoErrandRow DEF AtStep
<1>3. errand[m].item \in Folder /\ errand[m].op # "none"
  BY <1>1, <1>2 DEF ErrandOK
<1> QED
  BY <1>1, <1>2, <1>3 DEF ErrandRow

(* A failed step that is not recorded has changed nothing.                 *)
LEMMA Failed ==
  ASSUME TreeInv, NEW m \in Mover, Fault, ~Spoilt(m)
  PROVE  /\ place' = place /\ parents' = parents
         /\ errand[m].at \notin {"undo", "rewrite"} /\ errand[m].op # "create"
         /\ errand'[m] = NoErrand => AtStep(m, "old")
<1>1. faults' # faults
  BY DEF TreeInv, FaultsTypeOK, Fault
<1> QED
  BY <1>1 DEF Spoilt

LEMMA Leaves ==
  ASSUME TreeInv, NEW m \in Mover, Leave(m)
  PROVE  errand' = [errand EXCEPT ![m] = NoErrand] /\ errand'[m] = NoErrand
<1>1. errand' = [errand EXCEPT ![m] = NoErrand]
  BY DEF Leave
<1> QED
  BY <1>1, TreeFields

LEMMA StopErrandStep ==
  ASSUME TreeInv, NEW m \in Mover, Record(m), StopErrand(m)
  PROVE  TreeInv'
<1>1. ~AtStep(m, "idle") /\ Fault /\ Leave(m) /\ place' = place /\ parents' = parents
  BY DEF StopErrand
<1>2. PICK i \in Folder : errand[m].item = i
  BY <1>1, UnderWay
<1>3. errand' = [errand EXCEPT ![m] = NoErrand] /\ errand'[m] = NoErrand
  BY <1>1, Leaves
<1>4. ASSUME ~raced', i \notin clashed' PROVE Settled(i)'
  <2>1. WorkedOn(i, errand[m]) /\ ~Spoilt(m)
    BY <1>2, <1>4, Before
  <2>2. errand[m].at = "old"
    BY <1>1, <1>3, <2>1, Failed DEF AtStep
  <2>3. Settled(i)
    BY <2>1, <2>2 DEF WorkedOn, Created, Removed, Flagged, Moved
  <2> QED
    BY <1>1, <2>3, SamePlace
<1> QED
  BY <1>1, <1>2, <1>3, <1>4, NoErrandRow, DriveTreeAssumption, TupleStep

(* DeleteResourceParent: the request goes on, or has not begun to.         *)
LEMMA RemoveOldStep ==
  ASSUME TreeInv, NEW m \in Mover, Record(m), RemoveOld(m)
  PROVE  TreeInv'
<1> DEFINE next == IF errand[m].op # "inherit" /\ errand[m].to # Root THEN "new" ELSE "row"
<1>1. errand[m].at = "old" /\ ~AtStep(m, "idle") /\ place' = place
  BY DEF RemoveOld, AtStep
<1>2. PICK i \in Folder, f \in Folder \cup {Root} : errand[m].item = i /\ errand[m].from = f
  BY <1>1, UnderWay
<1>3. errand[m].op \in {"inherit", "move", "restore"} /\ Looked(errand[m])
  BY <1>1, UnderWay DEF ErrandOK, Looked, NoErrand
<1>4. \/ Tuple(i, f) \subseteq parents /\ parents' = parents \ Tuple(i, f) /\ Proceed(m, next) /\ Unfailing
      \/ /\ parents' = parents /\ Unfailing
         /\ IF errand[m].op = "restore" THEN Proceed(m, "undo") ELSE Leave(m)
      \/ /\ Fault /\ (parents' = parents \ Tuple(i, f) \/ parents' = parents)
         /\ IF errand[m].op = "restore" THEN Proceed(m, "undo") ELSE Leave(m)
  BY <1>2 DEF RemoveOld, TreeFails
<1>5. /\ Fault \/ Unfailing
      /\ parents' = parents \/ parents' = parents \cup Tuple(i, f) \/ parents' = parents \ Tuple(i, f)
  BY <1>4
<1>6. ~raced' => errand[m].sure = TRUE
  BY <1>3, Before
<1>7. ASSUME ~raced', i \notin clashed'
      PROVE  /\ WorkedOn(i, errand[m]) /\ ~Spoilt(m) /\ Settled(i) /\ f = place[i].parent
             /\ errand[m].op = "inherit" => Flagged(i, errand[m])
             /\ errand[m].op # "inherit" => Moved(i, errand[m])
  <2>1. WorkedOn(i, errand[m]) /\ ~Spoilt(m)
    BY <1>2, <1>7, Before
  <2>2. /\ errand[m].op = "inherit" => Flagged(i, errand[m])
        /\ errand[m].op # "inherit" => Moved(i, errand[m])
    BY <1>3, <2>1 DEF WorkedOn, Created, Removed, Flagged, Moved
  <2>3. Settled(i) /\ f = place[i].parent
    BY <1>1, <1>2, <1>3, <2>2 DEF Flagged, Moved
  <2> QED
    BY <2>1, <2>2, <2>3
<1>8. /\ parents' = parents => Heirs(i)' = Heirs(i)
      /\ parents' = parents \ Tuple(i, f) => Heirs(i)' = Heirs(i) \ {f}
  BY <1>2, TreeFields, HeirsOf
<1>9. CASE parents' = parents \ Tuple(i, f) /\ Proceed(m, next)
  <2>1. next \in {"new", "row"} /\ (next = "new" => errand[m].op \in {"move", "restore"})
        /\ (next = "row" /\ errand[m].op # "inherit" => errand[m].to = Root)
        /\ (errand[m].op = "inherit" => next = "row")
    BY <1>3
  <2> HIDE DEF next
  <2>2. PICK e \in ErrandRow :
           /\ errand' = [errand EXCEPT ![m] = e]
           /\ e.at = next /\ e.op = errand[m].op /\ e.item = errand[m].item
           /\ e.from = errand[m].from /\ e.to = errand[m].to /\ e.on = errand[m].on
           /\ e.sure = errand[m].sure
    BY <1>9, <2>1, Proceeds
  <2>3. ErrandOK(e)
    BY <1>2, <1>3, <2>1, <2>2 DEF ErrandOK
  <2>4. ASSUME ~raced', i \notin clashed' PROVE WorkedOn(i, e)'
    <3>1. Heirs(i)' = {}
      BY <1>7, <1>8, <1>9, <2>4 DEF Settled, Agrees
    <3>2. CASE errand[m].op = "inherit"
      <4>1. errand[m].on = FALSE
        BY <1>1, <1>7, <2>4, <3>2 DEF Flagged
      <4>2. Flagged(i, e)'
        BY <1>1, <1>7, <2>1, <2>2, <2>4, <3>1, <3>2, <4>1 DEF Flagged
      <4> QED
        BY <4>2 DEF WorkedOn
    <3>3. CASE errand[m].op # "inherit"
      <4>1. Moved(i, e)'
        BY <1>1, <1>7, <2>1, <2>2, <2>4, <3>1, <3>3 DEF Moved
      <4> QED
        BY <4>1 DEF WorkedOn
    <3> QED
      BY <3>2, <3>3
  <2>5. {errand[m].item, e.item} \subseteq {i, Root} /\ errand[m].item = i /\ e.item = i
    BY <1>2, <2>2
  <2>6. ~raced' /\ Looked(e) => e.sure = TRUE
    BY <1>6, <2>2
  <2>7. ~raced' /\ i \notin clashed' /\ e.item # i => Settled(i)'
    BY <2>5
  <2> QED
    BY <1>1, <1>5, <2>2, <2>3, <2>4, <2>5, <2>6, <2>7, TupleStep
<1>10. CASE errand[m].op = "restore" /\ Proceed(m, "undo")
  <2>2. PICK e \in ErrandRow :
           /\ errand' = [errand EXCEPT ![m] = e]
           /\ e.at = "undo" /\ e.op = errand[m].op /\ e.item = errand[m].item
           /\ e.from = errand[m].from /\ e.to = errand[m].to
    BY <1>10, Proceeds
  <2>3. ErrandOK(e) /\ ~Looked(e)
    BY <1>2, <1>10, <2>2 DEF ErrandOK, Looked
  <2>4. ASSUME ~raced', i \notin clashed' PROVE WorkedOn(i, e)'
    <3>1. Heirs(i)' \subseteq {f}
      BY <1>4, <1>7, <1>8, <2>4 DEF Settled, Agrees
    <3>2. Moved(i, e)'
      BY <1>1, <1>2, <1>7, <1>10, <2>2, <2>4, <3>1 DEF Moved
    <3> QED
      BY <3>2 DEF WorkedOn
  <2>5. {errand[m].item, e.item} \subseteq {i, Root} /\ errand[m].item = i /\ e.item = i
    BY <1>2, <2>2
  <2>6. ~raced' /\ Looked(e) => e.sure = TRUE
    BY <2>3
  <2>7. ~raced' /\ i \notin clashed' /\ e.item # i => Settled(i)'
    BY <2>5
  <2> QED
    BY <1>1, <1>5, <2>2, <2>3, <2>4, <2>5, <2>6, <2>7, TupleStep
<1>11. CASE errand[m].op # "restore" /\ Leave(m) /\ (Fault \/ parents' = parents)
  <2>1. errand' = [errand EXCEPT ![m] = NoErrand]
    BY <1>11, Leaves
  <2>2. ASSUME ~raced', i \notin clashed' PROVE Settled(i)'
    <3>1. parents' = parents
      BY <1>7, <1>11, <2>2, Failed
    <3> QED
      BY <1>1, <1>7, <2>2, <3>1, SamePlace
  <2>3. {errand[m].item, NoErrand.item} \subseteq {i, Root} /\ NoErrand.item # i
    BY <1>2, NoErrandRow, DriveTreeAssumption
  <2> QED
    BY <1>1, <1>2, <1>5, <2>1, <2>2, <2>3, NoErrandRow, TupleStep
<1> QED
  BY <1>4, <1>9, <1>10, <1>11

(* CheckTarget: the folder to move to is there, and not below.             *)
LEMMA CheckTargetStep ==
  ASSUME TreeInv, NEW m \in Mover, Record(m), errand[m].op = "move", CheckTarget(m)
  PROVE  TreeInv'
<1>1. errand[m].at = "check" /\ ~AtStep(m, "idle") /\ place' = place /\ parents' = parents /\ Unfailing
  BY DEF CheckTarget, AtStep
<1>2. PICK i \in Folder, f \in Folder \cup {Root}, o \in Folder \cup {Root} :
         errand[m].item = i /\ errand[m].to = f /\ errand[m].from = o
  BY <1>1, UnderWay
<1>3. ASSUME ~raced', i \notin clashed'
      PROVE  Settled(i) /\ o = place[i].parent /\ place[i].status = "live" /\ Present(o)
  <2>1. WorkedOn(i, errand[m]) /\ Tree
    BY <1>2, <1>3, Before
  <2>2. Settled(i) /\ o = place[i].parent /\ place[i].status = "live"
    BY <1>1, <1>2, <2>1 DEF WorkedOn, Created, Removed, Flagged, Moved
  <2> QED
    BY <2>1, <2>2 DEF Tree, Status
<1>4. CASE Present(f) /\ (f = Root \/ f \notin Below(i))
  <2> DEFINE p == IF Present(o) THEN o ELSE Root
             d == [errand[m] EXCEPT !.at = "old", !.sure = Sound("move", i, f), !.from = p]
  <2>1. errand' = [errand EXCEPT ![m] = d]
    BY <1>2, <1>4 DEF CheckTarget
  <2>2. p \in Folder \cup {Root}
    BY <1>2
  <2>3. errand[m] \in ErrandRow
    BY <1>1, UnderWay
  <2>4. Sound("move", i, f) = TRUE
    BY <1>4, SoundIs, SoundBoolean
  <2> HIDE DEF p
  <2>5. d \in ErrandRow
    BY <2>2, <2>3, <2>4 DEF ErrandRow
  <2>6. /\ d.at = "old" /\ d.op = "move" /\ d.item = i /\ d.to = f /\ d.from = p /\ d.sure = TRUE
    BY <1>2, <2>3, <2>4 DEF ErrandRow
  <2> HIDE DEF d
  <2>7. PICK e \in ErrandRow :
           /\ errand' = [errand EXCEPT ![m] = e] /\ e.at = "old" /\ e.op = "move" /\ e.item = i
           /\ e.to = f /\ e.from = p /\ e.sure = TRUE
    BY <2>1, <2>5, <2>6
  <2>8. ErrandOK(e)
    BY <2>7 DEF ErrandOK
  <2>9. ASSUME ~raced', i \notin clashed' PROVE WorkedOn(i, e)'
    <3>1. p = place[i].parent
      BY <1>3, <2>9 DEF p
    <3>2. Settled(i)'
      BY <1>1, <1>3, <2>9, SamePlace
    <3>3. Moved(i, e)'
      <4>1. place'[i].saved = Root
        BY <1>1, <1>3, <2>9 DEF Settled
      <4> QED
        BY <1>1, <1>3, <2>7, <2>9, <3>1, <3>2, <4>1 DEF Moved
    <3> QED
      BY <3>3 DEF WorkedOn
  <2>10. {errand[m].item, e.item} \subseteq {i, Root} /\ errand[m].item = i /\ e.item = i
    BY <1>2, <2>7
  <2>11. ~raced' /\ Looked(e) => e.sure = TRUE
    BY <2>7
  <2>12. ~raced' /\ i \notin clashed' /\ e.item # i => Settled(i)'
    BY <2>10
  <2> QED
    BY <1>1, <1>2, <2>7, <2>8, <2>9, <2>10, <2>11, <2>12, TupleStep
<1>5. CASE Leave(m)
  <2>1. errand' = [errand EXCEPT ![m] = NoErrand]
    BY <1>5, Leaves
  <2>2. ASSUME ~raced', i \notin clashed' PROVE Settled(i)'
    BY <1>1, <1>3, <2>2, SamePlace
  <2>3. {errand[m].item, NoErrand.item} \subseteq {i, Root} /\ NoErrand.item # i
    BY <1>2, NoErrandRow, DriveTreeAssumption
  <2> QED
    BY <1>1, <1>2, <2>1, <2>2, <2>3, NoErrandRow, TupleStep
<1>6. Leave(m) \/ (Present(f) /\ (f = Root \/ f \notin Below(i)))
  BY <1>2 DEF CheckTarget
<1> QED
  BY <1>4, <1>5, <1>6

(* restoreFolderParent and rollbackDriveRestoreTuples.                     *)
LEMMA RemoveNewStep ==
  ASSUME TreeInv, NEW m \in Mover, Record(m), RemoveNew(m)
  PROVE  TreeInv'
<1>1. /\ errand[m].at = "undo" /\ ~AtStep(m, "idle") /\ place' = place /\ Proceed(m, "rewrite")
  BY DEF RemoveNew, AtStep
<1>2. PICK i \in Folder, f \in Folder \cup {Root} : errand[m].item = i /\ errand[m].to = f
  BY <1>1, UnderWay
<1>3. errand[m].op \in {"move", "restore"}
  BY <1>1, UnderWay DEF ErrandOK, NoErrand
<1>4. /\ (Unfailing /\ parents' = parents \ Tuple(i, f)) \/ Fault
      /\ Fault \/ Unfailing
      /\ parents' = parents \/ parents' = parents \cup Tuple(i, f) \/ parents' = parents \ Tuple(i, f)
  BY <1>2 DEF RemoveNew, TreeFails
<1>5. PICK e \in ErrandRow :
         /\ errand' = [errand EXCEPT ![m] = e]
         /\ e.at = "rewrite" /\ e.op = errand[m].op /\ e.item = errand[m].item
         /\ e.from = errand[m].from /\ e.to = errand[m].to
  BY <1>1, Proceeds
<1>6. ErrandOK(e) /\ ~Looked(e)
  BY <1>2, <1>3, <1>5 DEF ErrandOK, Looked
<1>7. ASSUME ~raced', i \notin clashed' PROVE WorkedOn(i, e)'
  <2>1. WorkedOn(i, errand[m]) /\ ~Spoilt(m)
    BY <1>2, <1>7, Before
  <2>2. Moved(i, errand[m])
    BY <1>1, <2>1 DEF WorkedOn, Created, Removed, Flagged
  <2>3. parents' = parents \ Tuple(i, f)
    BY <1>1, <1>4, <2>1, Failed
  <2>4. Heirs(i)' = Heirs(i) \ {f}
    BY <1>2, <2>3, TreeFields, HeirsOf
  <2>5. Moved(i, e)'
    BY <1>1, <1>2, <1>5, <2>2, <2>4 DEF Moved
  <2> QED
    BY <2>5 DEF WorkedOn
<1>8. {errand[m].item, e.item} \subseteq {i, Root} /\ errand[m].item = i /\ e.item = i
  BY <1>2, <1>5
<1>9. ~raced' /\ Looked(e) => e.sure = TRUE
  BY <1>6
<1>10. ~raced' /\ i \notin clashed' /\ e.item # i => Settled(i)'
  BY <1>8
<1> QED
  BY <1>1, <1>2, <1>4, <1>5, <1>6, <1>7, <1>8, <1>9, <1>10, TupleStep

LEMMA RewriteOldStep ==
  ASSUME TreeInv, NEW m \in Mover, Record(m), RewriteOld(m)
  PROVE  TreeInv'
<1>1. /\ errand[m].at = "rewrite" /\ ~AtStep(m, "idle") /\ place' = place /\ Leave(m)
  BY DEF RewriteOld, AtStep
<1>2. PICK i \in Folder, f \in Folder \cup {Root} : errand[m].item = i /\ errand[m].from = f
  BY <1>1, UnderWay
<1>3. /\ (Unfailing /\ parents' = parents \cup Tuple(i, f)) \/ Fault
      /\ Fault \/ Unfailing
      /\ parents' = parents \/ parents' = parents \cup Tuple(i, f) \/ parents' = parents \ Tuple(i, f)
  BY <1>2 DEF RewriteOld, TreeFails
<1>4. errand' = [errand EXCEPT ![m] = NoErrand]
  BY <1>1, Leaves
<1>5. ASSUME ~raced', i \notin clashed' PROVE Settled(i)'
  <2>1. WorkedOn(i, errand[m]) /\ ~Spoilt(m)
    BY <1>2, <1>5, Before
  <2>2. Moved(i, errand[m])
    BY <1>1, <2>1 DEF WorkedOn, Created, Removed, Flagged
  <2>3. parents' = parents \cup Tuple(i, f)
    BY <1>1, <1>3, <2>1, Failed
  <2>4. Heirs(i)' = Heirs(i) \cup ({f} \ {Root})
    BY <1>2, <2>3, TreeFields, HeirsOf
  <2>5. f = place[i].parent /\ Heirs(i) \subseteq {f}
    BY <1>1, <1>2, <2>2 DEF Moved
  <2>6. Agrees(i)'
    BY <1>1, <2>2, <2>4, <2>5 DEF Agrees, Moved
  <2> QED
    BY <1>1, <2>2, <2>6 DEF Settled, Moved
<1>6. {errand[m].item, NoErrand.item} \subseteq {i, Root} /\ NoErrand.item # i
  BY <1>2, NoErrandRow, DriveTreeAssumption
<1> QED
  BY <1>1, <1>2, <1>3, <1>4, <1>5, <1>6, NoErrandRow, TupleStep

LEMMA WriteNewStep ==
  ASSUME TreeInv, NEW m \in Mover, Record(m), WriteNew(m)
  PROVE  TreeInv'
<1>1. errand[m].at = "new" /\ ~AtStep(m, "idle") /\ place' = place
  BY DEF WriteNew, AtStep
<1>2. PICK i \in Folder, f \in Folder \cup {Root} : errand[m].item = i /\ errand[m].to = f
  BY <1>1, UnderWay
<1>3. errand[m].op \in {"create", "inherit", "move", "restore"}
  BY <1>1, UnderWay DEF ErrandOK, NoErrand
<1>4. \/ /\ parents' = parents \cup Tuple(i, f) /\ Unfailing
         /\ IF errand[m].op = "create" THEN Leave(m) ELSE Proceed(m, "row")
      \/ /\ Fault /\ (parents' = parents \cup Tuple(i, f) \/ parents' = parents)
         /\ \/ errand[m].op = "create" /\ Proceed(m, "remove")
            \/ errand[m].op = "inherit" /\ Leave(m)
            \/ errand[m].op = "move" /\ Proceed(m, "rewrite")
            \/ errand[m].op = "restore" /\ Proceed(m, "undo")
  BY <1>2, <1>3 DEF WriteNew, TreeFails
<1>5. /\ Fault \/ Unfailing
      /\ parents' = parents \/ parents' = parents \cup Tuple(i, f) \/ parents' = parents \ Tuple(i, f)
  BY <1>4
<1>6. ~raced' /\ errand[m].op # "create" => errand[m].sure = TRUE
  BY <1>1, Before DEF Looked
<1>7. ASSUME ~raced', i \notin clashed'
      PROVE  /\ ~Spoilt(m)
             /\ errand[m].op = "create" => Created(i, errand[m])
             /\ errand[m].op = "inherit" => Flagged(i, errand[m])
             /\ errand[m].op \in {"move", "restore"} => Moved(i, errand[m])
  <2>1. WorkedOn(i, errand[m]) /\ ~Spoilt(m)
    BY <1>2, <1>7, Before
  <2> QED
    BY <1>3, <2>1 DEF WorkedOn, Created, Removed, Flagged, Moved
<1>8. /\ parents' = parents => Heirs(i)' = Heirs(i)
      /\ parents' = parents \cup Tuple(i, f) => Heirs(i)' = Heirs(i) \cup ({f} \ {Root})
  BY <1>2, TreeFields, HeirsOf
<1>9. CASE parents' = parents \cup Tuple(i, f) /\ errand[m].op # "create" /\ Proceed(m, "row")
  <2>1. PICK e \in ErrandRow :
           /\ errand' = [errand EXCEPT ![m] = e]
           /\ e.at = "row" /\ e.op = errand[m].op /\ e.item = errand[m].item
           /\ e.from = errand[m].from /\ e.to = errand[m].to /\ e.on = errand[m].on
           /\ e.sure = errand[m].sure
    BY <1>9, Proceeds
  <2>2. ErrandOK(e)
    BY <1>2, <1>3, <2>1 DEF ErrandOK
  <2>3. ASSUME ~raced', i \notin clashed' PROVE WorkedOn(i, e)'
    <3>1. CASE errand[m].op = "inherit"
      <4>1. Flagged(i, e)'
        BY <1>1, <1>2, <1>7, <1>8, <1>9, <2>1, <2>3, <3>1 DEF Flagged, Settled, Agrees
      <4> QED
        BY <4>1 DEF WorkedOn
    <3>2. CASE errand[m].op \in {"move", "restore"}
      <4>1. Heirs(i) = {}
        BY <1>1, <1>7, <2>3, <3>2 DEF Moved
      <4>2. Heirs(i)' = {f} \ {Root}
        BY <1>8, <1>9, <4>1
      <4>3. Moved(i, e)'
        BY <1>1, <1>2, <1>7, <2>1, <2>3, <3>2, <4>2 DEF Moved
      <4> QED
        BY <4>3 DEF WorkedOn
    <3> QED
      BY <1>3, <1>9, <3>1, <3>2
  <2>5. {errand[m].item, e.item} \subseteq {i, Root} /\ errand[m].item = i /\ e.item = i
    BY <1>2, <2>1
  <2>6. ~raced' /\ Looked(e) => e.sure = TRUE
    BY <1>6, <1>9, <2>1
  <2>7. ~raced' /\ i \notin clashed' /\ e.item # i => Settled(i)'
    BY <2>5
  <2> QED
    BY <1>1, <1>2, <1>5, <2>1, <2>2, <2>3, <2>5, <2>6, <2>7, TupleStep
<1>10. ASSUME Fault, NEW s \in {"remove", "rewrite", "undo"}, Proceed(m, s),
              \/ errand[m].op = "create" /\ s = "remove"
              \/ errand[m].op = "move" /\ s = "rewrite"
              \/ errand[m].op = "restore" /\ s = "undo"
       PROVE  TreeInv'
  <2>1. PICK e \in ErrandRow :
           /\ errand' = [errand EXCEPT ![m] = e]
           /\ e.at = s /\ e.op = errand[m].op /\ e.item = errand[m].item
           /\ e.from = errand[m].from /\ e.to = errand[m].to
    BY <1>10, Proceeds
  <2>2. ErrandOK(e) /\ ~Looked(e)
    BY <1>2, <1>10, <2>1 DEF ErrandOK, Looked
  <2>3. ASSUME ~raced', i \notin clashed' PROVE WorkedOn(i, e)'
    <3>1. parents' = parents /\ errand[m].op # "create" /\ Heirs(i)' = Heirs(i)
      BY <1>7, <1>8, <1>10, <2>3, Failed
    <3>2. Heirs(i)' = {}
      BY <1>1, <1>7, <1>10, <2>3, <3>1 DEF Moved
    <3>3. Moved(i, e)'
      BY <1>1, <1>2, <1>7, <1>10, <2>1, <2>3, <3>1, <3>2 DEF Moved
    <3> QED
      BY <3>3 DEF WorkedOn
  <2>5. {errand[m].item, e.item} \subseteq {i, Root} /\ errand[m].item = i /\ e.item = i
    BY <1>2, <2>1
  <2>6. ~raced' /\ Looked(e) => e.sure = TRUE
    BY <2>2
  <2>7. ~raced' /\ i \notin clashed' /\ e.item # i => Settled(i)'
    BY <2>5
  <2> QED
    BY <1>1, <1>2, <1>5, <2>1, <2>2, <2>3, <2>5, <2>6, <2>7, TupleStep
<1>11. CASE /\ Leave(m)
            /\ \/ errand[m].op = "create" /\ parents' = parents \cup Tuple(i, f)
               \/ errand[m].op = "inherit" /\ Fault
  <2>1. errand' = [errand EXCEPT ![m] = NoErrand] /\ errand'[m] = NoErrand
    BY <1>11, Leaves
  <2>2. ASSUME ~raced', i \notin clashed' PROVE Settled(i)'
    <3>1. errand[m].op = "create"
      BY <1>1, <1>7, <1>11, <2>1, <2>2, Failed DEF AtStep
    <3>2. Heirs(i)' = {f} \ {Root} /\ place[i].parent = f /\ place[i].status = "live" /\ place[i].saved = Root
      BY <1>1, <1>2, <1>7, <1>8, <1>11, <2>2, <3>1 DEF Created
    <3>3. place'[i].parent \in Folder \cup {Root} /\ Heirs(i)' \subseteq {f}
      BY <1>1, <1>2, <3>2
    <3> QED
      BY <1>1, <1>2, <3>2, <3>3 DEF Settled, Agrees
  <2>3. {errand[m].item, NoErrand.item} \subseteq {i, Root} /\ NoErrand.item # i
    BY <1>2, NoErrandRow, DriveTreeAssumption
  <2> QED
    BY <1>1, <1>2, <1>5, <2>1, <2>2, <2>3, NoErrandRow, TupleStep
<1> QED
  BY <1>3, <1>4, <1>9, <1>10, <1>11

-----------------------------------------------------------------------------
(* A step that writes a row, or none.                                      *)
LEMMA RowStep ==
  ASSUME TreeInv, NEW m \in Mover, Record(m), Fault \/ Unfailing, parents' = parents,
         NEW e \in ErrandRow, ErrandOK(e), errand' = [errand EXCEPT ![m] = e],
         NEW i \in Folder, {errand[m].item, e.item} \subseteq {i, Root},
         errand[m].item = i \/ e.item = i, NEW r \in PlaceRow,
         r.status = "gone" => place[i].status = "gone",
         r.parent = Root \/ r.parent = place[i].parent \/ place[r.parent].status # "gone",
         place' = place \/ place' = [place EXCEPT ![i] = r],
         ~raced' => Tree',
         ~raced' /\ Looked(e) => e.sure = TRUE,
         ~raced' /\ i \notin clashed' /\ e.item = i => WorkedOn(i, e)',
         ~raced' /\ i \notin clashed' /\ e.item # i => Settled(i)'
  PROVE  TreeInv'
<1>1. /\ place \in [Folder -> PlaceRow] /\ parents \subseteq Folder \X Folder
      /\ \A x, y \in Folder : place[x].status = "gone" => place[y].parent # x
      /\ Root \notin Folder
  BY TreeFields DEF TreeInv, TreeTypeOK
<1>2. /\ place' \in [Folder -> PlaceRow] /\ place'[i] \in {place[i], r}
      /\ \A j \in Folder \ {i} : place'[j] = place[j]
  BY <1>1
<1>3. \A x, y \in Folder : place'[x].status = "gone" => place'[y].parent # x
  <2> TAKE x \in Folder, y \in Folder
  <2> HAVE place'[x].status = "gone"
  <2>1. place[x].status = "gone"
    BY <1>2
  <2>2. place[y].parent # x
    BY <1>1, <2>1
  <2>3. place'[y].parent = place[y].parent \/ (y = i /\ place'[y].parent = r.parent)
    BY <1>2
  <2>4. r.parent = x => r.parent = place[i].parent
    BY <1>1, <2>1
  <2> QED
    BY <2>2, <2>3, <2>4
<1>4. parents' \subseteq Folder \X Folder
  BY <1>1
<1>5. \A j \in Folder \ {i} : Heirs(j)' = Heirs(j)
  BY DEF Heirs
<1>6. ~raced' => \A j \in Folder \ {i} :
          /\ place'[j].status = place[j].status /\ place'[j].parent = place[j].parent
          /\ place'[j].inherit = place[j].inherit
          /\ place'[j].saved \in {Root, place[j].saved}
  BY <1>2
<1> QED
  BY <1>2, <1>3, <1>4, <1>5, <1>6, ErrandStep

(* The row is written as the request needs the tree to be.                 *)
LEMMA RowPlaced ==
  ASSUME TreeInv, Tree, NEW i \in Folder, NEW f \in Folder \cup {Root}, NEW r \in PlaceRow,
         Present(f), f = Root \/ f \notin Below(i), r.status = "live", r.parent = f,
         place' = [place EXCEPT ![i] = r]
  PROVE  Tree'
<1>1. place \in [Folder -> PlaceRow]
  BY TreeFields
<1>2. place'[i] = r /\ \A j \in Folder \ {i} : place'[j] = place[j]
  BY <1>1
<1>3. place'[i].parent = f /\ \A j \in Folder \ {i} : place'[j].parent = place[j].parent
  BY <1>2
<1>4. Status("live")' = Status("live") \cup {i}
  BY <1>2 DEF Status
<1>5. CASE i \in Status("live")
  <2>1. Status("live")' = Status("live")
    BY <1>4, <1>5
  <2> QED
    BY <1>3, <1>5, <2>1, TreeMove
<1>6. CASE i \notin Status("live")
  BY <1>3, <1>4, <1>6, TreeAdd
<1> QED
  BY <1>5, <1>6

LEMMA RowDropped ==
  ASSUME TreeInv, Tree, NEW i \in Folder, NEW r \in PlaceRow,
         r.status # "live", Children(i) \cap Status("live") = {},
         place' = [place EXCEPT ![i] = r]
  PROVE  Tree'
<1>1. place \in [Folder -> PlaceRow]
  BY TreeFields
<1>2. place'[i] = r /\ \A j \in Folder \ {i} : place'[j] = place[j]
  BY <1>1
<1>3. Status("live")' = Status("live") \ {i}
  BY <1>2 DEF Status
<1>4. \A j \in Status("live")' : place'[j].parent = place[j].parent
  BY <1>2, <1>3 DEF Status
<1>5. Status("live")' \subseteq Status("live")
  BY <1>3
<1>6. \A j \in Status("live") \ Status("live")' : Children(j) \cap Status("live") = {}
  BY <1>3
<1> QED
  BY <1>4, <1>5, <1>6, TreeDrop

LEMMA RowKept ==
  ASSUME TreeInv, Tree, NEW i \in Folder, NEW r \in PlaceRow,
         r.status = place[i].status, r.parent = place[i].parent,
         place' = [place EXCEPT ![i] = r]
  PROVE  Tree'
<1>1. place \in [Folder -> PlaceRow]
  BY TreeFields
<1>2. \A j \in Folder : place'[j].status = place[j].status /\ place'[j].parent = place[j].parent
  BY <1>1
<1>3. Status("live")' = Status("live")
  BY <1>2 DEF Status
<1>4. \A j \in Status("live")' : place'[j].parent = place[j].parent
  BY <1>2 DEF Status
<1> QED
  BY <1>3, <1>4, TreeDrop

(* A request writes its row, or fails to, and is through.                  *)
LEMMA RowLeaves ==
  ASSUME TreeInv, NEW m \in Mover, Record(m), Fault \/ Unfailing, parents' = parents, Leave(m),
         NEW i \in Folder, errand[m].item \in {i}, NEW r \in PlaceRow,
         r.status = "gone" => place[i].status = "gone",
         r.parent = Root \/ r.parent = place[i].parent \/ place[r.parent].status # "gone",
         place' = place \/ place' = [place EXCEPT ![i] = r],
         ~raced' => Tree',
         ~raced' /\ i \notin clashed' => Settled(i)'
  PROVE  TreeInv'
<1>1. PICK e \in ErrandRow : e = NoErrand /\ ErrandOK(e) /\ ~Looked(e) /\ e.item = Root
  BY NoErrandRow
<1>2. errand' = [errand EXCEPT ![m] = e]
  BY <1>1, Leaves
<1>3. e.item # i /\ ErrandOK(e)
  BY <1>1, DriveTreeAssumption
<1>4. {errand[m].item, e.item} \subseteq {i, Root}
  BY <1>1
<1>5. errand[m].item = i \/ e.item = i
  OBVIOUS
<1>6. ~raced' /\ Looked(e) => e.sure = TRUE
  BY <1>1
<1>7. ~raced' /\ i \notin clashed' /\ e.item = i => WorkedOn(i, e)'
  BY <1>3
<1>8. ~raced' /\ i \notin clashed' /\ e.item # i => Settled(i)'
  OBVIOUS
<1> QED
  BY <1>2, <1>3, <1>4, <1>5, <1>6, <1>7, <1>8, RowStep

LEMMA InsertItemStep ==
  ASSUME TreeInv, NEW m \in Mover, Record(m), InsertItem(m)
  PROVE  TreeInv'
<1>1. /\ errand[m].at = "row" /\ AtStep(m, "row") /\ ~AtStep(m, "idle") /\ errand[m].op = "create"
      /\ parents' = parents /\ Unfailing
  BY DEF InsertItem, AtRow, AtStep
<1>2. PICK i \in Folder, f \in Folder \cup {Root} : errand[m].item = i /\ errand[m].to = f
  BY <1>1, UnderWay
<1>3. ASSUME ~raced' PROVE Tree /\ Present(f) /\ (f = Root \/ f \notin Below(i))
  <2>1. Tree /\ Sound("create", i, f)
    BY <1>1, <1>2, <1>3, Before
  <2> QED
    BY <2>1, SoundIs
<1>4. ASSUME ~raced', i \notin clashed'
      PROVE  place[i].status = "absent" /\ Settled(i)
  <2>1. WorkedOn(i, errand[m])
    BY <1>2, <1>4, Before
  <2> QED
    BY <1>1, <2>1 DEF WorkedOn, Created, Removed, Flagged, Moved
<1>5. CASE Leave(m) /\ place' = place
  <2>1. errand' = [errand EXCEPT ![m] = NoErrand]
    BY <1>5, Leaves
  <2>2. ASSUME ~raced', i \notin clashed' PROVE Settled(i)'
    BY <1>1, <1>4, <1>5, <2>2, SamePlace
  <2>3. {errand[m].item, NoErrand.item} \subseteq {i, Root} /\ errand[m].item = i /\ NoErrand.item # i
    BY <1>2, NoErrandRow, DriveTreeAssumption
  <2>4. UNCHANGED place
    BY <1>5
  <2> QED
    BY <1>1, <2>1, <2>2, <2>3, <2>4, NoErrandRow, TupleStep
<1>6. CASE /\ f \notin Status("gone") /\ Proceed(m, "new")
           /\ place' = [place EXCEPT ![i] = [@ EXCEPT !.status = "live", !.parent = f]]
  <2>1. place[i] \in PlaceRow /\ place \in [Folder -> PlaceRow]
    BY TreeFields
  <2>2. PICK r \in PlaceRow : /\ place' = [place EXCEPT ![i] = r] /\ r.status = "live" /\ r.parent = f
                              /\ r.saved = place[i].saved
    <3> DEFINE r == [place[i] EXCEPT !.status = "live", !.parent = f]
    <3>1. r \in PlaceRow /\ r.status = "live" /\ r.parent = f /\ r.saved = place[i].saved
      BY <2>1 DEF PlaceRow
    <3>2. place' = [place EXCEPT ![i] = r]
      BY <1>6
    <3> HIDE DEF r
    <3> QED
      BY <3>1, <3>2
  <2>3. PICK e \in ErrandRow :
           /\ errand' = [errand EXCEPT ![m] = e]
           /\ e.at = "new" /\ e.op = "create" /\ e.item = i /\ e.to = f
    BY <1>1, <1>2, <1>6, Proceeds
  <2>4. ErrandOK(e) /\ ~Looked(e)
    BY <2>3 DEF ErrandOK, Looked
  <2>5. ~raced' => Tree'
    BY <1>3, <2>2, RowPlaced
  <2>6. ASSUME ~raced', i \notin clashed' PROVE WorkedOn(i, e)'
    <3>1. Heirs(i)' = {} /\ place[i].saved = Root
      BY <1>1, <1>4, <2>6, DriveTreeAssumption DEF Settled, Agrees, Heirs
    <3>2. place'[i] = r
      BY <2>1, <2>2
    <3>3. Created(i, e)'
      BY <2>2, <2>3, <3>1, <3>2 DEF Created
    <3> QED
      BY <3>3 DEF WorkedOn
  <2>7. {errand[m].item, e.item} \subseteq {i, Root} /\ errand[m].item = i /\ e.item = i
    BY <1>2, <2>3
  <2>8. r.parent = Root \/ place[r.parent].status # "gone"
    BY <1>6, <2>2 DEF Status
  <2>9. r.status # "gone"
    BY <2>2
  <2>10. ~raced' /\ Looked(e) => e.sure = TRUE
    BY <2>4
  <2>11. ~raced' /\ i \notin clashed' /\ e.item # i => Settled(i)'
    BY <2>7
  <2> QED
    BY <1>1, <2>2, <2>3, <2>4, <2>5, <2>6, <2>7, <2>8, <2>9, <2>10, <2>11, RowStep
<1> QED
  BY <1>2, <1>5, <1>6 DEF InsertItem

LEMMA SaveParentStep ==
  ASSUME TreeInv, NEW m \in Mover, Record(m), SaveParent(m)
  PROVE  TreeInv'
<1>1. /\ errand[m].at = "check" /\ ~AtStep(m, "idle") /\ errand[m].op = "delete"
      /\ parents' = parents /\ Proceed(m, "row") /\ (Fault \/ Unfailing)
  BY DEF SaveParent, AtStep, TreeFails
<1>2. PICK i \in Folder : errand[m].item = i
  BY <1>1, UnderWay
<1>3. place[i] \in PlaceRow /\ place \in [Folder -> PlaceRow]
  BY TreeFields
<1>4. PICK r \in PlaceRow : /\ place' = place \/ place' = [place EXCEPT ![i] = r]
                            /\ r.status = place[i].status /\ r.parent = place[i].parent
                            /\ r.inherit = place[i].inherit /\ r.saved = place[i].parent
  <2> DEFINE r == [place[i] EXCEPT !.saved = place[i].parent]
  <2>1. /\ r \in PlaceRow /\ r.status = place[i].status /\ r.parent = place[i].parent
        /\ r.inherit = place[i].inherit /\ r.saved = place[i].parent
    BY <1>3 DEF PlaceRow
  <2>2. place' = place \/ place' = [place EXCEPT ![i] = r]
    BY <1>2, <1>3 DEF SaveParent, TreeFails
  <2> HIDE DEF r
  <2> QED
    BY <2>1, <2>2
<1>5. PICK e \in ErrandRow :
         /\ errand' = [errand EXCEPT ![m] = e]
         /\ e.at = "row" /\ e.op = "delete" /\ e.item = i /\ e.sure = errand[m].sure
  BY <1>1, <1>2, Proceeds
<1>6. ErrandOK(e)
  BY <1>5 DEF ErrandOK
<1>7. ~raced' => Tree'
  BY <1>4, Before, RowKept, SamePlace
<1>8. ASSUME ~raced', i \notin clashed' PROVE WorkedOn(i, e)'
  <2>1. WorkedOn(i, errand[m])
    BY <1>2, <1>8, Before
  <2>2. place[i].status = "live" /\ Agrees(i)
    BY <1>1, <2>1 DEF WorkedOn, Created, Removed, Flagged, Moved
  <2>3. Heirs(i)' = Heirs(i)
    BY <1>1 DEF Heirs
  <2>4. /\ place'[i].status = place[i].status /\ place'[i].parent = place[i].parent
        /\ place'[i].inherit = place[i].inherit /\ place'[i].saved \in {place[i].saved, place[i].parent}
    BY <1>3, <1>4
  <2>5. Agrees(i)'
    BY <2>2, <2>3, <2>4 DEF Agrees
  <2>6. Removed(i, e)'
    BY <1>5, <2>2, <2>4, <2>5 DEF Removed
  <2> QED
    BY <2>6 DEF WorkedOn
<1>9. {errand[m].item, e.item} \subseteq {i, Root} /\ errand[m].item = i /\ e.item = i
  BY <1>2, <1>5
<1>10. ~raced' /\ Looked(e) => e.sure = TRUE
  BY <1>1, <1>5, Before DEF Looked
<1>11. ~raced' /\ i \notin clashed' /\ e.item # i => Settled(i)'
  BY <1>9
<1>12. r.status = "gone" => place[i].status = "gone"
  BY <1>4
<1>13. r.parent = place[i].parent
  BY <1>4
<1> QED
  BY <1>1, <1>4, <1>5, <1>6, <1>7, <1>8, <1>9, <1>10, <1>11, <1>12, <1>13, RowStep

(* SoftDeleteDriveFolder.                                                  *)
LEMMA TrashedRow ==
  ASSUME TreeInv, NEW i \in Folder,
         place' = [place EXCEPT ![i].status = IF @ = "live" THEN "trash" ELSE @]
  PROVE  \E r \in PlaceRow :
            /\ place' = [place EXCEPT ![i] = r] /\ place'[i] = r
            /\ r.status = IF place[i].status = "live" THEN "trash" ELSE place[i].status
            /\ r.parent = place[i].parent /\ r.saved = place[i].saved /\ r.inherit = place[i].inherit
<1> DEFINE s == IF place[i].status = "live" THEN "trash" ELSE place[i].status
           r == [place[i] EXCEPT !.status = s]
<1>1. place[i] \in PlaceRow /\ place \in [Folder -> PlaceRow]
  BY TreeFields
<1>2. s \in {"absent", "live", "trash", "gone"}
  BY TreeFields
<1>3. place' = [place EXCEPT ![i] = r]
  BY <1>1
<1> HIDE DEF s
<1>4. /\ r \in PlaceRow /\ r.status = s
      /\ r.parent = place[i].parent /\ r.saved = place[i].saved /\ r.inherit = place[i].inherit
  BY <1>1, <1>2 DEF PlaceRow
<1>5. place'[i] = r
  BY <1>1, <1>3
<1> HIDE DEF r
<1> QED
  BY <1>3, <1>4, <1>5 DEF s

LEMMA TrashStep ==
  ASSUME TreeInv, NEW m \in Mover, Record(m), parents' = parents, Unfailing, Leave(m),
         \/ AtStep(m, "remove") /\ errand[m].op = "create"
         \/ AtStep(m, "row") /\ errand[m].op = "delete",
         NEW i \in Folder, errand[m].item = i,
         place' = [place EXCEPT ![i].status = IF @ = "live" THEN "trash" ELSE @]
  PROVE  TreeInv'
<1>1. PICK r \in PlaceRow :
         /\ place' = [place EXCEPT ![i] = r] /\ place'[i] = r
         /\ r.status = IF place[i].status = "live" THEN "trash" ELSE place[i].status
         /\ r.parent = place[i].parent /\ r.saved = place[i].saved /\ r.inherit = place[i].inherit
  BY TrashedRow
<1>2. ~raced' => Tree /\ Children(i) \cap Status("live") = {}
  <2>1. ~raced' => Tree /\ (Sound("remove", i, errand[m].to) \/ Sound("delete", i, errand[m].to))
    BY Before DEF Sound
  <2> QED
    BY <2>1, SoundIs
<1>3. r.status # "live"
  BY <1>1
<1>4. ~raced' => Tree'
  BY <1>1, <1>2, <1>3, RowDropped
<1>5. ASSUME ~raced', i \notin clashed' PROVE Settled(i)'
  <2>1. WorkedOn(i, errand[m])
    BY <1>5, Before
  <2>2. Removed(i, errand[m]) /\ errand[m].op = "delete"
    BY <2>1 DEF WorkedOn, Created, Removed, Flagged, Moved, AtStep
  <2>3. Agrees(i) /\ place[i].status = "live"
    BY <2>2 DEF Removed
  <2>4. Heirs(i)' = Heirs(i)
    BY DEF Heirs
  <2>5. place'[i].status = "trash"
    BY <1>1, <2>3
  <2>6. Agrees(i)'
    BY <1>1, <2>3, <2>4 DEF Agrees
  <2> QED
    BY <2>5, <2>6 DEF Settled
<1>6. r.status = "gone" => place[i].status = "gone"
  BY <1>1
<1>7. r.parent = Root \/ r.parent = place[i].parent \/ place[r.parent].status # "gone"
  BY <1>1
<1>8. place' = place \/ place' = [place EXCEPT ![i] = r]
  BY <1>1
<1>9. errand[m].item \in {i}
  OBVIOUS
<1>10. Fault \/ Unfailing
  OBVIOUS
<1> QED
  BY <1>4, <1>5, <1>6, <1>7, <1>8, <1>9, <1>10, RowLeaves

LEMMA RemoveCreatedStep ==
  ASSUME TreeInv, NEW m \in Mover, Record(m), RemoveCreated(m)
  PROVE  TreeInv'
<1>1. AtStep(m, "remove") /\ ~AtStep(m, "idle") /\ Leave(m) /\ parents' = parents /\ Unfailing
  BY DEF RemoveCreated, AtStep
<1>2. PICK i \in Folder : errand[m].item = i
  BY <1>1, UnderWay
<1>3. errand[m].op = "create"
  BY <1>1, UnderWay DEF ErrandOK, AtStep
<1>4. place' = [place EXCEPT ![i].status = IF @ = "live" THEN "trash" ELSE @]
  BY <1>2 DEF RemoveCreated
<1> QED
  BY <1>1, <1>2, <1>3, <1>4, TrashStep

LEMMA SoftDeleteStep ==
  ASSUME TreeInv, NEW m \in Mover, Record(m), SoftDelete(m)
  PROVE  TreeInv'
<1>1. AtStep(m, "row") /\ ~AtStep(m, "idle") /\ errand[m].op = "delete" /\ Leave(m)
      /\ parents' = parents /\ Unfailing
  BY DEF SoftDelete, AtRow, AtStep
<1>2. PICK i \in Folder : errand[m].item = i
  BY <1>1, UnderWay
<1>3. place' = [place EXCEPT ![i].status = IF @ = "live" THEN "trash" ELSE @]
  BY <1>2 DEF SoftDelete
<1> QED
  BY <1>1, <1>2, <1>3, TrashStep

(* A request that could not write its row turns to its tuples.             *)
LEMMA RowUndo ==
  ASSUME TreeInv, NEW m \in Mover, Record(m), Fault \/ Unfailing, parents' = parents,
         AtStep(m, "row"), errand[m].op \in {"move", "restore"}, Proceed(m, "undo"),
         NEW i \in Folder, errand[m].item \in {i}, NEW r \in PlaceRow,
         r.status = "gone" => place[i].status = "gone",
         r.parent = Root \/ r.parent = place[i].parent \/ place[r.parent].status # "gone",
         place' = place \/ place' = [place EXCEPT ![i] = r],
         ~raced' => Tree',
         ~raced' /\ i \notin clashed' => place' = place
  PROVE  TreeInv'
<1>1. PICK e \in ErrandRow :
         /\ errand' = [errand EXCEPT ![m] = e]
         /\ e.at = "undo" /\ e.op = errand[m].op /\ e.item = errand[m].item
         /\ e.from = errand[m].from /\ e.to = errand[m].to
  BY Proceeds
<1>2. ErrandOK(e) /\ ~Looked(e)
  BY <1>1 DEF ErrandOK, Looked
<1>3. ASSUME ~raced', i \notin clashed' PROVE WorkedOn(i, e)'
  <2>1. WorkedOn(i, errand[m])
    BY <1>3, Before
  <2>2. Moved(i, errand[m]) /\ errand[m].at = "row"
    BY <2>1 DEF WorkedOn, Created, Removed, Flagged, AtStep
  <2>3. Heirs(i)' = Heirs(i) /\ place' = place
    BY <1>3 DEF Heirs
  <2>4. Heirs(i) \subseteq {errand[m].to, errand[m].from}
    BY <2>2 DEF Moved, Settled, Agrees
  <2>5. Moved(i, e)'
    BY <1>1, <2>2, <2>3, <2>4 DEF Moved
  <2> QED
    BY <2>5 DEF WorkedOn
<1>4. {errand[m].item, e.item} \subseteq {i, Root}
  BY <1>1
<1>5. errand[m].item = i \/ e.item = i
  BY <1>1
<1>6. errand' = [errand EXCEPT ![m] = e]
  BY <1>1
<1>7. ~raced' /\ Looked(e) => e.sure = TRUE
  BY <1>2
<1>8. ~raced' /\ i \notin clashed' /\ e.item = i => WorkedOn(i, e)'
  BY <1>3
<1>9. ~raced' /\ i \notin clashed' /\ e.item # i => Settled(i)'
  BY <1>1
<1> QED
  BY <1>2, <1>4, <1>5, <1>7, <1>8, <1>9, <1>6, RowStep

LEMMA UpdatePlaceStep ==
  ASSUME TreeInv, NEW m \in Mover, Record(m), UpdatePlace(m)
  PROVE  TreeInv'
<1>1. /\ AtStep(m, "row") /\ ~AtStep(m, "idle") /\ errand[m].at = "row" /\ errand[m].op = "move"
      /\ parents' = parents
  BY DEF UpdatePlace, AtRow, AtStep
<1>2. PICK i \in Folder, f \in Folder \cup {Root} : errand[m].item = i /\ errand[m].to = f
  BY <1>1, UnderWay
<1>3. PICK on \in BOOLEAN : on = (f # Root)
  OBVIOUS
<1>4. PICK r \in PlaceRow :
         /\ [place EXCEPT ![i].parent = f, ![i].inherit = on] = [place EXCEPT ![i] = r]
         /\ r.status = place[i].status /\ r.parent = f /\ r.saved = place[i].saved
         /\ r.inherit = on
  <2> DEFINE d == [place[i] EXCEPT !.parent = f, !.inherit = on]
  <2>1. place[i] \in PlaceRow /\ place \in [Folder -> PlaceRow]
    BY TreeFields
  <2>2. [place EXCEPT ![i].parent = f, ![i].inherit = on] = [place EXCEPT ![i] = d]
    BY <2>1
  <2>3. d \in PlaceRow /\ d.status = place[i].status /\ d.parent = f /\ d.saved = place[i].saved
    BY <2>1 DEF PlaceRow
  <2>4. d.inherit = on
    BY <2>1 DEF PlaceRow
  <2> HIDE DEF d
  <2> QED
    BY <2>2, <2>3, <2>4
<1> DEFINE can == i \in Status("live") /\ f \notin Status("gone")
<1>5. [place EXCEPT ![i].parent = f, ![i].inherit = f # Root] = [place EXCEPT ![i] = r]
  BY <1>3, <1>4
<1>6. \/ can /\ place' = [place EXCEPT ![i] = r] /\ Leave(m) /\ Unfailing
      \/ ~can /\ place' = place /\ Proceed(m, "undo") /\ Unfailing
      \/ can /\ Fault /\ (place' = place \/ place' = [place EXCEPT ![i] = r]) /\ Proceed(m, "undo")
  BY <1>2, <1>5 DEF UpdatePlace, TreeFails
<1>7. ASSUME ~raced' PROVE Tree /\ Present(f) /\ (f = Root \/ f \notin Below(i))
  <2>1. Tree /\ Sound("move", i, f)
    BY <1>1, <1>2, <1>7, Before
  <2> QED
    BY <2>1, SoundIs
<1>8. ASSUME ~raced', i \notin clashed'
      PROVE  /\ ~Spoilt(m) /\ place[i].status = "live" /\ place[i].saved = Root
             /\ Heirs(i) = {f} \ {Root}
  <2>1. WorkedOn(i, errand[m]) /\ ~Spoilt(m)
    BY <1>2, <1>8, Before
  <2>2. Moved(i, errand[m])
    BY <1>1, <2>1 DEF WorkedOn, Created, Removed, Flagged
  <2> QED
    BY <1>1, <1>2, <2>1, <2>2 DEF Moved
<1>9. ~raced' => Tree'
  <2>1. ~raced' /\ place' = place => Tree'
    BY <1>7, SamePlace
  <2>2. ASSUME ~raced', can, place' = [place EXCEPT ![i] = r] PROVE Tree'
    <3>1. r.status = "live"
      BY <1>4, <2>2 DEF Status
    <3> QED
      BY <1>4, <1>7, <2>2, <3>1, RowPlaced
  <2> QED
    BY <1>6, <2>1, <2>2
<1>10. r.status = "gone" => place[i].status = "gone"
  BY <1>4
<1>11. CASE can
  <2>1. r.parent = Root \/ r.parent = place[i].parent \/ place[r.parent].status # "gone"
    BY <1>4, <1>11 DEF Status
  <2>2. CASE Leave(m) /\ place' = [place EXCEPT ![i] = r] /\ Unfailing
    <3>1. ASSUME ~raced', i \notin clashed' PROVE Settled(i)'
      <4>1. Heirs(i)' = Heirs(i)
        BY <1>1 DEF Heirs
      <4>2. place'[i] = r
        BY <2>2, TreeFields
      <4>3. r.inherit = TRUE => f # Root
        BY <1>3, <1>4
      <4>4. Agrees(i)'
        BY <1>4, <1>8, <3>1, <4>1, <4>2, <4>3 DEF Agrees
      <4> QED
        BY <1>4, <1>8, <3>1, <4>2, <4>4 DEF Settled
    <3>2. errand[m].item \in {i}
      BY <1>2
    <3> QED
      BY <1>1, <1>9, <1>10, <2>1, <2>2, <3>1, <3>2, RowLeaves
  <2>3. CASE /\ Fault /\ (place' = place \/ place' = [place EXCEPT ![i] = r])
             /\ Proceed(m, "undo")
    <3>1. ~raced' /\ i \notin clashed' => place' = place
      BY <1>8, <2>3, Failed
    <3>2. errand[m].item \in {i}
      BY <1>2
    <3> QED
      BY <1>1, <1>9, <1>10, <2>1, <2>3, <3>1, <3>2, RowUndo
  <2> QED
    BY <1>6, <1>11, <2>2, <2>3
<1>12. CASE ~can
  <2>1. place' = place /\ Proceed(m, "undo") /\ Unfailing
    BY <1>6, <1>12
  <2>2. PICK s \in PlaceRow : s = place[i]
    BY TreeFields
  <2>3. /\ s.status = "gone" => place[i].status = "gone"
        /\ s.parent = place[i].parent
    BY <2>2
  <2>4. errand[m].item \in {i}
    BY <1>2
  <2> QED
    BY <1>1, <1>9, <2>1, <2>3, <2>4, RowUndo
<1> QED
  BY <1>11, <1>12

LEMMA UpdateInheritanceStep ==
  ASSUME TreeInv, NEW m \in Mover, Record(m), UpdateInheritance(m)
  PROVE  TreeInv'
<1>1. /\ AtStep(m, "row") /\ ~AtStep(m, "idle") /\ errand[m].at = "row" /\ errand[m].op = "inherit"
      /\ parents' = parents /\ Leave(m)
  BY DEF UpdateInheritance, AtRow, AtStep
<1>2. PICK i \in Folder, f \in Folder \cup {Root} : errand[m].item = i /\ errand[m].to = f
  BY <1>1, UnderWay
<1>3. PICK on \in BOOLEAN : on = errand[m].on
  BY <1>1, UnderWay DEF ErrandRow
<1>4. PICK r \in PlaceRow :
         /\ [place EXCEPT ![i].parent = f, ![i].inherit = on] = [place EXCEPT ![i] = r]
         /\ r.status = place[i].status /\ r.parent = f /\ r.saved = place[i].saved
         /\ r.inherit = on
  <2> DEFINE d == [place[i] EXCEPT !.parent = f, !.inherit = on]
  <2>1. place[i] \in PlaceRow /\ place \in [Folder -> PlaceRow]
    BY TreeFields
  <2>2. [place EXCEPT ![i].parent = f, ![i].inherit = on] = [place EXCEPT ![i] = d]
    BY <2>1
  <2>3. d \in PlaceRow /\ d.status = place[i].status /\ d.parent = f /\ d.saved = place[i].saved
    BY <2>1 DEF PlaceRow
  <2>4. d.inherit = on
    BY <2>1 DEF PlaceRow
  <2> HIDE DEF d
  <2> QED
    BY <2>2, <2>3, <2>4
<1> DEFINE can == i \in Status("live") /\ Present(f)
<1>5. [place EXCEPT ![i].parent = f, ![i].inherit = errand[m].on] = [place EXCEPT ![i] = r]
  BY <1>3, <1>4
<1>6. \/ can /\ place' = [place EXCEPT ![i] = r] /\ Unfailing
      \/ ~can /\ place' = place /\ Unfailing
      \/ can /\ Fault /\ (place' = place \/ place' = [place EXCEPT ![i] = r])
  BY <1>2, <1>5 DEF UpdateInheritance, TreeFails
<1>7. ASSUME ~raced' PROVE Tree /\ Present(f) /\ (f = Root \/ f \notin Below(i))
  <2>1. Tree /\ Sound("inherit", i, f)
    BY <1>1, <1>2, <1>7, Before
  <2> QED
    BY <2>1, SoundIs
<1>8. ASSUME ~raced', i \notin clashed'
      PROVE  /\ ~Spoilt(m) /\ place[i].status = "live" /\ place[i].saved = Root
             /\ f = place[i].parent /\ Heirs(i) \subseteq {f} /\ (on = TRUE => f \in Heirs(i))
  <2>1. WorkedOn(i, errand[m]) /\ ~Spoilt(m)
    BY <1>2, <1>8, Before
  <2>2. Flagged(i, errand[m])
    BY <1>1, <2>1 DEF WorkedOn, Created, Removed, Moved
  <2> QED
    BY <1>1, <1>2, <1>3, <2>1, <2>2 DEF Flagged
<1>9. ~raced' => Tree'
  <2>1. ~raced' /\ place' = place => Tree'
    BY <1>7, SamePlace
  <2>2. ASSUME ~raced', can, place' = [place EXCEPT ![i] = r] PROVE Tree'
    <3>1. r.status = "live"
      BY <1>4, <2>2 DEF Status
    <3> QED
      BY <1>4, <1>7, <2>2, <3>1, RowPlaced
  <2> QED
    BY <1>6, <2>1, <2>2
<1>10. ASSUME ~raced', i \notin clashed' PROVE Settled(i)'
  <2>1. can
    BY <1>7, <1>8, <1>10 DEF Status
  <2>2. ~Fault
    BY <1>1, <1>8, <1>10, Failed, Leaves DEF AtStep
  <2>3. place' = [place EXCEPT ![i] = r]
    BY <1>6, <2>1, <2>2
  <2>4. place'[i] = r
    BY <2>3, TreeFields
  <2>5. Heirs(i)' = Heirs(i)
    BY <1>1 DEF Heirs
  <2>6. Agrees(i)'
    BY <1>4, <1>8, <1>10, <2>4, <2>5 DEF Agrees
  <2> QED
    BY <1>4, <1>8, <1>10, <2>4, <2>6 DEF Settled
<1>11. errand[m].item \in {i} /\ (Fault \/ Unfailing)
  BY <1>2, <1>6
<1>12. CASE can
  <2>1. r.parent = Root \/ r.parent = place[i].parent \/ place[r.parent].status # "gone"
    BY <1>4, <1>12 DEF Status, Present
  <2>2. r.status = "gone" => place[i].status = "gone"
    BY <1>4
  <2>3. place' = place \/ place' = [place EXCEPT ![i] = r]
    BY <1>6
  <2> QED
    BY <1>1, <1>9, <1>10, <1>11, <2>1, <2>2, <2>3, RowLeaves
<1>13. CASE ~can
  <2>1. place' = place
    BY <1>6, <1>13
  <2>2. PICK s \in PlaceRow : s = place[i]
    BY TreeFields
  <2>3. /\ s.status = "gone" => place[i].status = "gone"
        /\ s.parent = place[i].parent
    BY <2>2
  <2> QED
    BY <1>1, <1>9, <1>10, <1>11, <2>1, <2>3, RowLeaves
<1> QED
  BY <1>12, <1>13

LEMMA RestoreItemStep ==
  ASSUME TreeInv, NEW m \in Mover, Record(m), RestoreItem(m)
  PROVE  TreeInv'
<1>1. /\ AtStep(m, "row") /\ ~AtStep(m, "idle") /\ errand[m].at = "row" /\ errand[m].op = "restore"
      /\ parents' = parents
  BY DEF RestoreItem, AtRow, AtStep
<1>2. PICK i \in Folder, f \in Folder \cup {Root} : errand[m].item = i /\ errand[m].to = f
  BY <1>1, UnderWay
<1>3. PICK r \in PlaceRow :
         /\ [place EXCEPT ![i] = [@ EXCEPT !.status = "live", !.saved = Root, !.parent = f]]
            = [place EXCEPT ![i] = r]
         /\ r.status = "live" /\ r.parent = f /\ r.saved = Root /\ r.inherit = place[i].inherit
  <2> DEFINE d == [place[i] EXCEPT !.status = "live", !.saved = Root, !.parent = f]
  <2>1. place[i] \in PlaceRow /\ place \in [Folder -> PlaceRow]
    BY TreeFields
  <2>2. [place EXCEPT ![i] = [@ EXCEPT !.status = "live", !.saved = Root, !.parent = f]]
        = [place EXCEPT ![i] = d]
    BY <2>1
  <2>3. d \in PlaceRow /\ d.status = "live" /\ d.parent = f /\ d.saved = Root /\ d.inherit = place[i].inherit
    BY <2>1 DEF PlaceRow
  <2> HIDE DEF d
  <2> QED
    BY <2>2, <2>3
<1> DEFINE can == i \in Status("trash") /\ f \notin Status("gone")
<1>4. \/ can /\ place' = [place EXCEPT ![i] = r] /\ Leave(m) /\ Unfailing
      \/ ~can /\ place' = place /\ Unfailing /\ (Leave(m) \/ Proceed(m, "undo"))
      \/ /\ can /\ Fault /\ (place' = place \/ place' = [place EXCEPT ![i] = r])
         /\ Leave(m) \/ Proceed(m, "undo")
  BY <1>2, <1>3 DEF RestoreItem, TreeFails
<1>5. ASSUME ~raced' PROVE Tree /\ Present(f) /\ (f = Root \/ f \notin Below(i))
  <2>1. Tree /\ Sound("restore", i, f)
    BY <1>1, <1>2, <1>5, Before
  <2> QED
    BY <2>1, SoundIs
<1>6. ASSUME ~raced', i \notin clashed'
      PROVE  /\ ~Spoilt(m) /\ place[i].status = "trash" /\ can
             /\ Heirs(i) \subseteq {f} /\ (place[i].inherit = TRUE => f = Root \/ f \in Heirs(i))
  <2>1. WorkedOn(i, errand[m]) /\ ~Spoilt(m)
    BY <1>2, <1>6, Before
  <2>2. Moved(i, errand[m])
    BY <1>1, <2>1 DEF WorkedOn, Created, Removed, Flagged
  <2>3. place[i].status = "trash"
    BY <1>1, <2>2 DEF Moved
  <2>4. can
    BY <1>5, <1>6, <2>3, DriveTreeAssumption DEF Status, Present
  <2>5. Heirs(i) = {f} \ {Root} \/ (f = place[i].parent /\ Settled(i))
    BY <1>1, <1>2, <2>2 DEF Moved
  <2>6. Heirs(i) \subseteq {f} /\ (place[i].inherit = TRUE => f = Root \/ f \in Heirs(i))
    BY <2>5 DEF Settled, Agrees
  <2> QED
    BY <2>1, <2>3, <2>4, <2>6
<1>7. ~raced' => Tree'
  <2>1. ~raced' /\ place' = place => Tree'
    BY <1>5, SamePlace
  <2>2. ASSUME ~raced', place' = [place EXCEPT ![i] = r] PROVE Tree'
    BY <1>3, <1>5, <2>2, RowPlaced
  <2> QED
    BY <1>4, <2>1, <2>2
<1>8. errand[m].item \in {i} /\ (Fault \/ Unfailing)
  BY <1>2, <1>4
<1>9. PICK s \in PlaceRow :
         /\ s.status = "gone" => place[i].status = "gone"
         /\ s.parent = Root \/ s.parent = place[i].parent \/ place[s.parent].status # "gone"
         /\ place' = place \/ place' = [place EXCEPT ![i] = s]
  <2>1. CASE can
    <3>1. r.parent = Root \/ place[r.parent].status # "gone"
      BY <1>3, <2>1 DEF Status
    <3> QED
      BY <1>3, <1>4, <3>1
  <2>2. CASE ~can
    <3>1. place' = place
      BY <1>4, <2>2
    <3>2. place[i] \in PlaceRow
      BY TreeFields
    <3> QED
      BY <3>1, <3>2
  <2> QED
    BY <2>1, <2>2
<1>10. CASE Leave(m)
  <2>1. ASSUME ~raced', i \notin clashed' PROVE Settled(i)'
    <3>1. ~Fault
      BY <1>1, <1>6, <1>10, <2>1, Failed, Leaves DEF AtStep
    <3>2. place' = [place EXCEPT ![i] = r]
      BY <1>4, <1>6, <2>1, <3>1
    <3>3. place'[i] = r
      BY <3>2, TreeFields
    <3>4. Heirs(i)' = Heirs(i)
      BY <1>1 DEF Heirs
    <3>5. Agrees(i)'
      BY <1>3, <1>6, <2>1, <3>3, <3>4 DEF Agrees
    <3> QED
      BY <1>3, <3>3, <3>5 DEF Settled
  <2> QED
    BY <1>1, <1>7, <1>8, <1>9, <1>10, <2>1, RowLeaves
<1>11. CASE Proceed(m, "undo") /\ (Fault \/ ~can)
  <2>1. ~raced' /\ i \notin clashed' => place' = place
    BY <1>6, <1>11, Failed
  <2> QED
    BY <1>1, <1>7, <1>8, <1>9, <1>11, <2>1, RowUndo
<1> QED
  BY <1>4, <1>10, <1>11

(* ON DELETE SET NULL: no row keeps the folder that is gone as its parent. *)
LEMMA DeleteFolderRowStep ==
  ASSUME TreeInv, NEW m \in Mover, Record(m), DeleteFolderRow(m)
  PROVE  TreeInv'
<1>1. /\ AtStep(m, "row") /\ ~AtStep(m, "idle") /\ errand[m].at = "row" /\ errand[m].op = "purge"
      /\ parents' = parents /\ Leave(m) /\ Unfailing
  BY DEF DeleteFolderRow, AtRow, AtStep
<1>2. PICK i \in Folder : errand[m].item = i
  BY <1>1, UnderWay
<1>3. ASSUME ~raced' PROVE Tree /\ Children(i) = {}
  <2>1. Tree /\ Sound("purge", i, errand[m].to)
    BY <1>1, <1>2, <1>3, Before
  <2> QED
    BY <2>1, SoundIs
<1>4. ASSUME ~raced', i \notin clashed' PROVE place[i].status = "trash" /\ Settled(i)
  <2>1. WorkedOn(i, errand[m])
    BY <1>2, <1>4, Before
  <2> QED
    BY <1>1, <2>1 DEF WorkedOn, Created, Removed, Flagged, Moved
<1>5. CASE place' = place
  <2>1. ~raced' => Tree'
    BY <1>3, <1>5, SamePlace
  <2>2. ~raced' /\ i \notin clashed' => Settled(i)'
    BY <1>1, <1>4, <1>5, SamePlace
  <2>3. PICK s \in PlaceRow : s = place[i]
    BY TreeFields
  <2>4. /\ s.status = "gone" => place[i].status = "gone"
        /\ s.parent = place[i].parent
    BY <2>3
  <2>5. errand[m].item \in {i}
    BY <1>2
  <2> QED
    BY <1>1, <1>5, <2>1, <2>2, <2>4, <2>5, RowLeaves
<1>6. CASE /\ place[i].status = "trash"
           /\ place' = [j \in Folder |->
                [place[j] EXCEPT !.status = IF j = i THEN "gone" ELSE @,
                                 !.parent = IF @ = i THEN Root ELSE @,
                                 !.saved = IF @ = i THEN Root ELSE @]]
  <2>1. \A j \in Folder :
           /\ place'[j] \in PlaceRow
           /\ place'[j].status = IF j = i THEN "gone" ELSE place[j].status
           /\ place'[j].parent = IF place[j].parent = i THEN Root ELSE place[j].parent
           /\ place'[j].saved = IF place[j].saved = i THEN Root ELSE place[j].saved
           /\ place'[j].inherit = place[j].inherit
    BY <1>6, TreeFields DEF PlaceRow
  <2>2. place' \in [Folder -> PlaceRow]
    BY <1>6, <2>1
  <2>3. \A x, y \in Folder : place'[x].status = "gone" => place'[y].parent # x
    BY <2>1, DriveTreeAssumption DEF TreeInv, TreeTypeOK
  <2>4. ASSUME ~raced' PROVE \A j \in Folder : place'[j].parent = place[j].parent
    BY <1>3, <2>1, <2>4 DEF Children
  <2>5. ~raced' => \A j \in Folder \ {i} :
           /\ place'[j].status = place[j].status /\ place'[j].parent = place[j].parent
           /\ place'[j].inherit = place[j].inherit
           /\ place'[j].saved \in {Root, place[j].saved}
    BY <2>1, <2>4
  <2>6. ASSUME ~raced' PROVE Tree'
    <3>1. Status("live")' = Status("live")
      <4>1. place[i].status = "trash"
        BY <1>6
      <4>2. \A j \in Folder : place'[j].status = "live" <=> place[j].status = "live"
        BY <2>1, <4>1
      <4> QED
        BY <4>2 DEF Status
    <3>2. \A j \in Status("live")' : place'[j].parent = place[j].parent
      BY <2>4, <2>6 DEF Status
    <3> QED
      BY <1>3, <2>6, <3>1, <3>2, TreeDrop
  <2>7. ASSUME ~raced', i \notin clashed' PROVE Settled(i)'
    <3>1. Heirs(i)' = Heirs(i)
      BY <1>1 DEF Heirs
    <3>2. /\ place'[i].status = "gone" /\ place'[i].parent = place[i].parent
          /\ place'[i].inherit = place[i].inherit /\ place'[i].saved \in {Root, place[i].saved}
      BY <2>1, <2>4, <2>7
    <3>3. Agrees(i)'
      BY <1>4, <2>7, <3>1, <3>2 DEF Settled, Agrees
    <3> QED
      BY <3>2, <3>3 DEF Settled
  <2>8. PICK e \in ErrandRow : e = NoErrand /\ ErrandOK(e) /\ ~Looked(e) /\ e.item = Root
    BY NoErrandRow
  <2>9. errand' = [errand EXCEPT ![m] = e]
    BY <1>1, <2>8, Leaves
  <2>10. ErrandOK(e) /\ e.item # i
    BY <2>8, DriveTreeAssumption
  <2>11. {errand[m].item, e.item} \subseteq {i, Root}
    BY <1>2, <2>8
  <2>12. errand[m].item = i \/ e.item = i
    BY <1>2
  <2>13. ~raced' /\ Looked(e) => e.sure = TRUE
    BY <2>8
  <2>14. ~raced' /\ i \notin clashed' /\ e.item = i => WorkedOn(i, e)'
    BY <2>10
  <2>15. ~raced' /\ i \notin clashed' /\ e.item # i => Settled(i)'
    BY <2>7
  <2>16. \A j \in Folder \ {i} : Heirs(j)' = Heirs(j)
    BY <1>1 DEF Heirs
  <2>17. parents' \subseteq Folder \X Folder /\ (Fault \/ Unfailing)
    BY <1>1, TreeFields
  <2> QED
    BY <2>2, <2>3, <2>5, <2>6, <2>9, <2>10, <2>11, <2>12, <2>13, <2>14, <2>15, <2>16, <2>17, ErrandStep
<1> QED
  BY <1>2, <1>5, <1>6 DEF DeleteFolderRow, Status

LEMMA TreeStep ==
  ASSUME TreeInv, NEW m \in Mover, MoverStep(m), Record(m)
  PROVE  TreeInv'
<1>1. Root \in Folder \cup {Root} /\ TRUE \in BOOLEAN /\ FALSE \in BOOLEAN
  OBVIOUS
<1>2. CASE \E i \in Folder, f \in Folder \cup {Root} :
              StartCreate(m, i, f) \/ StartMove(m, i, f) \/ StartRestore(m, i, f, TRUE)
  BY <1>1, <1>2, StartCreateStep, StartMoveStep, StartRestoreStep
<1>3. CASE \E i \in Folder : StartDelete(m, i) \/ StartRestore(m, i, Root, FALSE) \/ StartPurge(m, i)
  BY <1>1, <1>3, StartDeleteStep, StartRestoreStep, StartPurgeStep
<1>4. CASE \E i \in Folder, on \in BOOLEAN : StartInherit(m, i, on)
  BY <1>4, StartInheritStep
<1>5. CASE (errand[m].op = "move" /\ CheckTarget(m)) \/ SaveParent(m)
  BY <1>5, CheckTargetStep, SaveParentStep
<1>6. CASE InsertItem(m) \/ RemoveCreated(m) \/ UpdatePlace(m) \/ UpdateInheritance(m)
  BY <1>6, InsertItemStep, RemoveCreatedStep, UpdatePlaceStep, UpdateInheritanceStep
<1>7. CASE SoftDelete(m) \/ RestoreItem(m) \/ DeleteFolderRow(m)
  BY <1>7, SoftDeleteStep, RestoreItemStep, DeleteFolderRowStep
<1>8. CASE RemoveOld(m) \/ WriteNew(m) \/ RemoveNew(m) \/ RewriteOld(m) \/ StopErrand(m)
  BY <1>8, RemoveOldStep, WriteNewStep, RemoveNewStep, RewriteOldStep, StopErrandStep
<1> QED
  BY <1>2, <1>3, <1>4, <1>5, <1>6, <1>7, <1>8 DEF MoverStep

LEMMA TreeStutter == TreeInv /\ UNCHANGED <<treeVars, faults>> => TreeInv'
<1> SUFFICES ASSUME TreeInv, UNCHANGED <<treeVars, faults>> PROVE TreeInv'
  OBVIOUS
<1>1. /\ place' = place /\ parents' = parents /\ errand' = errand /\ raced' = raced
      /\ clashed' = clashed /\ faults' = faults
  BY DEF treeVars
<1>2. Tree' <=> Tree
  BY <1>1, SamePlace
<1>3. \A i \in Folder : FolderInv(i)' <=> FolderInv(i)
  BY <1>1 DEF FolderInv, WorkedOn, Created, Removed, Flagged, Moved, Settled, Agrees, Heirs
<1>4. OrderlyInv' <=> OrderlyInv
  BY <1>1, <1>2, <1>3 DEF OrderlyInv
<1> QED
  BY <1>1, <1>4 DEF TreeInv, TreeTypeOK, FaultsTypeOK

LEMMA TreeImplies == TreeInv => FoldersAgree
<1> SUFFICES ASSUME TreeInv, ~raced PROVE FoldersAgree
  BY DEF FoldersAgree, TreeStaysTree, TuplesFollowPlaces
<1>1. OrderlyInv
  BY DEF TreeInv
<1>2. TreeStaysTree
  BY <1>1 DEF OrderlyInv, Tree, TreeStaysTree
<1>3. ASSUME NEW i \in Folder \ clashed, InHandOf(i) = {}
      PROVE  /\ \A f \in Folder : <<i, f>> \in parents => place[i].parent = f
             /\ i \in Status("live") /\ place[i].inherit => Tuple(i, place[i].parent) \subseteq parents
  <2>1. Settled(i)
    BY <1>1, <1>3 DEF OrderlyInv, FolderInv, InHandOf
  <2>2. \A f \in Folder : <<i, f>> \in parents => place[i].parent = f
    BY <2>1 DEF Settled, Agrees, Heirs
  <2>3. place[i].inherit => place[i].parent = Root \/ place[i].parent \in Heirs(i)
    <3>1. place[i].inherit \in BOOLEAN
      BY TreeFields
    <3> QED
      BY <2>1, <3>1 DEF Settled, Agrees
  <2> QED
    BY <2>2, <2>3 DEF Tuple, Heirs
<1>4. TuplesFollowPlaces
  BY <1>3 DEF TuplesFollowPlaces
<1> QED
  BY <1>2, <1>4 DEF FoldersAgree

(* For any number of requests and faults, the folders stay a tree, and a   *)
(* folder inherits the access of the one it is in, and of no other, as its *)
(* row says: each request looks first and writes later, and undoes what    *)
(* it did when it fails.                                                   *)
THEOREM AccessFollowsTree == TreeSpec => []FoldersAgree
<1>1. TreeInit /\ FaultsInit => TreeInv
  BY TreeInvStart, FaultsAssumption DEF FaultsInit, FaultsTypeOK
<1>2. TreeInv /\ [TreeNext]_<<treeVars, faults>> => TreeInv'
  BY TreeStep, TreeStutter DEF TreeNext
<1> QED
  BY <1>1, <1>2, TreeImplies, PTL DEF TreeSpec

-----------------------------------------------------------------------------
(* The file.                                                               *)

(* TypeOK in parts: the row, the keys, the requests and purgers.           *)
RowType ==
    /\ stat \in {"none", "active", "deleted"}
    /\ lock \in {"none", "fresh", "stale"}
    /\ faults \in 0..MaxFaults

FlagType == held \in BOOLEAN /\ overdue \in BOOLEAN /\ purged \in BOOLEAN

KeyType ==
    /\ puts \in 0..MaxKeys
    /\ key \in 0..puts
    /\ stored \subseteq 1..puts /\ doomed \subseteq 1..puts

ActorType == req \in [Request -> Req] /\ job \in [Purger -> Sweep]

(* The request has stored a body that no row names yet.                    *)
Pending(r) == req[r].pc = "write" /\ req[r].op \in Creates \cup Writes

(* A file has a key, a request that read the file has the key it read, and *)
(* only a file in the trash is purged.                                     *)
KeyInv ==
    /\ stat # "none" => key # 0
    /\ purged => stat = "deleted"
    /\ held => stat # "none"
    /\ \A r \in Request :
          /\ req[r].pc # "idle" /\ req[r].op \notin Creates => req[r].snap # 0 /\ stat # "none"
          /\ Pending(r) \/ req[r].pc = "tuples" => req[r].fresh # 0

(* While the file is being made no other request is under way.             *)
CreateInv ==
    \A r \in Request :
       /\ req[r].pc = "check" => req[r].op \notin Creates
       /\ req[r].pc = "erase" => req[r].op = "permanent"
       /\ req[r].pc \in {"put", "write"} /\ req[r].op \in Creates =>
             stat = "none" /\ \A q \in Request \ {r} : req[q].pc = "idle"

(* A pending body is in storage and belongs to its request alone.          *)
PendingInv ==
    \A r \in Request : Pending(r) =>
       /\ req[r].fresh \in stored /\ req[r].fresh \notin doomed /\ req[r].fresh # key
       /\ \A q \in Request : req[q].snap # req[r].fresh
       /\ \A q \in Request \ {r} : req[q].fresh # req[r].fresh

(* What is about to be deleted is not the body of the row, or is doomed.   *)
DropInv ==
    /\ \A r \in Request :
          /\ req[r].pc = "drop" => req[r].snap # key
          /\ req[r].pc = "erase" => req[r].snap \in doomed
    /\ \A p \in Purger : job[p].pc = "erase" => job[p].key \in doomed

BodyInv == stat # "none" /\ key \notin doomed => key \in stored

(* A request that a hold came too late for is marked.                      *)
EarlyInv ==
    held => \A r \in Request :
       req[r].pc \notin {"idle", "check"} =>
          req[r].early \/ (req[r].pc = "write" /\ req[r].op \in {"restore", "hold"})

IInv ==
    /\ RowType /\ FlagType /\ KeyType /\ ActorType
    /\ KeyInv /\ CreateInv /\ PendingInv /\ DropInv /\ BodyInv /\ EarlyInv

(* Before anything was asked for, and however many faults there have been. *)
FileAtRest ==
    /\ stat = "none" /\ key = 0 /\ lock = "none"
    /\ held = FALSE /\ overdue = FALSE /\ purged = FALSE
    /\ stored = {} /\ doomed = {}
    /\ req = [r \in Request |-> NoReq]
    /\ job = [p \in Purger |-> NoSweep]
    /\ puts = 0

USE DriveFileAssumption, FaultsAssumption DEF Fault, FaultsTypeOK, FaultsInit

LEMMA NoneFits == puts \in Nat => NoReq \in Req /\ NoSweep \in Sweep
BY DEF NoReq, NoSweep, Req, Sweep, Stage, AllOps, Creates

LEMMA AtRestIInv == FileAtRest /\ FaultsTypeOK => IInv
<1> SUFFICES ASSUME FileAtRest, FaultsTypeOK PROVE IInv
  OBVIOUS
<1> USE DEF FileAtRest
<1>0. FlagType
  BY DEF FlagType
<1>1. RowType
  BY DEF RowType
<1>2. KeyType /\ ActorType
  BY NoneFits DEF KeyType, ActorType
<1>3. KeyInv /\ CreateInv /\ PendingInv
  BY DEF NoReq, KeyInv, CreateInv, PendingInv, Pending
<1>4. DropInv /\ BodyInv /\ EarlyInv
  BY DEF NoReq, NoSweep, DropInv, BodyInv, EarlyInv
<1> QED BY <1>0, <1>1, <1>2, <1>3, <1>4 DEF IInv

LEMMA InitIInv == Init => IInv
  BY AtRestIInv DEF Init, FileAtRest

(* What moving a request, or a purger, to its next statement does.         *)
LEMMA GoEffect ==
    ASSUME KeyType, ActorType, NEW r \in Request, NEW stage \in Stage, Go(r, stage)
    PROVE  /\ req' \in [Request -> Req]
           /\ \A q \in Request \ {r} : req'[q] = req[q]
           /\ stage = "idle" => req'[r] = NoReq
           /\ stage # "idle" => req'[r] = [req[r] EXCEPT !.pc = stage]
<1>1. puts \in Nat
  BY DEF KeyType
<1>2. req' \in [Request -> Req]
  BY <1>1, NoneFits DEF ActorType, Go, Req
<1> QED BY <1>2 DEF ActorType, Go

LEMMA GoJobEffect ==
    ASSUME KeyType, ActorType, NEW p \in Purger,
           NEW stage \in {"idle", "erase", "mark", "release"}, GoJob(p, stage)
    PROVE  /\ job' \in [Purger -> Sweep]
           /\ \A q \in Purger \ {p} : job'[q] = job[q]
           /\ stage = "idle" => job'[p] = NoSweep
           /\ stage # "idle" => job'[p] = [job[p] EXCEPT !.pc = stage]
<1>1. puts \in Nat
  BY DEF KeyType
<1>2. job' \in [Purger -> Sweep]
  BY <1>1, NoneFits DEF ActorType, GoJob, Sweep
<1> QED BY <1>2 DEF ActorType, GoJob

(* A request that moves on, taking no new body into the row: it may put    *)
(* the file in the trash or back, and remove a body that is doomed, one    *)
(* that it replaced, or its own pending one.                               *)
Removable(r, k) ==
    \/ k \in doomed'
    \/ req[r].pc = "drop" /\ k = req[r].snap
    \/ Pending(r) /\ k = req[r].fresh

LEMMA MoveIInv ==
    ASSUME IInv, NEW r \in Request, NEW stage \in Stage, Go(r, stage),
           req[r].pc # "idle",
           UNCHANGED <<key, held, job, puts>>,
           RowType', FlagType',
           stat' = stat \/ {stat, stat'} \subseteq {"active", "deleted"},
           purged' => stat' = "deleted",
           doomed \subseteq doomed',
           doomed' \subseteq doomed \cup {req[r].snap, req[r].fresh},
           doomed' \subseteq 1..puts,
           stored' \subseteq stored,
           \A k \in stored \ stored' : Removable(r, k),
           stage # "idle" =>
              /\ stage \in {"put", "write", "discard", "erase"}
              /\ stage \in {"put", "write"} => req[r].op \notin Creates
              /\ stage = "write" => req[r].op \notin Writes
              /\ stage = "erase" => req[r].snap \in doomed' /\ req[r].op = "permanent"
              /\ req[r].pc \in {"check", "write"} => ~held
    PROVE  IInv'
<1>0. /\ KeyType /\ ActorType /\ KeyInv /\ CreateInv /\ PendingInv /\ DropInv
      /\ BodyInv /\ EarlyInv
  BY DEF IInv
<1>1. /\ req' \in [Request -> Req]
      /\ \A q \in Request \ {r} : req'[q] = req[q]
      /\ stage = "idle" => req'[r] = NoReq
      /\ stage # "idle" => req'[r] = [req[r] EXCEPT !.pc = stage]
  BY <1>0, GoEffect
<1>2. req[r] \in Req
  BY <1>0 DEF ActorType
<1>3. KeyType' /\ ActorType'
  BY <1>0, <1>1 DEF KeyType, ActorType, Sweep, Req
<1>4. KeyInv'
  BY <1>0, <1>1, <1>2 DEF Req, KeyInv, Pending, NoReq, Creates, Writes
<1>5. CreateInv'
  BY <1>0, <1>1, <1>2 DEF Req, CreateInv, NoReq, Creates
<1>6. ASSUME NEW q \in Request, Pending(q)'
      PROVE  q # r /\ Pending(q) /\ req'[q] = req[q]
  BY <1>1, <1>2, <1>6 DEF Req, Pending, NoReq, Creates, Writes
<1>7. PendingInv'
  <2> SUFFICES ASSUME NEW q \in Request, Pending(q)'
               PROVE  /\ req'[q].fresh \in stored' \ doomed' /\ req'[q].fresh # key'
                      /\ \A o \in Request : req'[o].snap # req'[q].fresh
                      /\ \A o \in Request \ {q} : req'[o].fresh # req'[q].fresh
    BY DEF PendingInv
  <2>1. q # r /\ Pending(q) /\ req'[q] = req[q] /\ req[q].fresh # 0
    BY <1>0, <1>6 DEF KeyInv
  <2>2. req[q].fresh \in stored' \ doomed'
    BY <1>0, <2>1 DEF PendingInv, Removable
  <2>3. req'[r].snap \in {req[r].snap, 0} /\ req'[r].fresh \in {req[r].fresh, 0}
    BY <1>1, <1>2 DEF Req, NoReq
  <2> QED BY <1>0, <1>1, <2>1, <2>2, <2>3 DEF PendingInv
<1>8. DropInv'
  BY <1>0, <1>1, <1>2 DEF Req, DropInv, NoReq
<1>9. BodyInv'
  BY <1>0 DEF BodyInv, DropInv, PendingInv, Removable
<1>10. EarlyInv'
  BY <1>0, <1>1, <1>2 DEF Req, EarlyInv, NoReq
<1> QED BY <1>3, <1>4, <1>5, <1>7, <1>8, <1>9, <1>10 DEF IInv

(* storage.Delete removes at most the body it names.                       *)
LEMMA DeleteEffect ==
    ASSUME RowType, NEW k, Delete(k)
    PROVE  /\ stored' \subseteq stored
           /\ \A x \in stored \ stored' : x = k
           /\ faults' \in 0..MaxFaults
BY DEF RowType, Delete

LEMMA CheckHoldIInv == ASSUME IInv, NEW r \in Request, CheckHold(r) PROVE IInv'
<1> USE DEF CheckHold, row
<1> DEFINE stage == IF held THEN "idle" ELSE Checked(r)
<1>1. RowType' /\ FlagType'
  BY DEF IInv, RowType, FlagType
<1>2. /\ stage \in Stage /\ stage \in {"idle", "write", "erase", "put"}
      /\ stage = "write" => req[r].op = "delete"
      /\ stage = "erase" => req[r].op = "permanent"
      /\ held => stage = "idle"
      /\ Go(r, stage)
  BY DEF Stage, Checked
<1>3. ~held /\ req[r].op = "permanent" => stage = "erase"
  BY DEF Checked
<1>4. req[r].op \notin Creates
  BY DEF IInv, CreateInv
<1>5. req[r].snap \in 1..puts
  BY <1>4 DEF IInv, KeyInv, KeyType, ActorType, Req
<1>6. doomed' = IF req[r].op = "permanent" /\ ~held THEN doomed \cup {req[r].snap} ELSE doomed
  OBVIOUS
<1>7. stage = "erase" => req[r].snap \in doomed'
  BY <1>2, <1>6, Zenon
<1>8. doomed \subseteq doomed' /\ doomed' \subseteq doomed \cup {req[r].snap}
  BY <1>6
<1>9. doomed' \subseteq 1..puts
  BY <1>5, <1>8 DEF IInv, KeyType
<1>10. purged' => stat' = "deleted"
  BY DEF IInv, KeyInv
<1> HIDE DEF stage
<1> QED BY <1>1, <1>2, <1>4, <1>7, <1>8, <1>9, <1>10, MoveIInv DEF Writes

LEMMA RefuseIInv == ASSUME IInv, NEW r \in Request, Refuse(r) PROVE IInv'
<1> USE DEF Refuse, row
<1>1. /\ stored' \subseteq stored /\ faults' \in 0..MaxFaults
      /\ \A k \in stored \ stored' : Removable(r, k)
  BY DeleteEffect DEF IInv, RowType, Pending, Removable
<1>2. RowType' /\ FlagType'
  BY <1>1 DEF IInv, RowType, FlagType
<1>3. "idle" \in Stage /\ doomed' \subseteq 1..puts /\ (purged' => stat' = "deleted")
  BY DEF Stage, IInv, KeyInv, KeyType
<1> QED BY <1>1, <1>2, <1>3, MoveIInv

LEMMA DropOldIInv == ASSUME IInv, NEW r \in Request, DropOld(r) PROVE IInv'
<1> USE DEF DropOld, row
<1>1. /\ stored' \subseteq stored /\ faults' \in 0..MaxFaults
      /\ \A k \in stored \ stored' : Removable(r, k)
  BY DeleteEffect DEF IInv, Removable
<1>2. RowType' /\ FlagType'
  BY <1>1 DEF IInv, RowType, FlagType
<1>3. "idle" \in Stage /\ doomed' \subseteq 1..puts /\ (purged' => stat' = "deleted")
  BY DEF Stage, IInv, KeyInv, KeyType
<1> QED BY <1>1, <1>2, <1>3, MoveIInv

LEMMA WriteTuplesIInv == ASSUME IInv, NEW r \in Request, WriteTuples(r) PROVE IInv'
<1> USE DEF WriteTuples, row
<1>1. /\ stored' \subseteq stored /\ faults' \in 0..MaxFaults
      /\ \A k \in stored \ stored' : Removable(r, k)
  BY DeleteEffect DEF IInv, RowType, Removable
<1>2. RowType' /\ FlagType'
  BY <1>1 DEF IInv, RowType, FlagType
<1>3. /\ "idle" \in Stage /\ "discard" \in Stage /\ (purged' => stat' = "deleted")
      /\ doomed \subseteq doomed' /\ doomed' \subseteq doomed \cup {req[r].fresh}
  BY DEF Stage, IInv, KeyInv
<1>4. doomed' \subseteq 1..puts
  <2>1. req[r].fresh \in 1..puts
    BY DEF IInv, KeyInv, KeyType, ActorType, Req
  <2> QED BY <1>3, <2>1 DEF IInv, KeyType
<1>5. /\ req[r].pc = "tuples" /\ UNCHANGED <<stat, key, held, job, puts>>
      /\ Go(r, "idle") \/ Go(r, "discard")
  OBVIOUS
<1> QED BY <1>1, <1>2, <1>3, <1>4, <1>5, MoveIInv

LEMMA EraseIInv == ASSUME IInv, NEW r \in Request, Erase(r) PROVE IInv'
<1> USE DEF Erase, row
<1>1. /\ stored' \subseteq stored /\ faults' \in 0..MaxFaults
      /\ \A k \in stored \ stored' : Removable(r, k)
  BY DeleteEffect DEF IInv, DropInv, Removable
<1>2. RowType' /\ FlagType'
  BY <1>1 DEF IInv, RowType, FlagType
<1>3. "write" \in Stage /\ doomed' \subseteq 1..puts /\ (purged' => stat' = "deleted")
  BY DEF Stage, IInv, KeyInv, KeyType
<1>4. req[r].op = "permanent"
  BY DEF IInv, CreateInv
<1> QED BY <1>1, <1>2, <1>3, <1>4, MoveIInv DEF Creates, Writes

LEMMA TrashIInv == ASSUME IInv, NEW r \in Request, Trash(r) PROVE IInv'
<1> USE DEF Trash, row
<1>1. RowType' /\ FlagType'
  BY DEF IInv, RowType, FlagType
<1>2. "idle" \in Stage /\ doomed' \subseteq 1..puts /\ (purged' => stat' = "deleted")
  BY DEF Stage, IInv, KeyInv, KeyType
<1>3. stat' = stat \/ {stat, stat'} \subseteq {"active", "deleted"}
  OBVIOUS
<1> QED BY <1>1, <1>2, <1>3, MoveIInv

LEMMA RestoreIInv == ASSUME IInv, NEW r \in Request, Restore(r) PROVE IInv'
<1> USE DEF Restore, Restorable
<1>1. RowType' /\ FlagType'
  BY DEF IInv, RowType, FlagType
<1>2. "idle" \in Stage /\ doomed' \subseteq 1..puts /\ (purged' => stat' = "deleted")
  BY DEF Stage, IInv, KeyInv, KeyType
<1>3. stat' = stat \/ {stat, stat'} \subseteq {"active", "deleted"}
  OBVIOUS
<1> QED BY <1>1, <1>2, <1>3, MoveIInv

LEMMA BuryIInv == ASSUME IInv, NEW r \in Request, Bury(r) PROVE IInv'
<1> USE DEF Bury
<1>1. RowType' /\ FlagType'
  BY DEF IInv, RowType, FlagType
<1>2. "idle" \in Stage /\ doomed' \subseteq 1..puts /\ (purged' => stat' = "deleted")
  BY DEF Stage, IInv, KeyInv, KeyType
<1> QED BY <1>1, <1>2, MoveIInv

LEMMA CrashIInv == ASSUME IInv, NEW r \in Request, CrashRequest(r) PROVE IInv'
<1> USE DEF CrashRequest, row
<1>1. RowType' /\ FlagType'
  BY DEF IInv, RowType, FlagType
<1>2. "idle" \in Stage /\ doomed' \subseteq 1..puts /\ (purged' => stat' = "deleted")
  BY DEF Stage, IInv, KeyInv, KeyType
<1> QED BY <1>1, <1>2, MoveIInv

(* A request that makes its pending body the body of the row.              *)
LEMMA SwapIInv ==
    ASSUME IInv, NEW r \in Request, NEW stage \in {"idle", "drop", "tuples"}, Go(r, stage),
           Pending(r),
           stat' = "active", key' = req[r].fresh, ~purged, ~purged',
           UNCHANGED <<held, job, puts>>,
           RowType', FlagType',
           stage = "tuples" => req[r].op \in Creates,
           stage = "drop" => req[r].op \in Writes,
           doomed \subseteq doomed',
           doomed' \subseteq doomed \cup {req[r].fresh},
           stored' \subseteq stored,
           \A k \in stored \ stored' : k = req[r].fresh /\ k \in doomed'
    PROVE  IInv'
<1>0. /\ KeyType /\ ActorType /\ KeyInv /\ CreateInv /\ PendingInv /\ DropInv
      /\ BodyInv /\ EarlyInv
  BY DEF IInv
<1>1. /\ req' \in [Request -> Req]
      /\ \A q \in Request \ {r} : req'[q] = req[q]
      /\ stage = "idle" => req'[r] = NoReq
      /\ stage # "idle" => req'[r] = [req[r] EXCEPT !.pc = stage]
  BY <1>0, GoEffect DEF Stage
<1>2. req[r] \in Req
  BY <1>0 DEF ActorType
<1>3. req[r].fresh \in 1..puts /\ req[r].fresh \in stored /\ req[r].fresh # req[r].snap
  BY <1>0, <1>2 DEF KeyInv, PendingInv, KeyType, Req
<1>4. KeyType' /\ ActorType'
  BY <1>0, <1>1, <1>3 DEF KeyType, ActorType, Sweep, Req
<1>5. KeyInv'
  BY <1>0, <1>1, <1>2, <1>3 DEF Req, KeyInv, Pending, NoReq, Creates, Writes
<1>6. CreateInv'
  BY <1>0, <1>1, <1>2 DEF Req, CreateInv, Pending, NoReq, Creates, Writes
<1>7. ASSUME NEW q \in Request, Pending(q)'
      PROVE  q # r /\ Pending(q) /\ req'[q] = req[q]
  BY <1>1, <1>2, <1>7 DEF Req, Pending, NoReq, Creates, Writes
<1>8. PendingInv'
  <2> SUFFICES ASSUME NEW q \in Request, Pending(q)'
               PROVE  /\ req'[q].fresh \in stored' \ doomed' /\ req'[q].fresh # key'
                      /\ \A o \in Request : req'[o].snap # req'[q].fresh
                      /\ \A o \in Request \ {q} : req'[o].fresh # req'[q].fresh
    BY DEF PendingInv
  <2>1. q # r /\ Pending(q) /\ req'[q] = req[q] /\ req[q].fresh # 0
    BY <1>0, <1>7 DEF KeyInv
  <2>2. req[q].fresh # req[r].fresh
    BY <1>0, <2>1 DEF PendingInv
  <2>3. req'[r].snap \in {req[r].snap, 0} /\ req'[r].fresh \in {req[r].fresh, 0}
    BY <1>1, <1>2 DEF Req, NoReq
  <2> QED BY <1>0, <1>1, <2>1, <2>2, <2>3 DEF PendingInv
<1>9. DropInv'
  BY <1>0, <1>1, <1>2, <1>3 DEF Req, DropInv, NoReq, PendingInv
<1>10. BodyInv'
  BY <1>0, <1>3 DEF BodyInv
<1>11. EarlyInv'
  BY <1>0, <1>1, <1>2 DEF Req, EarlyInv, Pending, Creates, Writes, NoReq
<1> QED BY <1>4, <1>5, <1>6, <1>8, <1>9, <1>10, <1>11 DEF IInv

(* The file being made is neither purged nor in the trash.                 *)
LEMMA Unpurged ==
    ASSUME IInv, NEW r \in Request, Pending(r), req[r].op \in Creates \/ stat = "active"
    PROVE  ~purged
BY DEF IInv, KeyInv, CreateInv, Pending

LEMMA InsertIInv == ASSUME IInv, NEW r \in Request, Insert(r) PROVE IInv'
<1> USE DEF Insert, InsertRow
<1>1. RowType' /\ FlagType'
  BY DEF IInv, RowType, FlagType
<1>2. Pending(r) /\ ~purged
  BY Unpurged DEF Pending
<1> QED BY <1>1, <1>2, SwapIInv

LEMMA OverwriteIInv == ASSUME IInv, NEW r \in Request, Overwrite(r) PROVE IInv'
<1> USE DEF Overwrite, row
<1>1. Pending(r)
  BY DEF Pending
<1>2. CASE SwapKey(r) /\ UNCHANGED <<stored, faults>>
           /\ Go(r, IF req[r].op = "public" THEN "idle" ELSE "drop")
  <2> USE <1>2 DEF SwapKey
  <2>1. RowType' /\ FlagType'
    BY DEF IInv, RowType, FlagType
  <2>2. ~purged
    BY <1>1, Unpurged
  <2>3. Go(r, "idle") \/ Go(r, "drop")
    OBVIOUS
  <2> QED BY <1>1, <2>1, <2>2, <2>3, SwapIInv
<1>3. CASE Delete(req[r].fresh) /\ Go(r, "idle") /\ UNCHANGED row
  <2>1. /\ stored' \subseteq stored /\ faults' \in 0..MaxFaults
        /\ \A k \in stored \ stored' : Removable(r, k)
    BY <1>1, <1>3, DeleteEffect DEF IInv, Removable
  <2>2. RowType' /\ FlagType'
    BY <1>3, <2>1 DEF IInv, RowType, FlagType
  <2>3. "idle" \in Stage /\ doomed' \subseteq 1..puts /\ (purged' => stat' = "deleted")
    BY <1>3 DEF Stage, IInv, KeyInv, KeyType
  <2> QED BY <1>3, <2>1, <2>2, <2>3, MoveIInv
<1> QED BY <1>2, <1>3

LEMMA ReplyLostIInv == ASSUME IInv, NEW r \in Request, ReplyLost(r) PROVE IInv'
<1> USE DEF ReplyLost, InsertRow, SwapKey
<1>1. RowType' /\ FlagType'
  BY DEF IInv, RowType, FlagType
<1>2. Pending(r) /\ ~purged
  BY Unpurged DEF Pending
<1>3. stat' = "active" /\ key' = req[r].fresh /\ ~purged' /\ UNCHANGED held
  BY <1>2
<1> QED BY <1>1, <1>2, <1>3, SwapIInv

-----------------------------------------------------------------------------
(* The steps that change a request otherwise than by moving it on.         *)

LEMMA CreateIInv == ASSUME IInv, NEW r \in Request, Create(r) PROVE IInv'
<1> USE DEF Create
<1>0. /\ RowType /\ FlagType /\ KeyType /\ ActorType /\ KeyInv /\ CreateInv
      /\ PendingInv /\ DropInv /\ BodyInv /\ EarlyInv
  BY DEF IInv
<1>1. PICK o \in Creates : req' = [req EXCEPT ![r] = [NoReq EXCEPT !.op = o, !.pc = "put"]]
  OBVIOUS
<1>2. req'[r] = [op |-> o, pc |-> "put", snap |-> 0, fresh |-> 0, early |-> FALSE]
  BY <1>0, <1>1 DEF ActorType, NoReq
<1>3. \A q \in Request \ {r} : req'[q] = req[q]
  BY <1>0, <1>1 DEF ActorType
<1>4. RowType' /\ FlagType' /\ KeyType'
  BY <1>0 DEF RowType, FlagType, KeyType, row
<1>5. ActorType'
  <2>1. puts \in Nat
    BY <1>0 DEF KeyType
  <2>2. req'[r] \in Req
    <3>1. o \in AllOps /\ "put" \in Stage /\ 0 \in 0..puts
      BY <2>1 DEF AllOps, Stage
    <3> QED BY ONLY <1>2, <3>1 DEF Req
  <2> QED BY <1>0, <1>1, <1>3, <2>2 DEF ActorType, Req, Sweep
<1>6. KeyInv' /\ CreateInv' /\ DropInv' /\ BodyInv'
  BY <1>0, <1>2, <1>3 DEF KeyInv, CreateInv, DropInv, BodyInv, Pending, row
<1>7. PendingInv'
  BY <1>0, <1>2, <1>3 DEF PendingInv, Pending
<1>8. EarlyInv'
  BY <1>0 DEF EarlyInv, KeyInv, row
<1> QED BY <1>4, <1>5, <1>6, <1>7, <1>8 DEF IInv

LEMMA ReadRowIInv == ASSUME IInv, NEW r \in Request, ReadRow(r) PROVE IInv'
<1> USE DEF ReadRow
<1>0. /\ RowType /\ FlagType /\ KeyType /\ ActorType /\ KeyInv /\ CreateInv
      /\ PendingInv /\ DropInv /\ BodyInv /\ EarlyInv
  BY DEF IInv
<1>1. PICK o \in AllOps \ Creates :
         /\ Visible(o)
         /\ req' = [req EXCEPT ![r] =
                      [op |-> o, snap |-> key, fresh |-> 0, early |-> FALSE,
                       pc |-> IF o \in {"restore", "hold"} THEN "write" ELSE "check"]]
  OBVIOUS
<1>2. /\ req'[r].op = o /\ req'[r].snap = key /\ req'[r].fresh = 0
      /\ req'[r].pc \in {"write", "check"}
      /\ req'[r].pc = "write" => o \in {"restore", "hold"}
      /\ stat # "none"
  BY <1>0, <1>1 DEF ActorType, Visible
<1>3. \A q \in Request \ {r} : req'[q] = req[q]
  BY <1>0, <1>1 DEF ActorType
<1>4. RowType' /\ FlagType' /\ KeyType'
  BY <1>0 DEF RowType, FlagType, KeyType, row
<1>5. ActorType'
  <2>1. req'[r] \in Req
    BY <1>0, <1>1 DEF ActorType, KeyType, Req, Stage
  <2> QED BY <1>0, <1>1, <1>3, <2>1 DEF ActorType, Req, Sweep
<1>6. KeyInv'
  BY <1>0, <1>1, <1>2, <1>3 DEF KeyInv, Pending, row, Creates, Writes
<1>7. CreateInv' /\ DropInv' /\ BodyInv'
  BY <1>0, <1>1, <1>2, <1>3 DEF CreateInv, DropInv, BodyInv, row
<1>8. PendingInv'
  <2> SUFFICES ASSUME NEW q \in Request, Pending(q)'
               PROVE  /\ req'[q].fresh \in stored' \ doomed' /\ req'[q].fresh # key'
                      /\ \A x \in Request : req'[x].snap # req'[q].fresh
                      /\ \A x \in Request \ {q} : req'[x].fresh # req'[q].fresh
    BY DEF PendingInv
  <2>1. q # r /\ Pending(q) /\ req'[q] = req[q] /\ req[q].fresh # 0
    BY <1>0, <1>2, <1>3 DEF Pending, KeyInv, Creates, Writes
  <2> QED BY <1>0, <1>2, <1>3, <2>1 DEF PendingInv, row
<1>9. EarlyInv'
  BY <1>0, <1>2, <1>3 DEF EarlyInv, row
<1> QED BY <1>4, <1>5, <1>6, <1>7, <1>8, <1>9 DEF IInv

LEMMA PutObjectIInv == ASSUME IInv, NEW r \in Request, PutObject(r) PROVE IInv'
<1> USE DEF PutObject
<1>0. /\ RowType /\ FlagType /\ KeyType /\ ActorType /\ KeyInv /\ CreateInv
      /\ PendingInv /\ DropInv /\ BodyInv /\ EarlyInv
  BY DEF IInv
<1>1. req'[r] = [req[r] EXCEPT !.fresh = puts + 1, !.pc = "write"]
  BY <1>0 DEF ActorType
<1>2. /\ req'[r].fresh = puts + 1 /\ req'[r].pc = "write"
      /\ req'[r].op = req[r].op /\ req'[r].snap = req[r].snap
      /\ req'[r].early = req[r].early
  BY <1>0, <1>1 DEF ActorType, Req
<1>3. \A q \in Request \ {r} : req'[q] = req[q]
  BY <1>0 DEF ActorType
<1>4. RowType' /\ FlagType'
  BY <1>0 DEF RowType, FlagType, row
<1>5. KeyType'
  BY <1>0 DEF KeyType, row
<1>6. ActorType'
  <2>1. puts \in Nat /\ 0..puts \subseteq 0..puts' /\ puts + 1 \in 0..puts'
    BY <1>0 DEF KeyType
  <2>2. Req \subseteq Req' /\ Sweep \subseteq Sweep'
    BY <2>1 DEF Req, Sweep
  <2>3. req'[r] \in Req'
    BY <1>0, <1>1, <2>1, <2>2 DEF ActorType, Req, Stage
  <2> QED BY <1>0, <1>3, <2>2, <2>3 DEF ActorType
<1> DEFINE new == puts + 1
<1>a. new # 0 /\ req'[r].fresh = new /\ stored' = stored \cup {new}
  BY <1>0, <1>2 DEF KeyType
<1>b. req[r].pc = "put" /\ UNCHANGED <<row, job, doomed>>
  OBVIOUS
<1> HIDE DEF new, PutObject
<1>7. KeyInv'
  BY <1>0, <1>2, <1>3, <1>a, <1>b DEF KeyInv, Pending, row
<1>8. CreateInv' /\ DropInv' /\ BodyInv'
  BY <1>0, <1>2, <1>3, <1>a, <1>b DEF CreateInv, DropInv, BodyInv, row
<1>9. PendingInv'
  <2>1. \A q \in Request : req[q].snap \in 0..puts /\ req[q].fresh \in 0..puts
    BY <1>0 DEF ActorType, Req
  <2>2. puts \in Nat /\ key \in 0..puts /\ doomed \subseteq 1..puts
    BY <1>0 DEF KeyType
  <2>3. /\ new # key /\ new \notin doomed
        /\ \A q \in Request : req[q].snap # new /\ req[q].fresh # new
    BY <2>1, <2>2 DEF new
  <2> QED BY <1>0, <1>2, <1>3, <1>a, <1>b, <2>3 DEF PendingInv, Pending, row
<1>10. EarlyInv'
  BY <1>0, <1>2, <1>3, <1>b DEF EarlyInv, row
<1> QED BY <1>4, <1>5, <1>6, <1>7, <1>8, <1>9, <1>10 DEF IInv

LEMMA HoldIInv == ASSUME IInv, NEW r \in Request, Hold(r) PROVE IInv'
<1> USE DEF Hold
<1>0. /\ RowType /\ FlagType /\ KeyType /\ ActorType /\ KeyInv /\ CreateInv
      /\ PendingInv /\ DropInv /\ BodyInv /\ EarlyInv
  BY DEF IInv
<1>1. req'[r] = NoReq
  BY <1>0 DEF ActorType
<1>2. \A q \in Request \ {r} :
         /\ req'[q].pc = req[q].pc /\ req'[q].op = req[q].op
         /\ req'[q].snap = req[q].snap /\ req'[q].fresh = req[q].fresh
         /\ req[q].pc \notin {"idle", "check"} => req'[q].early
  BY <1>0 DEF ActorType, Req
<1>3. RowType' /\ FlagType' /\ KeyType'
  BY <1>0 DEF RowType, FlagType, KeyType
<1>4. ActorType'
  <2>1. puts \in Nat
    BY <1>0 DEF KeyType
  <2>2. \A q \in Request : req'[q] \in Req
    BY <1>0, <1>1, <2>1, NoneFits DEF ActorType, Req
  <2> QED BY <1>0, <2>2 DEF ActorType, Req, Sweep
<1>5. stat # "none"
  BY <1>0 DEF KeyInv, Creates
<1>6. KeyInv' /\ CreateInv' /\ DropInv' /\ BodyInv'
  BY <1>0, <1>1, <1>2, <1>5 DEF KeyInv, CreateInv, DropInv, BodyInv, Pending, NoReq
<1>7. PendingInv'
  BY <1>0, <1>1, <1>2 DEF PendingInv, Pending, NoReq, KeyInv
<1>8. EarlyInv'
  BY <1>1, <1>2 DEF EarlyInv, NoReq
<1> QED BY <1>3, <1>4, <1>6, <1>7, <1>8 DEF IInv

-----------------------------------------------------------------------------
(* Purgers and time.                                                       *)

(* A purger deletes only a body that is doomed, and leaves alone what the  *)
(* requests read, but for the tombstone.                                   *)
LEMMA JobIInv ==
    ASSUME IInv, RowType', FlagType',
           UNCHANGED <<stat, key, held, req, puts>>,
           job' \in [Purger -> Sweep],
           purged' => stat = "deleted",
           \A p \in Purger : job'[p].pc = "erase" => job'[p].key \in doomed',
           stat = "deleted" \/ doomed' = doomed,
           doomed \subseteq doomed', doomed' \subseteq doomed \cup {key},
           stored' \subseteq stored, stored \ stored' \subseteq doomed
    PROVE  IInv'
<1>0. /\ RowType /\ FlagType /\ KeyType /\ ActorType /\ KeyInv /\ CreateInv
      /\ PendingInv /\ DropInv /\ BodyInv /\ EarlyInv
  BY DEF IInv
<1>1. KeyType'
  <2>1. stat = "deleted" => key \in 1..puts
    BY <1>0 DEF KeyInv, KeyType
  <2> QED BY <1>0, <2>1 DEF KeyType
<1>2. ActorType'
  BY <1>0 DEF ActorType, Sweep, Req
<1>3. KeyInv' /\ CreateInv' /\ EarlyInv'
  BY <1>0 DEF KeyInv, CreateInv, EarlyInv, Pending
<1>4. PendingInv' /\ DropInv' /\ BodyInv'
  BY <1>0 DEF PendingInv, DropInv, BodyInv, Pending
<1> QED BY <1>1, <1>2, <1>3, <1>4 DEF IInv

(* A purger that is done with its file, one way or another.                *)
LEMMA JobDoneIInv ==
    ASSUME IInv, NEW p \in Purger, GoJob(p, "idle"), RowType', FlagType',
           UNCHANGED <<stat, key, held, req, puts, stored, doomed>>,
           purged' => stat = "deleted"
    PROVE  IInv'
<1>1. job' \in [Purger -> Sweep] /\ job'[p] = NoSweep /\ \A q \in Purger \ {p} : job'[q] = job[q]
  BY GoJobEffect DEF IInv
<1>2. \A q \in Purger : job'[q].pc = "erase" => job'[q].key \in doomed'
  BY <1>1 DEF IInv, DropInv, NoSweep
<1> QED BY <1>1, <1>2, JobIInv

LEMMA ClaimIInv == ASSUME IInv, NEW p \in Purger, Claim(p) PROVE IInv'
<1> USE DEF Claim, Claimable
<1>1. RowType' /\ FlagType'
  BY DEF IInv, RowType, FlagType
<1>2. job' \in [Purger -> Sweep]
  <2>1. [pc |-> "erase", key |-> key] \in Sweep
    BY DEF IInv, KeyType, Sweep
  <2> QED BY <2>1 DEF IInv, ActorType
<1>3. \A q \in Purger : job'[q].pc = "erase" => job'[q].key \in doomed'
  BY DEF IInv, ActorType, DropInv
<1> QED BY <1>1, <1>2, <1>3, JobIInv

LEMMA PurgeBodyIInv == ASSUME IInv, NEW p \in Purger, PurgeBody(p) PROVE IInv'
<1> USE DEF PurgeBody, row
<1>1. RowType' /\ FlagType'
  BY DEF IInv, RowType, FlagType
<1>2. \E stage \in {"mark", "release"} : GoJob(p, stage)
  OBVIOUS
<1>3. /\ job' \in [Purger -> Sweep]
      /\ \A q \in Purger : job'[q].pc = "erase" => job'[q].key \in doomed'
  BY <1>2, GoJobEffect DEF IInv, ActorType, DropInv, Sweep
<1>4. stored' \subseteq stored /\ stored \ stored' \subseteq doomed
  BY DEF IInv, DropInv
<1>5. purged' => stat = "deleted"
  BY DEF IInv, KeyInv
<1> QED BY <1>1, <1>3, <1>4, <1>5, JobIInv

LEMMA MarkPurgedIInv == ASSUME IInv, NEW p \in Purger, MarkPurged(p) PROVE IInv'
<1>1. RowType' /\ FlagType'
  BY DEF IInv, RowType, FlagType, MarkPurged
<1>2. purged' => stat = "deleted"
  BY DEF IInv, KeyInv, MarkPurged
<1>3. GoJob(p, "idle") /\ UNCHANGED <<stat, key, held, req, puts, stored, doomed>>
  BY DEF MarkPurged
<1> QED BY <1>1, <1>2, <1>3, JobDoneIInv

LEMMA MarkFailedIInv == ASSUME IInv, NEW p \in Purger, MarkFailed(p) PROVE IInv'
<1>1. RowType' /\ FlagType'
  BY DEF IInv, RowType, FlagType, MarkFailed
<1>2. purged' => stat = "deleted"
  BY DEF IInv, KeyInv, MarkFailed
<1>3. GoJob(p, "idle") /\ UNCHANGED <<stat, key, held, req, puts, stored, doomed>>
  BY DEF MarkFailed
<1> QED BY <1>1, <1>2, <1>3, JobDoneIInv

LEMMA PurgerCrashIInv == ASSUME IInv, NEW p \in Purger, PurgerCrash(p) PROVE IInv'
<1>1. RowType' /\ FlagType'
  BY DEF IInv, RowType, FlagType, PurgerCrash, row
<1>2. purged' => stat = "deleted"
  BY DEF IInv, KeyInv, PurgerCrash, row
<1>3. GoJob(p, "idle") /\ UNCHANGED <<stat, key, held, req, puts, stored, doomed>>
  BY DEF PurgerCrash, row
<1> QED BY <1>1, <1>2, <1>3, JobDoneIInv

LEMMA TimeIInv == ASSUME IInv, RetentionEnds \/ LockTimeout PROVE IInv'
<1> USE DEF RetentionEnds, LockTimeout
<1>1. RowType' /\ FlagType'
  BY DEF IInv, RowType, FlagType
<1>2. UNCHANGED <<stat, key, held, req, puts, stored, doomed, job, purged>>
  OBVIOUS
<1>3. /\ job' \in [Purger -> Sweep] /\ (purged' => stat = "deleted")
      /\ \A q \in Purger : job'[q].pc = "erase" => job'[q].key \in doomed'
  BY <1>2 DEF IInv, ActorType, DropInv, KeyInv
<1> QED BY <1>1, <1>2, <1>3, JobIInv

LEMMA StutterIInv == ASSUME IInv, UNCHANGED vars PROVE IInv'
<1> USE DEF vars
<1>1. RowType' /\ FlagType'
  BY DEF IInv, RowType, FlagType
<1>2. /\ job' \in [Purger -> Sweep] /\ (purged' => stat = "deleted")
      /\ \A q \in Purger : job'[q].pc = "erase" => job'[q].key \in doomed'
  BY DEF IInv, ActorType, DropInv, KeyInv
<1> QED BY <1>1, <1>2, JobIInv

LEMMA StepIInv == IInv /\ [Next]_vars => IInv'
<1> SUFFICES ASSUME IInv, [Next]_vars PROVE IInv'
  OBVIOUS
<1>1. ASSUME NEW r \in Request, RequestStep(r) PROVE IInv'
  BY <1>1, CreateIInv, ReadRowIInv, CheckHoldIInv, PutObjectIInv, RefuseIInv, InsertIInv,
     OverwriteIInv, ReplyLostIInv, DropOldIInv, WriteTuplesIInv, TrashIInv, RestoreIInv,
     EraseIInv, BuryIInv, HoldIInv, CrashIInv
  DEF RequestStep
<1>2. ASSUME NEW p \in Purger, Purge(p) \/ PurgerCrash(p) PROVE IInv'
  BY <1>2, ClaimIInv, PurgeBodyIInv, MarkPurgedIInv, MarkFailedIInv,
     PurgerCrashIInv
  DEF Purge
<1> QED BY <1>1, <1>2, TimeIInv, StutterIInv DEF Next

LEMMA Invariance == Spec => []IInv
BY InitIInv, StepIInv, PTL DEF Spec

(* The row, the storage keys, the requests and the purgers stay in their   *)
(* types; no key is ever larger than the number of bodies stored.          *)
THEOREM FileTypesHold == Spec => []TypeOK
<1>1. IInv => TypeOK
  BY DEF IInv, RowType, FlagType, KeyType, ActorType, TypeOK
<1> QED BY Invariance, <1>1, PTL

(* However many uploads, overwrites, saves, deletes, restores and purges   *)
(* overlap and wherever they fail, a live file has its body unless the     *)
(* body was already being removed: no clean-up of one operation deletes    *)
(* the body another one put in place.                                      *)
THEOREM BodyStays == Spec => []BodyKept
<1>1. IInv => BodyKept
  BY DEF IInv, BodyInv, BodyKept
<1> QED BY Invariance, <1>1, PTL

-----------------------------------------------------------------------------
LEMMA PurgedStep ==
  ASSUME IInv, purged, [Next]_vars PROVE purged' /\ stat' = "deleted" /\ key' = key
<1>1. ASSUME IInv, purged, NEW r \in Request, RequestStep(r)
      PROVE  purged' /\ stat' = "deleted" /\ key' = key
  <2>1. stat = "deleted" /\ ~(Pending(r) /\ req[r].op \in Creates)
    BY <1>1 DEF IInv, KeyInv, CreateInv, Pending
  <2> QED BY <1>1, <2>1
          DEF RequestStep, Create, ReadRow, CheckHold, PutObject, Refuse, Insert, Overwrite,
              SwapKey, ReplyLost, DropOld, WriteTuples, Trash, Restore, Restorable, Erase,
              Bury, Hold, CrashRequest, row, Pending
<1>2. ASSUME IInv, purged, NEW p \in Purger, Purge(p) \/ PurgerCrash(p)
      PROVE  purged' /\ stat' = "deleted" /\ key' = key
  BY <1>2 DEF IInv, KeyInv, Purge, Claim, PurgeBody, MarkPurged, MarkFailed, PurgerCrash, row
<1>3. ASSUME IInv, purged, RetentionEnds \/ LockTimeout \/ UNCHANGED vars
      PROVE  purged' /\ stat' = "deleted" /\ key' = key
  BY <1>3 DEF IInv, KeyInv, RetentionEnds, LockTimeout, vars
<1> QED
  BY <1>1, <1>2, <1>3 DEF Next

(* A purged file is a tombstone: it never leaves the trash and its row     *)
(* never names another body, whatever requests had read it before.         *)
THEOREM PurgedStays == Spec => PurgedIsFinal
<1>1. IInv /\ [Next]_vars => [purged => purged' /\ stat' = "deleted" /\ key' = key]_vars
  BY PurgedStep
<1> QED BY <1>1, Invariance, PTL DEF Spec, PurgedIsFinal

(* A held live file and its body: what HoldProtects says of a step.        *)
Frozen == /\ held /\ stat = "active" /\ key \notin doomed
          /\ \A r \in Request : ~req[r].early

LEMMA FrozenStep ==
  ASSUME IInv, IInv', Frozen, [Next]_vars PROVE stat' = stat /\ key' = key /\ key' \in stored'
<1> USE DEF Frozen
<1>1. ASSUME IInv, Frozen, NEW r \in Request, RequestStep(r)
      PROVE  stat' = stat /\ key' = key /\ key' \notin doomed'
  <2>1. /\ req[r].pc \in {"put", "tuples", "discard", "erase", "drop"} => FALSE
        /\ req[r].pc = "write" => req[r].op \in {"restore", "hold"}
        /\ stat = "active"
    BY <1>1 DEF IInv, EarlyInv
  <2> QED BY <1>1, <2>1
          DEF RequestStep, Create, ReadRow, CheckHold, PutObject, Refuse, Insert, Overwrite,
              SwapKey, ReplyLost, DropOld, WriteTuples, Trash, Restore, Restorable, Erase,
              Bury, Hold, CrashRequest, row, Creates, Writes
<1>2. ASSUME IInv, Frozen, NEW p \in Purger, Purge(p) \/ PurgerCrash(p)
      PROVE  stat' = stat /\ key' = key /\ key' \notin doomed'
  <2>1. ~Claim(p)
    BY <1>2 DEF Claim, Claimable
  <2>2. UNCHANGED <<stat, key, doomed>>
    BY <1>2, <2>1 DEF Purge, PurgeBody, MarkPurged, MarkFailed, PurgerCrash, row
  <2> QED BY <1>2, <2>2
<1>3. ASSUME IInv, Frozen, RetentionEnds \/ LockTimeout \/ UNCHANGED vars
      PROVE  stat' = stat /\ key' = key /\ key' \notin doomed'
  BY <1>3 DEF RetentionEnds, LockTimeout, vars
<1>4. stat' = stat /\ key' = key /\ key' \notin doomed'
  BY <1>1, <1>2, <1>3 DEF Next
<1> QED
  BY <1>4 DEF IInv, BodyInv

(* A legal hold freezes a live file and its body against every operation   *)
(* whose check came after the hold: CheckHold is the only way past it.     *)
THEOREM HoldIsKept == Spec => HoldProtects
<1>1. IInv /\ IInv' /\ [Next]_vars =>
         [Frozen => stat' = stat /\ key' = key /\ key' \in stored']_vars
  BY FrozenStep
<1> QED BY <1>1, Invariance, PTL DEF Spec, HoldProtects, Frozen

-----------------------------------------------------------------------------
(* Where no request restores or permanently deletes, only a purger decides *)
(* what becomes of a file in the trash: it works on the row's own body,    *)
(* which is gone when it marks the row.                                    *)
TombInv ==
    /\ \A r \in Request : req[r].pc # "idle" => req[r].op \notin OnTrash
    /\ \A p \in Purger : job[p].pc # "idle" =>
          /\ stat = "deleted" /\ job[p].key = key
          /\ job[p].pc = "mark" => key \notin stored
    /\ TombstoneEmpty

(* A step of a request leaves what is in the trash alone, except that it   *)
(* may store other bodies.                                                 *)
LEMMA RequestTombInv ==
  ASSUME IInv, TombInv, Ops \cap OnTrash = {}, NEW r \in Request, RequestStep(r)
  PROVE  TombInv'
<1>1. /\ RowType /\ FlagType /\ KeyType /\ ActorType /\ KeyInv /\ CreateInv
  BY DEF IInv
<1>2. req[r].pc # "idle" => req[r].op \notin OnTrash
  BY DEF TombInv
<1>3. /\ puts \in Nat /\ key \in 0..puts /\ req[r] \in Req
  BY <1>1 DEF KeyType, ActorType
<1>4. UNCHANGED job
  BY DEF RequestStep, Create, ReadRow, CheckHold, PutObject, Refuse, Insert, Overwrite,
         SwapKey, ReplyLost, DropOld, WriteTuples, Trash, Restore, Restorable, Erase,
         Bury, Hold, CrashRequest, row, Pending
<1>5. \A q \in Request : req'[q].pc # "idle" => req'[q].op \notin OnTrash
  <2>0. \/ Create(r) \/ ReadRow(r) \/ PutObject(r) \/ Hold(r)
        \/ \E stage \in Stage : Go(r, stage)
    <3>1. CheckHold(r) => Go(r, IF held THEN "idle" ELSE Checked(r))
      BY DEF CheckHold
    <3>2. (IF held THEN "idle" ELSE Checked(r)) \in Stage
      BY DEF Checked, Stage
    <3>3. \/ Refuse(r) \/ ReplyLost(r) \/ DropOld(r) \/ Trash(r) \/ Restore(r)
          \/ Bury(r) \/ CrashRequest(r)
          => Go(r, "idle")
      BY DEF Refuse, ReplyLost, DropOld, Trash, Restore, Bury, CrashRequest
    <3>4. Overwrite(r) \/ WriteTuples(r) \/ Insert(r) \/ Erase(r) =>
             Go(r, "idle") \/ Go(r, "drop") \/ Go(r, "discard") \/ Go(r, "tuples")
             \/ Go(r, "write")
      BY DEF Overwrite, WriteTuples, Insert, Erase
    <3>5. {"idle", "drop", "discard", "tuples", "write"} \subseteq Stage
      BY DEF Stage
    <3> QED
      BY <3>1, <3>2, <3>3, <3>4, <3>5 DEF RequestStep
  <2>1. \A q \in Request \ {r} : req'[q].pc = req[q].pc /\ req'[q].op = req[q].op
    <3>1. ASSUME NEW stage \in Stage, Go(r, stage)
          PROVE  \A q \in Request \ {r} : req'[q] = req[q]
      BY <1>1, <3>1 DEF Go, ActorType
    <3>2. CASE Create(r) \/ ReadRow(r) \/ PutObject(r)
      BY <1>1, <3>2 DEF Create, ReadRow, PutObject, ActorType
    <3>3. CASE Hold(r)
      BY <1>1, <3>3 DEF Hold, ActorType, Req
    <3> QED
      BY <2>0, <3>1, <3>2, <3>3
  <2>2. CASE req[r].pc # "idle"
    <3>1. req'[r].pc = "idle" \/ req'[r].op = req[r].op
      <4>1. ASSUME NEW stage \in Stage, Go(r, stage)
            PROVE  req'[r].pc = "idle" \/ req'[r].op = req[r].op
        BY <1>1, <1>3, <4>1 DEF Go, ActorType, Req, NoReq
      <4>2. CASE PutObject(r)
        BY <1>1, <1>3, <4>2 DEF PutObject, ActorType, Req
      <4>3. CASE Hold(r)
        BY <1>1, <4>3 DEF Hold, ActorType, NoReq
      <4> QED
        BY <2>0, <2>2, <4>1, <4>2, <4>3 DEF Create, ReadRow
    <3> QED
      BY <1>2, <2>1, <2>2, <3>1 DEF TombInv
  <2>3. CASE req[r].pc = "idle"
    <3>1. Create(r) \/ ReadRow(r)
      BY <2>3
      DEF RequestStep, CheckHold, PutObject, Refuse, Insert, Overwrite, ReplyLost, DropOld,
          WriteTuples, Trash, Restore, Erase, Bury, Hold, CrashRequest
    <3>2. CASE Create(r)
      BY <1>1, <2>1, <3>2 DEF TombInv, Create, ActorType, NoReq, Creates, OnTrash
    <3>3. CASE ReadRow(r)
      BY <1>1, <2>1, <3>3 DEF TombInv, ReadRow, ActorType
    <3> QED
      BY <3>1, <3>2, <3>3
  <2> QED
    BY <2>2, <2>3
<1>6. ASSUME stat = "deleted"
      PROVE  stat' = "deleted" /\ key' = key /\ (key \notin stored => key \notin stored')
  <2>1. req[r].pc = "write" => req[r].op \notin Creates
    BY <1>1, <1>6 DEF CreateInv
  <2>2. req[r].pc = "write" => req[r].op \notin OnTrash
    BY <1>2
  <2>3. /\ stat' = "deleted" /\ key' = key
    BY <1>6, <2>1, <2>2
    DEF RequestStep, Create, ReadRow, CheckHold, PutObject, Refuse, Insert, Overwrite,
        SwapKey, ReplyLost, DropOld, WriteTuples, Trash, Restore, Restorable, Erase,
        Bury, Hold, CrashRequest, row, OnTrash
  <2>4. stored' \subseteq stored \/ (PutObject(r) /\ stored' = stored \cup {puts + 1})
    BY DEF RequestStep, Create, ReadRow, CheckHold, PutObject, Refuse, Insert, Overwrite,
        SwapKey, ReplyLost, DropOld, WriteTuples, Trash, Restore, Restorable, Erase,
        Bury, Hold, CrashRequest, row, Delete
  <2> QED
    BY <1>3, <2>3, <2>4
<1>7. purged' => purged
  BY <1>2, Zenon
  DEF RequestStep, Create, ReadRow, CheckHold, PutObject, Refuse, Insert, InsertRow, Overwrite,
      SwapKey, ReplyLost, DropOld, WriteTuples, Trash, Restore, Restorable, Erase,
      Bury, Hold, CrashRequest, row, OnTrash
<1>8. purged => stat = "deleted"
  BY <1>1 DEF KeyInv
<1> QED
  BY <1>4, <1>5, <1>6, <1>7, <1>8 DEF TombInv, TombstoneEmpty

LEMMA PurgerTombInv ==
  ASSUME IInv, TombInv, NEW p \in Purger, Purge(p) \/ PurgerCrash(p)
  PROVE  TombInv'
<1>1. /\ ActorType /\ KeyInv /\ UNCHANGED <<stat, key, req>> /\ stored' \subseteq stored
  BY DEF IInv, Purge, Claim, PurgeBody, MarkPurged, MarkFailed, PurgerCrash, row
<1>2. \A q \in Purger \ {p} : job'[q] = job[q]
  BY <1>1 DEF Purge, Claim, PurgeBody, MarkPurged, MarkFailed, PurgerCrash, GoJob, ActorType
<1>3. job[p] \in Sweep
  BY <1>1 DEF ActorType
<1>4. job'[p].pc # "idle" => /\ stat = "deleted" /\ job'[p].key = key
                             /\ job'[p].pc = "mark" => key \notin stored'
  <2>1. CASE Claim(p)
    BY <1>1, <2>1 DEF Claim, Claimable, ActorType
  <2>2. CASE PurgeBody(p)
    <3>1. stat = "deleted" /\ job[p].key = key
      BY <2>2 DEF TombInv, PurgeBody
    <3>2. job'[p].key = key
      BY <1>1, <1>3, <2>2, <3>1 DEF PurgeBody, GoJob, ActorType, Sweep
    <3>3. job'[p].pc = "mark" => stored' = stored \ {key}
      BY <1>1, <1>3, <2>2, <3>1 DEF PurgeBody, GoJob, ActorType, Sweep
    <3> QED
      BY <3>1, <3>2, <3>3
  <2>3. CASE MarkPurged(p) \/ MarkFailed(p) \/ PurgerCrash(p)
    BY <1>1, <2>3 DEF MarkPurged, MarkFailed, PurgerCrash, GoJob, ActorType, NoSweep
  <2> QED
    BY <2>1, <2>2, <2>3 DEF Purge
<1>5. purged' => purged \/ (job[p].pc = "mark" /\ job[p].pc # "idle")
  BY DEF Purge, Claim, PurgeBody, MarkPurged, MarkFailed, PurgerCrash, row
<1>6. purged' => key \notin stored'
  BY <1>1, <1>5 DEF TombInv, TombstoneEmpty
<1> QED
  BY <1>1, <1>2, <1>4, <1>6 DEF TombInv, TombstoneEmpty

(* Where no request restores or permanently deletes files (a permanent     *)
(* delete marks the row whether or not the body could be deleted), the     *)
(* purged_at of a file says that its body is gone, whichever purger won    *)
(* the lock, crashed, or failed to delete the body.                        *)
THEOREM PurgedHasNoBody ==
    ASSUME Ops \cap OnTrash = {}
    PROVE  Spec => []TombstoneEmpty
<1>1. Init => TombInv
  BY DEF Init, TombInv, TombstoneEmpty, NoReq, NoSweep
<1>2. IInv /\ TombInv /\ [Next]_vars => TombInv'
  <2> SUFFICES ASSUME IInv, TombInv, [Next]_vars PROVE TombInv'
    OBVIOUS
  <2>1. CASE RetentionEnds \/ LockTimeout \/ UNCHANGED vars
    BY <2>1 DEF RetentionEnds, LockTimeout, vars, TombInv, TombstoneEmpty
  <2> QED
    BY <2>1, RequestTombInv, PurgerTombInv DEF Next
<1>3. TombInv => TombstoneEmpty
  BY DEF TombInv
<1> QED
  BY <1>1, <1>2, <1>3, Invariance, PTL DEF Spec

-----------------------------------------------------------------------------
(* The components together: the one that is at work keeps its invariant,   *)
(* and the others are as they were at first.                               *)
DriveInv ==
    /\ FaultsTypeOK
    /\ IF part = "file" THEN IInv ELSE FileAtRest
    /\ IF part = "sharing" THEN SharingInv ELSE SharingInit
    /\ IF part = "tree" THEN TreeInv ELSE TreeInit
    /\ IF part = "editing" THEN EditingInv ELSE EditingInit

LEMMA DriveParts == DriveInv => IInv /\ SharingInv /\ TreeInv /\ EditingInv
  BY AtRestIInv, SharingInvStart, TreeInvStart, EditingInvStart DEF DriveInv

LEMMA DriveInvStart == DriveInit => DriveInv
<1> SUFFICES ASSUME DriveInit PROVE DriveInv
  OBVIOUS
<1>1. Init /\ SharingInit /\ TreeInit /\ EditingInit
  BY DEF DriveInit
<1>2. FaultsTypeOK /\ FileAtRest
  BY <1>1 DEF Init, FileAtRest
<1>3. IInv /\ SharingInv /\ TreeInv /\ EditingInv
  BY <1>1, <1>2, AtRestIInv, SharingInvStart, TreeInvStart, EditingInvStart
<1> QED
  BY <1>1, <1>2, <1>3 DEF DriveInv

LEMMA RestStays ==
  /\ FileAtRest /\ UNCHANGED fileVars => FileAtRest'
  /\ SharingInit /\ UNCHANGED sharingVars => SharingInit'
  /\ TreeInit /\ UNCHANGED treeVars => TreeInit'
  /\ EditingInit /\ UNCHANGED editingVars => EditingInit'
<1>1. FileAtRest /\ UNCHANGED fileVars => FileAtRest'
  BY DEF FileAtRest, fileVars
<1>2. SharingInit /\ UNCHANGED sharingVars => SharingInit'
  BY DEF SharingInit, sharingVars
<1>3. TreeInit /\ UNCHANGED treeVars => TreeInit'
  BY DEF TreeInit, treeVars
<1>4. EditingInit /\ UNCHANGED editingVars => EditingInit'
  BY DEF EditingInit, editingVars
<1> QED
  BY <1>1, <1>2, <1>3, <1>4

LEMMA DriveStep == ASSUME DriveInv, DriveNext PROVE DriveInv'
<1>1. IInv /\ SharingInv /\ TreeInv /\ EditingInv /\ part' = part
  BY DriveParts DEF DriveNext
<1>2. CASE part = "file" /\ Next /\ UNCHANGED <<sharingVars, treeVars, editingVars>>
  <2>1. IInv'
    BY <1>1, <1>2, StepIInv
  <2>2. FaultsTypeOK'
    BY <2>1 DEF IInv, RowType, FlagType
  <2>3. SharingInit' /\ TreeInit' /\ EditingInit'
    BY <1>2, RestStays DEF DriveInv
  <2> QED
    BY <1>1, <1>2, <2>1, <2>2, <2>3 DEF DriveInv
<1>3. CASE part = "sharing" /\ SharingNext /\ UNCHANGED <<fileVars, treeVars, editingVars>>
  <2>1. SharingInv'
    BY <1>1, <1>3, SharingStep
  <2>2. FaultsTypeOK'
    BY <2>1 DEF SharingInv
  <2>3. FileAtRest' /\ TreeInit' /\ EditingInit'
    BY <1>3, RestStays DEF DriveInv
  <2> QED
    BY <1>1, <1>3, <2>1, <2>2, <2>3 DEF DriveInv
<1>4. CASE part = "tree" /\ TreeNext /\ UNCHANGED <<fileVars, sharingVars, editingVars>>
  <2>1. TreeInv'
    BY <1>1, <1>4, TreeStep DEF TreeNext
  <2>2. FaultsTypeOK'
    BY <2>1 DEF TreeInv
  <2>3. FileAtRest' /\ SharingInit' /\ EditingInit'
    BY <1>4, RestStays DEF DriveInv
  <2> QED
    BY <1>1, <1>4, <2>1, <2>2, <2>3 DEF DriveInv
<1>5. CASE part = "editing" /\ EditingNext /\ UNCHANGED <<vars, sharingVars, treeVars>>
  <2>1. EditingInv'
    BY <1>1, <1>5, EditingStepInv
  <2>2. UNCHANGED fileVars /\ faults' = faults
    BY <1>5 DEF vars, fileVars
  <2>3. FileAtRest' /\ SharingInit' /\ TreeInit'
    BY <1>5, <2>2, RestStays DEF DriveInv
  <2> QED
    BY <1>1, <1>5, <2>1, <2>2, <2>3 DEF DriveInv
<1> QED
  BY <1>2, <1>3, <1>4, <1>5 DEF DriveNext

LEMMA DriveStutter == ASSUME DriveInv, UNCHANGED driveVars PROVE DriveInv'
<1>1. /\ UNCHANGED <<vars, fileVars, sharingVars, treeVars, editingVars>> /\ part' = part
      /\ faults' = faults
  BY DEF driveVars, vars, fileVars
<1>2. IInv => IInv'
  BY <1>1, StutterIInv
<1>3. FaultsTypeOK'
  BY <1>1 DEF DriveInv
<1>4. SharingInv => SharingInv'
  BY <1>1, SharingStutter
<1>5. TreeInv => TreeInv'
  BY <1>1, TreeStutter
<1>6. EditingInv => EditingInv'
  BY <1>1, EditingStutter
<1> QED
  BY <1>1, <1>2, <1>3, <1>4, <1>5, <1>6, RestStays DEF DriveInv

LEMMA DriveInvariance == DriveSpec => []DriveInv
<1>1. DriveInv /\ [DriveNext]_driveVars => DriveInv'
  BY DriveStep, DriveStutter
<1> QED
  BY <1>1, DriveInvStart, PTL DEF DriveSpec

(* Whatever part of Drive is at work, rows, bodies, tuples, folders,       *)
(* sessions and requests stay in their types.                              *)
THEOREM DriveTypesHold == DriveSpec => []DriveTypeOK
<1>1. DriveInv => DriveTypeOK
  <2> SUFFICES ASSUME DriveInv PROVE DriveTypeOK
    OBVIOUS
  <2>1. IInv /\ SharingInv /\ TreeInv /\ EditingInv
    BY DriveParts
  <2>2. TypeOK
    BY <2>1 DEF IInv, RowType, FlagType, KeyType, ActorType, TypeOK
  <2> QED
    BY <2>1, <2>2 DEF SharingInv, TreeInv, EditingInv, DriveTypeOK
<1> QED
  BY <1>1, DriveInvariance, PTL

(* And each keeps what it promises: a live file its body, the shares and   *)
(* folders the access that goes with them, an edit session its saves.      *)
THEOREM DriveHolds ==
    DriveSpec => [](BodyKept /\ AccessFollowsShares /\ FoldersAgree /\ EditsBuildOnLast)
<1>1. DriveInv => BodyKept /\ AccessFollowsShares /\ FoldersAgree /\ EditsBuildOnLast
  <2> SUFFICES ASSUME DriveInv
               PROVE  BodyKept /\ AccessFollowsShares /\ FoldersAgree /\ EditsBuildOnLast
    OBVIOUS
  <2>1. BodyKept
    BY DriveParts DEF IInv, BodyInv, BodyKept
  <2> QED
    BY <2>1, DriveParts, SharingImplies, TreeImplies, EditingImplies
<1> QED
  BY <1>1, DriveInvariance, PTL

(* A purged file stays a tombstone and a held one stays as it is, also     *)
(* where shares, folders and edit sessions are at work beside it.          *)
THEOREM DriveKeeps == DriveSpec => PurgedIsFinal /\ HoldProtects
<1>1. DriveInv => IInv
  BY DriveParts
<1>2. ASSUME IInv, IInv', purged, [DriveNext]_driveVars
      PROVE  purged' /\ stat' = "deleted" /\ key' = key
  <2>1. [Next]_vars \/ UNCHANGED <<purged, stat, key>>
    BY <1>2 DEF DriveNext, driveVars, fileVars, vars
  <2>2. stat = "deleted"
    BY <1>2 DEF IInv, KeyInv
  <2> QED
    BY <1>2, <2>1, <2>2, PurgedStep
<1>3. ASSUME IInv, IInv', Frozen, [DriveNext]_driveVars
      PROVE  stat' = stat /\ key' = key /\ key' \in stored'
  <2>1. [Next]_vars \/ UNCHANGED <<stat, key, stored>>
    BY <1>3 DEF DriveNext, driveVars, fileVars, vars
  <2>2. key \in stored
    BY <1>3 DEF IInv, BodyInv, Frozen
  <2> QED
    BY <1>3, <2>1, <2>2, FrozenStep
<1>4. IInv /\ IInv' /\ [DriveNext]_driveVars =>
         /\ [purged => purged' /\ stat' = "deleted" /\ key' = key]_vars
         /\ [Frozen => stat' = stat /\ key' = key /\ key' \in stored']_vars
  BY <1>2, <1>3
<1> QED
  BY <1>1, <1>4, DriveInvariance, PTL DEF DriveSpec, PurgedIsFinal, HoldProtects, Frozen

=============================================================================
