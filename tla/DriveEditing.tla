---------------------------- MODULE DriveEditing ----------------------------
(***************************************************************************)
(* The edit sessions of one Drive file.  A session holds the lock of the   *)
(* file, a row that is unique per file and a lease: it ends with the first *)
(* save, or by itself.  A save looks at session and lock, compares the     *)
(* revision its client expects with the current one, stores the content,   *)
(* and only then writes, in one transaction that does not look again.      *)
(* Bodies are in DriveFile; an overwrite by a signed-in user looks at      *)
(* neither locks nor revisions, and writes none.                           *)
(***************************************************************************)
EXTENDS Naturals

CONSTANTS EditSession,   \* rows of drive_edit_sessions
          Editor,        \* requests
          NoSession,
          MaxRevisions

ASSUME EditingAssumption == NoSession \notin EditSession /\ MaxRevisions \in Nat

VARIABLES
    session,   \* [EditSession -> [status, base, live, ended, known, lapsed]]: the
               \* columns, whether expires_at is ahead and ended_at set; history:
               \* the sessions' revisions at base, whether its lease ever ended
    editLock,  \* [of, live]: the row of the lock, of NoSession if there is none
    revisions, \* [saved, stray]: how many revisions were written, by saves of
               \* sessions with the lock, and by others
    call,      \* [Editor -> [op, at, of, expects, base, known]]: the next step of a
               \* request, whether its client expects the session's base revision
               \* or any, what a start has read, and the sessions' revisions
               \* when a request read the current one
    simple     \* whether the connection sends statements by the simple protocol

editingVars == <<session, editLock, revisions, call, simple>>

Revision == revisions.saved + revisions.stray
NoCall   == [op |-> "none", at |-> "idle", of |-> NoSession, expects |-> FALSE,
             base |-> 0, known |-> 0]
Unlocked == [of |-> NoSession, live |-> FALSE]

SessionRow == [status : {"none", "active", "ended", "conflicted"},
               base : 0..MaxRevisions, live : BOOLEAN, ended : BOOLEAN,
               known : 0..MaxRevisions, lapsed : BOOLEAN]

EditCall == [op : {"none", "start", "save", "heartbeat", "end"},
            at : {"idle", "clean", "read", "insert", "compare", "commit", "write"},
            of : EditSession \cup {NoSession}, expects : BOOLEAN,
            base : 0..MaxRevisions, known : 0..MaxRevisions]

EditingTypeOK ==
    /\ session \in [EditSession -> SessionRow]
    /\ editLock \in [of : EditSession \cup {NoSession}, live : BOOLEAN]
    /\ revisions \in [saved : 0..MaxRevisions, stray : 0..MaxRevisions]
    /\ Revision <= MaxRevisions
    /\ call \in [Editor -> EditCall]
    /\ simple \in BOOLEAN

EditingInit ==
    /\ session = [s \in EditSession |-> [status |-> "none", base |-> 0, live |-> FALSE,
                                         ended |-> FALSE, known |-> 0, lapsed |-> FALSE]]
    /\ editLock = Unlocked
    /\ revisions = [saved |-> 0, stray |-> 0]
    /\ call = [c \in Editor |-> NoCall]
    /\ simple \in BOOLEAN

-----------------------------------------------------------------------------
CallAt(c, op, at) == call[c].op = op /\ call[c].at = at
Continue(c, at)   == call' = [call EXCEPT ![c].at = at]
Reply(c)          == call' = [call EXCEPT ![c] = NoCall]

(* What a request about a session first looks for.                         *)
Usable(s) ==
    session[s].status = "active" /\ session[s].live /\ editLock = [of |-> s, live |-> TRUE]

Open(c, op, at, s, expects) ==
    /\ call[c] = NoCall
    /\ call' = [call EXCEPT ![c] = [op |-> op, at |-> at, of |-> s, expects |-> expects,
                                    base |-> 0, known |-> 0]]
    /\ UNCHANGED <<session, editLock, revisions, simple>>

(* Ending a session removes its lock, if it still has it.                  *)
EndSession(s) ==
    /\ session' = [session EXCEPT ![s] = [@ EXCEPT !.status = "ended", !.ended = TRUE]]
    /\ editLock' = IF editLock.of = s THEN Unlocked ELSE editLock

-----------------------------------------------------------------------------
(* StartEditSession.                                                       *)
DeleteExpired_Any(c) ==
    /\ CallAt(c, "start", "clean") /\ Continue(c, "read")
    /\ editLock' = Unlocked
    /\ UNCHANGED <<session, revisions, simple>>

\* An error of this statement is ignored.
DeleteExpired(c) ==
    /\ CallAt(c, "start", "clean") /\ Continue(c, "read")
    /\ \/ editLock' = IF editLock.live THEN editLock ELSE Unlocked
       \/ UNCHANGED editLock
    /\ UNCHANGED <<session, revisions, simple>>

ReadBase(c) ==
    /\ CallAt(c, "start", "read")
    /\ call' = [call EXCEPT ![c] = [@ EXCEPT !.at = "insert", !.base = Revision,
                                           !.known = revisions.saved]]
    /\ UNCHANGED <<session, editLock, revisions, simple>>

InsertSession_TakesLock(c) ==
    /\ CallAt(c, "start", "insert")
    /\ session' = [session EXCEPT ![call[c].of] =
                    [@ EXCEPT !.status = "active", !.live = TRUE,
                              !.base = call[c].base, !.known = call[c].known]]
    /\ editLock' = [of |-> call[c].of, live |-> TRUE]
    /\ Reply(c) /\ UNCHANGED <<revisions, simple>>

\* The insertion of a second lock violates its unique index.
InsertSession(c) ==
    /\ CallAt(c, "start", "insert") /\ editLock.of = NoSession
    /\ session' = [session EXCEPT ![call[c].of] =
                    [@ EXCEPT !.status = "active", !.live = TRUE,
                              !.base = call[c].base, !.known = call[c].known]]
    /\ editLock' = [of |-> call[c].of, live |-> TRUE]
    /\ Reply(c) /\ UNCHANGED <<revisions, simple>>

-----------------------------------------------------------------------------
(* SaveEditSessionContent.                                                 *)
CompareRevision_Skipped(c) ==
    /\ CallAt(c, "save", "compare")
    /\ call' = [call EXCEPT ![c] = [@ EXCEPT !.at = "commit", !.known = revisions.saved]]
    /\ UNCHANGED <<session, editLock, revisions, simple>>

CompareRevision(c) ==
    /\ CallAt(c, "save", "compare")
    /\ call[c].expects => session[call[c].of].base = Revision
    /\ call' = [call EXCEPT ![c] = [@ EXCEPT !.at = "commit", !.known = revisions.saved]]
    /\ UNCHANGED <<session, editLock, revisions, simple>>

\* The status is set whatever it is, and the error of that is ignored.
ConflictDetected(c) ==
    /\ CallAt(c, "save", "compare")
    /\ call[c].expects /\ session[call[c].of].base # Revision
    /\ \/ session' = [session EXCEPT ![call[c].of].status = "conflicted"]
       \/ UNCHANGED session
    /\ Reply(c) /\ UNCHANGED <<editLock, revisions, simple>>

\* The lock may meanwhile be gone or another session's.
CommitSave(c) ==
    /\ CallAt(c, "save", "commit") /\ Revision < MaxRevisions
    /\ revisions' = IF editLock.of = call[c].of THEN [revisions EXCEPT !.saved = @ + 1]
                                                ELSE [revisions EXCEPT !.stray = @ + 1]
    /\ EndSession(call[c].of)
    /\ Reply(c) /\ UNCHANGED simple

-----------------------------------------------------------------------------
(* HeartbeatEditSession and EndEditSession send two statements with        *)
(* arguments in one call.  The extended protocol, which pgx uses unless it *)
(* is told otherwise, refuses that, and they fail.                         *)
HeartbeatWrite(c) ==
    /\ CallAt(c, "heartbeat", "write") /\ simple
    /\ session' = [session EXCEPT
                    ![call[c].of].live = @ \/ session[call[c].of].status = "active"]
    /\ editLock' = [editLock EXCEPT !.live = @ \/ editLock.of = call[c].of]
    /\ Reply(c) /\ UNCHANGED <<revisions, simple>>

EndWrite(c) ==
    /\ CallAt(c, "end", "write") /\ simple
    /\ EndSession(call[c].of)
    /\ Reply(c) /\ UNCHANGED <<revisions, simple>>

-----------------------------------------------------------------------------
\* A look-up, a statement or the storage fails, or the process dies: what
\* was not committed is not there.
Abandon(c) ==
    call[c] # NoCall /\ Reply(c) /\ UNCHANGED <<session, editLock, revisions, simple>>

\* An anonymous editor's overwrite writes a revision and looks at no lock.
PublicOverwrite ==
    /\ Revision < MaxRevisions
    /\ revisions' = [revisions EXCEPT !.stray = @ + 1]
    /\ UNCHANGED <<session, editLock, call, simple>>

\* Session and lock have the same expires_at.
LeaseEnds(s) ==
    /\ session[s].live
    /\ session' = [session EXCEPT ![s] = [@ EXCEPT !.live = FALSE, !.lapsed = TRUE]]
    /\ editLock' = [editLock EXCEPT !.live = @ /\ editLock.of # s]
    /\ UNCHANGED <<revisions, call, simple>>

EditorStep(c) ==
    \/ \E s \in EditSession :
          \/ session[s].status = "none" /\ (\A d \in Editor : call[d].of # s)
             /\ Open(c, "start", "clean", s, FALSE)
          \/ Usable(s) /\ (\/ \E expects \in BOOLEAN : Open(c, "save", "compare", s, expects)
                           \/ Open(c, "heartbeat", "write", s, FALSE)
                           \/ Open(c, "end", "write", s, FALSE))
    \/ DeleteExpired(c) \/ ReadBase(c) \/ InsertSession(c)
    \/ CompareRevision(c) \/ ConflictDetected(c) \/ CommitSave(c)
    \/ HeartbeatWrite(c) \/ EndWrite(c)
    \/ Abandon(c)

EditingNext ==
    \/ \E c \in Editor : EditorStep(c)
    \/ \E s \in EditSession : LeaseEnds(s)
    \/ PublicOverwrite

EditingSpec == EditingInit /\ [][EditingNext]_editingVars

-----------------------------------------------------------------------------
(* Sessions do not overwrite each other's saves unseen: until a session    *)
(* has ended or its lease has, it has the lock, and no other that has it   *)
(* saves between a save's comparison of revisions, or the start of its     *)
(* session if the client tells what it is based on, and its commit, which  *)
(* looks at nothing.  (What overwrites unseen are anonymous editors, a     *)
(* second save of one session, and a save that outlives its lease.)        *)
EditsBuildOnLast ==
    /\ \A s \in EditSession :
          session[s].status = "active" /\ ~session[s].lapsed => editLock.of = s
    /\ \A c \in Editor :
          LET s == session[call[c].of]
          IN  CallAt(c, "save", "commit") =>
                 \/ s.lapsed \/ s.ended
                 \/ /\ revisions.saved = call[c].known
                    /\ call[c].expects => revisions.saved = s.known
=============================================================================
