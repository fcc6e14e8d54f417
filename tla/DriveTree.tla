------------------------------ MODULE DriveTree ------------------------------
(***************************************************************************)
(* The folders of one tenant's Drive: where each is, in its row, and from  *)
(* which folder it inherits access, in OpenFGA.  Every request looks at    *)
(* the tree in statements of its own, then writes tuples, then the row,    *)
(* and undoes the tuples when the row is no longer as expected.            *)
(***************************************************************************)
EXTENDS Faults

CONSTANTS Folder,  \* rows of drive_folders
          Mover,   \* requests
          Root     \* no parent

ASSUME DriveTreeAssumption == Root \notin Folder

VARIABLES
    place,   \* [Folder -> [status, parent, saved, inherit]]: saved is the column
             \* deleted_parent_folder_id, inherit is inheritance_enabled
    parents, \* the parent tuples, <<folder, parent>>
    errand,  \* [Mover -> [op, at, item, from, to, on, sure]]: the next step of a
             \* request, the parent it read, the one to be, the inheritance to be
             \* set; sure: the tree was as it needs when it looked
    raced,   \* history: a row was written although the tree, as its request
             \* needs it when it looked, no longer was so
    clashed  \* history: folders that two requests worked on at once, or whose
             \* request failed and could not undo what it had done

treeVars == <<place, parents, errand, raced, clashed>>

NoErrand == [op |-> "none", at |-> "idle", item |-> Root, from |-> Root, to |-> Root,
             on |-> FALSE, sure |-> FALSE]

TreeTypeOK ==
    /\ place \in [Folder -> [status : {"absent", "live", "trash", "gone"}, parent : Folder \cup {Root},
                           saved : Folder \cup {Root}, inherit : BOOLEAN]]
    /\ parents \subseteq Folder \X Folder
    /\ errand \in [Mover -> [op : {"none", "create", "move", "inherit", "delete", "restore", "purge"},
                             at : {"idle", "check", "old", "new", "row", "undo", "rewrite", "remove"},
                             item : Folder \cup {Root}, from : Folder \cup {Root}, to : Folder \cup {Root},
                             on : BOOLEAN, sure : BOOLEAN]]
    /\ raced \in BOOLEAN
    /\ clashed \subseteq Folder
    /\ \A f, g \in Folder : place[f].status = "gone" => place[g].parent # f

TreeInit ==
    /\ place = [i \in Folder |-> [status |-> "absent", parent |-> Root, saved |-> Root,
                                inherit |-> TRUE]]
    /\ parents = {}
    /\ errand = [m \in Mover |-> NoErrand]
    /\ raced = FALSE
    /\ clashed = {}

-----------------------------------------------------------------------------
Status(s) == {i \in Folder : place[i].status = s}
Present(f) == f = Root \/ f \in Status("live")
Children(f) == {i \in Folder : place[i].parent = f}

\* IsDriveFolderDescendant: the folder and the live folders below it, the
\* least set that holds the folder and the live children of what it holds.
Closed(S) == \A g \in Status("live") : place[g].parent \in S => g \in S
Below(f) ==
    {g \in Status("live") :
        /\ f \in Status("live")
        /\ \A S \in SUBSET Folder : f \in S /\ Closed(S) => g \in S}

\* What a request needs of the tree when it writes the row (or removes one).
Sound(op, i, to) ==
    CASE op = "purge" -> Children(i) = {}
      [] op \in {"delete", "remove"} -> Children(i) \cap Status("live") = {}
      [] OTHER -> Present(to) /\ (to = Root \/ to \notin Below(i))

AtStep(m, s) == errand[m].at = s
Proceed(m, s) == errand' = [errand EXCEPT ![m].at = s]
Leave(m)      == errand' = [errand EXCEPT ![m] = NoErrand]
Begin(m, op, i, from, to, on, step) ==
    errand' = [errand EXCEPT ![m] = [op |-> op, at |-> step, item |-> i, from |-> from, to |-> to,
                                     on |-> on, sure |-> Sound(op, i, to)]]

AtRow(m, op) == AtStep(m, "row") /\ errand[m].op = op

Tuple(i, f) == IF f = Root THEN {} ELSE {<<i, f>>}
TreeFails(effect, vs) == Fault /\ (effect \/ UNCHANGED vs)

-----------------------------------------------------------------------------
(* CreateFolder: the row, then its tuples; when they fail, the row goes to *)
(* the trash.                                                              *)
StartCreate(m, i, f) ==
    /\ AtStep(m, "idle") /\ place[i].status = "absent"
    /\ \A n \in Mover : errand[n].item # i
    /\ Present(f)
    /\ Begin(m, "create", i, Root, f, FALSE, "row")
    /\ UNCHANGED <<place, parents>> /\ Unfailing

InsertItem(m) ==
    /\ AtRow(m, "create")
    /\ IF errand[m].to \in Status("gone")
       THEN Leave(m) /\ UNCHANGED place
       ELSE /\ place' = [place EXCEPT ![errand[m].item] =
                            [@ EXCEPT !.status = "live", !.parent = errand[m].to]]
            /\ Proceed(m, "new")
    /\ UNCHANGED parents /\ Unfailing

\* SoftDeleteDriveFolder of what was just created.
RemoveCreated(m) ==
    /\ AtStep(m, "remove")
    /\ place' = [place EXCEPT ![errand[m].item].status = IF @ = "live" THEN "trash" ELSE @]
    /\ Leave(m) /\ UNCHANGED parents /\ Unfailing

-----------------------------------------------------------------------------
(* moveFolder.  UpdateFolder reads the row first.                          *)
StartMove(m, i, f) ==
    /\ AtStep(m, "idle") /\ i \in Status("live")
    /\ Begin(m, "move", i, place[i].parent, f, FALSE, "check")
    /\ UNCHANGED <<place, parents>> /\ Unfailing

CheckTarget_AnyTarget(m) ==
    /\ AtStep(m, "check")
    /\ errand' = IF Present(errand[m].to)
                 THEN [errand EXCEPT ![m].at = "old", ![m].from = IF Present(@) THEN @ ELSE Root,
                                     ![m].sure = Sound("move", errand[m].item, errand[m].to)]
                 ELSE [errand EXCEPT ![m] = NoErrand]
    /\ UNCHANGED <<place, parents>> /\ Unfailing

CheckTarget(m) ==
    /\ AtStep(m, "check")
    /\ LET i == errand[m].item
           f == errand[m].to
       IN  IF Present(f) /\ (f = Root \/ f \notin Below(i))
           THEN errand' = [errand EXCEPT ![m].at = "old", ![m].sure = Sound("move", i, f),
                               \* folderParentRef: a parent in the trash is none
                               ![m].from = IF Present(@) THEN @ ELSE Root]
           ELSE Leave(m)
    /\ UNCHANGED <<place, parents>> /\ Unfailing

UpdatePlace_NotUndone(m) ==
    /\ AtRow(m, "move")
    /\ LET i == errand[m].item
           f == errand[m].to
           update == place' = [place EXCEPT ![i].parent = f, ![i].inherit = f # Root]
       IN  IF i \in Status("live") /\ f \notin Status("gone")
           THEN (update /\ Leave(m) /\ Unfailing) \/ (TreeFails(update, place) /\ Proceed(m, "rewrite"))
           ELSE UNCHANGED place /\ Proceed(m, "rewrite") /\ Unfailing
    /\ UNCHANGED parents

UpdatePlace(m) ==
    /\ AtRow(m, "move")
    /\ LET i == errand[m].item
           f == errand[m].to
           update == place' = [place EXCEPT ![i].parent = f, ![i].inherit = f # Root]
           can == i \in Status("live") /\ f \notin Status("gone")
       IN  \/ can /\ update /\ Leave(m) /\ Unfailing
           \/ ~can /\ UNCHANGED place /\ Proceed(m, "undo") /\ Unfailing
           \/ can /\ TreeFails(update, place) /\ Proceed(m, "undo")
    /\ UNCHANGED parents

-----------------------------------------------------------------------------
(* StopInheritance and ResumeInheritance write the tuple and then, with    *)
(* the flag, the parent that was read.                                     *)
StartInherit(m, i, on) ==
    /\ AtStep(m, "idle") /\ i \in Status("live")
    /\ place[i].parent # Root /\ Present(place[i].parent)
    /\ Begin(m, "inherit", i, place[i].parent, place[i].parent, on, IF on THEN "new" ELSE "old")
    /\ UNCHANGED <<place, parents>> /\ Unfailing

UpdateInheritance(m) ==
    /\ AtRow(m, "inherit")
    /\ LET i == errand[m].item
           f == errand[m].to
           update == place' = [place EXCEPT ![i].parent = f, ![i].inherit = errand[m].on]
           can == i \in Status("live") /\ Present(f)
       IN  \/ can /\ update /\ Unfailing
           \/ ~can /\ UNCHANGED place /\ Unfailing
           \/ can /\ TreeFails(update, place)
    /\ Leave(m) /\ UNCHANGED parents

-----------------------------------------------------------------------------
(* DeleteFolder, RestoreFolder and permanentlyDeleteDriveFolder.           *)
StartDelete(m, i) ==
    /\ AtStep(m, "idle") /\ i \in Status("live")
    /\ Children(i) \cap Status("live") = {}
    /\ Begin(m, "delete", i, Root, Root, FALSE, "check")
    /\ UNCHANGED <<place, parents>> /\ Unfailing

\* deleted_parent_folder_id is set whatever the row has become; its error is
\* ignored.
SaveParent(m) ==
    /\ AtStep(m, "check") /\ errand[m].op = "delete"
    /\ LET save == place' = [place EXCEPT ![errand[m].item].saved = place[errand[m].item].parent]
       IN  (save /\ Unfailing) \/ TreeFails(save, place)
    /\ Proceed(m, "row") /\ UNCHANGED parents

SoftDelete(m) ==
    /\ AtRow(m, "delete")
    /\ place' = [place EXCEPT ![errand[m].item].status = IF @ = "live" THEN "trash" ELSE @]
    /\ Leave(m) /\ UNCHANGED parents /\ Unfailing

\* resolveDriveRestorePlacement, for a chosen folder or the previous one.
StartRestore(m, i, f, chosen) ==
    /\ AtStep(m, "idle") /\ i \in Status("trash")
    /\ LET previous == IF place[i].parent = Root THEN place[i].saved ELSE place[i].parent
           target   == IF chosen THEN f ELSE IF Present(previous) THEN previous ELSE Root
       IN  /\ IF chosen THEN Present(f) ELSE f = Root
           /\ Begin(m, "restore", i, previous, target, FALSE,
                    IF previous = target THEN "row" ELSE "old")
    /\ UNCHANGED <<place, parents>> /\ Unfailing

RestoreItem(m) ==
    /\ AtRow(m, "restore")
    /\ LET i == errand[m].item
           update == place' = [place EXCEPT ![i] = [@ EXCEPT !.status = "live", !.saved = Root,
                                                             !.parent = errand[m].to]]
           undo == IF errand[m].from = errand[m].to THEN "idle" ELSE "undo"
           can == i \in Status("trash") /\ errand[m].to \notin Status("gone")
       IN  \/ can /\ update /\ Leave(m) /\ Unfailing
           \/ ~can /\ UNCHANGED place /\ Unfailing
              /\ IF undo = "idle" THEN Leave(m) ELSE Proceed(m, undo)
           \/ can /\ TreeFails(update, place)
              /\ IF undo = "idle" THEN Leave(m) ELSE Proceed(m, undo)
    /\ UNCHANGED parents

StartPurge(m, f) ==
    /\ AtStep(m, "idle") /\ f \in Status("trash") /\ Children(f) = {}
    /\ Begin(m, "purge", f, Root, Root, FALSE, "row")
    /\ UNCHANGED <<place, parents>> /\ Unfailing

\* The foreign keys are ON DELETE SET NULL.
DeleteFolderRow(m) ==
    /\ AtRow(m, "purge")
    /\ LET f == errand[m].item
           without(g) == IF g = f THEN Root ELSE g
       IN  place' = IF f \notin Status("trash") THEN place
                    ELSE [i \in Folder |-> [place[i] EXCEPT !.status = IF i = f THEN "gone" ELSE @,
                                                          !.parent = without(@), !.saved = without(@)]]
    /\ Leave(m) /\ UNCHANGED parents /\ Unfailing

-----------------------------------------------------------------------------
(* The tuples.                                                             *)

\* DeleteResourceParent of the parent that was read.  OpenFGA refuses to
\* delete a tuple that is not there; a restore undoes what it has not done.
RemoveOld(m) ==
    /\ AtStep(m, "old")
    /\ LET old  == Tuple(errand[m].item, errand[m].from)
           next == IF errand[m].op # "inherit" /\ errand[m].to # Root THEN "new" ELSE "row"
           halt == IF errand[m].op = "restore" THEN Proceed(m, "undo") ELSE Leave(m)
           remove == parents' = parents \ old
       IN  \/ old \subseteq parents /\ remove /\ Proceed(m, next) /\ Unfailing
           \/ ~(old \subseteq parents) /\ halt /\ UNCHANGED parents /\ Unfailing
           \/ old # {} /\ old \subseteq parents /\ TreeFails(remove, parents) /\ halt
    /\ UNCHANGED <<place>>

WriteNew(m) ==
    /\ AtStep(m, "new")
    /\ LET write == parents' = parents \cup Tuple(errand[m].item, errand[m].to)
           created == errand[m].op = "create"
       IN  \/ write /\ Unfailing /\ IF created THEN Leave(m) ELSE Proceed(m, "row")
           \/ /\ TreeFails(write, parents)
              /\ CASE created -> Proceed(m, "remove")
                   [] errand[m].op = "inherit" -> Leave(m)
                   [] errand[m].op = "move" -> Proceed(m, "rewrite")
                   [] errand[m].op = "restore" -> Proceed(m, "undo")
    /\ UNCHANGED <<place>>

\* restoreFolderParent and rollbackDriveRestoreTuples; errors are ignored.
RemoveNew(m) ==
    /\ AtStep(m, "undo")
    /\ LET remove == parents' = parents \ Tuple(errand[m].item, errand[m].to)
       IN  (remove /\ Unfailing) \/ TreeFails(remove, parents)
    /\ Proceed(m, "rewrite") /\ UNCHANGED <<place>>

RewriteOld(m) ==
    /\ AtStep(m, "rewrite")
    /\ LET write == parents' = parents \cup Tuple(errand[m].item, errand[m].from)
       IN  (write /\ Unfailing) \/ TreeFails(write, parents)
    /\ Leave(m) /\ UNCHANGED <<place>>

StopErrand(m) ==
    /\ ~AtStep(m, "idle") /\ Fault /\ Leave(m)
    /\ UNCHANGED <<place, parents>>

MoverStep(m) ==
    \/ \E i \in Folder, f \in Folder \cup {Root} :
           StartCreate(m, i, f) \/ StartMove(m, i, f) \/ StartRestore(m, i, f, TRUE)
    \/ \E i \in Folder : StartDelete(m, i) \/ StartRestore(m, i, Root, FALSE) \/ StartPurge(m, i)
    \/ \E i \in Folder, on \in BOOLEAN : StartInherit(m, i, on)
    \/ errand[m].op = "move" /\ CheckTarget(m)
    \/ SaveParent(m)
    \/ InsertItem(m) \/ RemoveCreated(m) \/ UpdatePlace(m) \/ UpdateInheritance(m)
    \/ SoftDelete(m) \/ RestoreItem(m) \/ DeleteFolderRow(m)
    \/ RemoveOld(m) \/ WriteNew(m) \/ RemoveNew(m) \/ RewriteOld(m)
    \/ StopErrand(m)

InHandOf(i) == {m \in Mover : errand[m].item = i}

\* A failure that has changed something, or that the request does not undo.
Spoilt(m) ==
    /\ faults' # faults
    /\ \/ <<place, parents>>' # <<place, parents>>
       \/ errand[m].at \in {"undo", "rewrite"} \/ errand[m].op = "create"
       \/ errand'[m] = NoErrand /\ ~AtStep(m, "old")

Record(m) ==
    /\ LET e == errand[m]
       IN  raced' = (\/ raced
                     \/ e.at = "row" /\ e.sure /\ ~Sound(e.op, e.item, e.to)
                     \/ e.at = "remove" /\ ~Sound("remove", e.item, e.to))
    /\ clashed' = clashed \cup
           {i \in Folder : (\E n, o \in InHandOf(i)' : n # o) \/ (errand[m].item = i /\ Spoilt(m))}

TreeNext == \E m \in Mover : MoverStep(m) /\ Record(m)

TreeSpec == TreeInit /\ FaultsInit /\ [][TreeNext]_<<treeVars, faults>>

-----------------------------------------------------------------------------
(* The folders form a tree: no folder is above itself, and what is live is *)
(* in a live folder or at the root, although each request looks first and  *)
(* writes later, unless one wrote when what it had found no longer held    *)
(* (two moves at once can close a cycle).                                  *)
TreeStaysTree ==
    raced \/ \A i \in Status("live") : Present(place[i].parent) /\ place[i].parent \notin Below(i)

(* Access is inherited from the folder one is in, and from no other, as    *)
(* long as the row says so: a request that fails has undone its tuples,    *)
(* whichever statement failed, unless the failed one was applied, or two   *)
(* requests worked on the folder at once.                                  *)
TuplesFollowPlaces ==
    raced \/ \A i \in Folder \ clashed : InHandOf(i) = {} =>
        /\ \A f \in Folder : <<i, f>> \in parents => place[i].parent = f
        /\ i \in Status("live") /\ place[i].inherit => Tuple(i, place[i].parent) \subseteq parents

(* Both: access follows the tree, and there is one to follow.              *)
FoldersAgree == TreeStaysTree /\ TuplesFollowPlaces
=============================================================================
