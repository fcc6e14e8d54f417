------------------------------- MODULE MCDrive -------------------------------
(* Four components of Drive over rows, bodies and tuples of their own: the *)
(* requests of one do not read what those of another write, so one of them  *)
(* is at work in each behaviour.                                            *)
EXTENDS MCDriveFile, DriveSharing, DriveTree, DriveEditing

VARIABLE part

fileVars == <<stat, key, held, overdue, purged, lock, stored, req, job, puts, doomed>>

driveVars == <<vars, sharingVars, treeVars, editingVars, part>>

DriveInit ==
    /\ Init /\ SharingInit /\ TreeInit /\ EditingInit
    /\ part \in {"file", "sharing", "tree", "editing"}
    /\ simple => part = "editing"

DriveNext ==
    /\ UNCHANGED part
    /\ \/ part = "file" /\ Next /\ UNCHANGED <<sharingVars, treeVars, editingVars>>
       \/ part = "sharing" /\ SharingNext /\ UNCHANGED <<fileVars, treeVars, editingVars>>
       \/ part = "tree" /\ TreeNext /\ UNCHANGED <<fileVars, sharingVars, editingVars>>
       \/ part = "editing" /\ EditingNext /\ UNCHANGED <<vars, sharingVars, treeVars>>

DriveSpec == DriveInit /\ [][DriveNext]_driveVars

-----------------------------------------------------------------------------
(* Rows, bodies, tuples and requests stay in their types: a request never  *)
(* works on a share that was not created, nor is a deleted folder anyone's *)
(* parent.                                                                 *)
DriveTypeOK == TypeOK /\ SharingTypeOK /\ TreeTypeOK /\ EditingTypeOK

DriveSymmetry == Symmetric \cup Permutations(Folder) \cup Permutations(EditSession)
=============================================================================
