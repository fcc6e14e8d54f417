SPECIFICATION DriveSpec
CONSTANTS
    Request = {r1, r2}
    Purger = {p1}
    Ops <- EveryOp
    MaxKeys = 3
    Share = {s1, s2}
    Sharer = {r1, r2}
    NoShare = NoShare
    Folder = {f, g}
    Mover = {r1, r2}
    Root = Root
    EditSession = {e1, e2}
    Editor = {r1, r2}
    NoSession = NoSession
    MaxRevisions = 2
    MaxFaults = 1
CHECK_DEADLOCK FALSE
SYMMETRY DriveSymmetry
INVARIANTS DriveTypeOK BodyKept AccessFollowsShares FoldersAgree EditsBuildOnLast
PROPERTIES PurgedIsFinal HoldProtects
