SPECIFICATION AllSpec
CONSTANTS
 Version = {v1, v2, v3}
 Publisher = {p1, p2, p3}
 NoVersion = NoVersion
 Session = {a, b}
 Client = {x, y}
 Life = 2
 NoSession = NoSession
 Token = {t1, t2, t3}
 Caller = {c1, c2}
 NoToken = NoToken
 KeyRow = {k1, k2}
 Invitation = {i1, i2}
 Request = {r1, r2}
 Payload = {b1}
 NoRow = NoRow
 NoInvitation = NoInvitation
 NoBody = NoBody
 MaxFaults = 1
CHECK_DEADLOCK FALSE
SYMMETRY Symmetry
INVARIANTS RequestsTypeOK CurrentIsPublished EndedStaysEnded GrantMatchesProvider KeyTellsEffect InvitationSettledOnce
PROPERTIES ImplementsVersions
