----------------------------- MODULE MCRequests -----------------------------
(* Components whose requests run concurrently over rows or keys of their   *)
(* own: they share nothing, so one of them is at work in each behaviour.   *)
EXTENDS PipelinePublish, SessionStore, DelegatedGrant, Invitations, TLC

VARIABLE part

allVars == <<vars, sessionVars, grantVars, invitationVars, faults, part>>

AllInit == /\ FaultsInit
           /\ Init /\ SessionInit /\ GrantInit /\ InvitationsInit
           /\ part \in {"publish", "session", "grant", "invitation"}
           /\ part # "grant" => rotates

Idle(others) == UNCHANGED others

AllNext ==
    /\ UNCHANGED part
    /\ \/ /\ part = "publish" /\ Next
          /\ Idle(<<sessionVars, grantVars, invitationVars, faults>>)
       \/ /\ part = "session" /\ SessionNext
          /\ Idle(<<vars, grantVars, invitationVars>>)
       \/ /\ part = "grant" /\ GrantNext
          /\ Idle(<<vars, sessionVars, invitationVars>>)
       \/ /\ part = "invitation" /\ InvitationsNext
          /\ Idle(<<vars, sessionVars, grantVars>>)

AllSpec == AllInit /\ [][AllNext]_allVars

-----------------------------------------------------------------------------
(* The rows, keys and requests stay in their types: no version is current  *)
(* that does not exist, the user's set and its TTL agree, a grant has a    *)
(* token, and a scope has one idempotency key.                             *)
RequestsTypeOK ==
    /\ TypeOK /\ SessionTypeOK /\ GrantTypeOK /\ InvitationsTypeOK
    /\ FaultsTypeOK

Symmetry == UNION {Permutations(S) : S \in {Session, Client, Caller}}
=============================================================================
