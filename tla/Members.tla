------------------------------ MODULE Members ------------------------------
(***************************************************************************)
(* The members of one workshop as the other services see them: the role    *)
(* each user holds in it right now, and whether it is the workshop the     *)
(* user has selected.  Every business transaction re-reads both under the  *)
(* write lock (auth.Require, memory.Service.authorize), so they are shared *)
(* state of every component of the workshop.                               *)
(***************************************************************************)
EXTENDS Access

CONSTANTS
  User,        \* the people who are, were or may become members
  GivenRole    \* the roles managers hand out in the instance

ASSUME GivenRoleAssumption == GivenRole \subseteq Assignable

VARIABLES
  role,        \* role[u]: u's effective role; "NONE" while the membership is
               \* disabled, removed or left, or does not exist
  here         \* here[u]: u's active_workshop_id is this workshop

memberVars == <<role, here>>

MembersTypeOK ==
  /\ role \in [User -> MemberRole \cup {"NONE"}]
  /\ here \in [User -> BOOLEAN]

\* auth.Require: the membership is active and its role carries p.
Can(u, p) == p \in Permissions(role[u])

\* memory.Service.authorize, the head of every memory transaction.
Authorized(u) == Can(u, "workshop.read") /\ here[u]

-----------------------------------------------------------------------------
\* ChangeRole: the owner's role is changed only by TransferOwnership.
ChangeRole(actor, u, r) ==
  /\ Can(actor, "members.manage")
  /\ role[u] \notin {"OWNER", "NONE"}
  /\ role' = [role EXCEPT ![u] = r]
  /\ UNCHANGED here

\* ChangeMemberStatus to disabled or removed by a manager, to left by the
\* member.  The selected workshop is kept until ActiveWorkshop resolves it.
Deactivate(actor, u) ==
  /\ \/ Can(actor, "members.manage")
     \/ actor = u /\ Can(actor, "workshop.read")
  /\ role[u] \notin {"OWNER", "NONE"}
  /\ role' = [role EXCEPT ![u] = "NONE"]
  /\ UNCHANGED here

\* ChangeMemberStatus back to active: the stored role, any non-owner one.
Activate(actor, u, r) ==
  /\ Can(actor, "members.manage")
  /\ role[u] = "NONE"
  /\ role' = [role EXCEPT ![u] = r]
  /\ UNCHANGED here

\* TransferOwnership writes both rows in one transaction.
TransferOwnership(from, to) ==
  /\ from # to
  /\ Can(from, "ownership.transfer")
  /\ Can(to, "workshop.read")
  /\ role' = [role EXCEPT ![to] = "OWNER", ![from] = "ADMIN"]
  /\ UNCHANGED here

\* setActive on this workshop, from another one or from none.
SelectHere(u) ==
  /\ Can(u, "workshop.read")
  /\ ~here[u]
  /\ here' = [here EXCEPT ![u] = TRUE]
  /\ UNCHANGED role

\* setActive on another workshop the user belongs to.
SelectElsewhere(u) ==
  /\ here[u]
  /\ here' = [here EXCEPT ![u] = FALSE]
  /\ UNCHANGED role

\* ActiveWorkshop finds the selected workshop inaccessible and clears it.
LoseContext(u) ==
  /\ here[u]
  /\ ~Can(u, "workshop.read")
  /\ here' = [here EXCEPT ![u] = FALSE]
  /\ UNCHANGED role

\* The membership steps that touch nothing but the membership.
MemberStep ==
  \E actor, u \in User :
    \/ \E r \in GivenRole : ChangeRole(actor, u, r) \/ Activate(actor, u, r)
    \/ Deactivate(actor, u)
    \/ TransferOwnership(actor, u)

MembersInit(owner) ==
  /\ role \in [User -> GivenRole \cup {"OWNER", "NONE"}]
  /\ \A u \in User : role[u] = "OWNER" <=> u = owner
  /\ here = [u \in User |-> role[u] # "NONE"]

-----------------------------------------------------------------------------
(* The workshop always has one owner, and only one: ownership moves by      *)
(* TransferOwnership (two UPDATEs of one transaction) and no role change,   *)
(* removal or departure can take it from its holder.                        *)
OneOwner ==
  /\ \E u \in User : role[u] = "OWNER"
  /\ \A u, v \in User : role[u] = "OWNER" /\ role[v] = "OWNER" => u = v
=============================================================================
