------------------------------ MODULE Identity ------------------------------
(***************************************************************************)
(* Who belongs to which workshop, and which one each person works in       *)
(* (internal/workshops), with the screens of the bot through which people  *)
(* change it.  Every service operation is one transaction that takes the   *)
(* write lock before it reads, and a press runs under the application      *)
(* lock, so one press is one action.  What waits is the confirmation: it   *)
(* is pressed long after it was shown, when the roles, the selection, the  *)
(* invitation or the target's row may be different.                        *)
(***************************************************************************)
EXTENDS Access, Integers, FiniteSets

CONSTANTS
  User, Workshop,
  Invite,        \* invitations, each created at most once
  Given,         \* the roles people hand out in the instance
  MaxUses,       \* bound of the instance on the uses of an invitation
  NoRow,         \* the person has no row in workshop_members
  NoInvite,      \* not created
  NoWorkshop,    \* active_workshop_id is NULL
  Nothing        \* no confirmation is shown, or a confirmation without a target

ASSUME GivenAssumption == Given \subseteq Assignable
ASSUME UsesAssumption == MaxUses \in Nat \ {0}
ASSUME NowhereAssumption == NoWorkshop \notin Workshop

VARIABLES
  member,        \* workshop_members
  active,        \* user_workshop_context
  invite,        \* workshop_invites
  joined,        \* the INVITE_ACCEPTED events of audit_logs
  asked          \* the confirmation each person was shown last

identityVars == <<member, active, invite, joined, asked>>

MemberStatus == {"active", "disabled", "removed", "left"}
MemberRow == [role : MemberRole, status : MemberStatus]
InviteRow == [workshop : Workshop, role : Assignable, max : 1 .. MaxUses,
              used : 0 .. MaxUses, status : {"active", "used", "revoked"},
              expired : BOOLEAN]
\* Action, Workshop and Target or Value of a button.
Button == [action : {"role", "invite"}, workshop : Workshop,
           target : User \cup {Nothing}, value : Assignable]
          \cup [action : {"disabled", "active", "removed", "left", "transfer", "switch_to"},
                workshop : Workshop, target : User]
          \cup [action : {"revoke", "accept"}, workshop : Workshop, target : Invite]

\* NULL and a missing row are neither rows nor buttons.
ASSUME MarkersAssumption ==
  NoRow \notin MemberRow /\ NoInvite \notin InviteRow /\ Nothing \notin Button

IdentityTypeOK ==
  /\ member \in [Workshop -> [User -> MemberRow \cup {NoRow}]]
  /\ active \in [User -> Workshop \cup {NoWorkshop}]
  /\ invite \in [Invite -> {i \in InviteRow : i.used <= i.max} \cup {NoInvite}]
  /\ joined \subseteq Invite \X User
  /\ asked \in [User -> Button \cup {Nothing}]

-----------------------------------------------------------------------------
\* auth.Require on a given table of members.
Requires(m, u, w, p) ==
  m[w][u] # NoRow /\ m[w][u].status = "active" /\ p \in Permissions(m[w][u].role)
MayIn(u, w, p) == Requires(member, u, w, p)

Founded(w) == \E u \in User : member[w][u] # NoRow

\* AvailableWorkshops
Available(m, u) == {w \in Workshop : Requires(m, u, w, "workshop.read")}

\* inviteFrom
Usable(i) ==
  /\ invite[i] # NoInvite
  /\ invite[i].status = "active" /\ ~invite[i].expired
  /\ invite[i].used < invite[i].max

\* Variant TLC must refute: the reset goes on to the remaining workshop.
ResolvedAtOnce(m, a, u) ==
  IF a[u] \in Available(m, u) THEN a[u]
  ELSE IF Cardinality(Available(m, u)) = 1
       THEN CHOOSE w \in Available(m, u) : TRUE
       ELSE NoWorkshop

\* ActiveWorkshop on given tables: a selection that is still accessible stays,
\* one that is not is cleared, and without one the only workshop is selected.
Resolved(m, a, u) ==
  IF a[u] # NoWorkshop
  THEN IF a[u] \in Available(m, u) THEN a[u] ELSE NoWorkshop
  ELSE IF Cardinality(Available(m, u)) = 1
       THEN CHOOSE w \in Available(m, u) : TRUE
       ELSE NoWorkshop

\* Any message of u resolves the workshop it is about.
ActiveWorkshop(u) ==
  /\ active' = [active EXCEPT ![u] = Resolved(member, active, u)]
  /\ UNCHANGED <<member, invite, joined, asked>>

\* The screen shown at the end of most presses resolves it once more.
Home(m, a, u) == active' = [a EXCEPT ![u] = Resolved(m, a, u)]

-----------------------------------------------------------------------------
\* CreateOwnedWorkshop, from the confirmed name.
CreateOwnedWorkshop(u, w) ==
  /\ ~Founded(w)
  /\ member' = [member EXCEPT ![w][u] = [role |-> "OWNER", status |-> "active"]]
  /\ active' = [active EXCEPT ![u] = w]
  /\ UNCHANGED <<invite, joined, asked>>

\* The menus: what each screen offers the person who opens it.
OfferedMember(u, w, v) ==
  LET row == member[w][v] IN
  {b \in [action : {"role"}, workshop : {w}, target : {v}, value : Given] :
     MayIn(u, w, "members.manage") /\ row.role # "OWNER"}
  \cup {b \in [action : {IF row.status = "active" THEN "disabled" ELSE "active", "removed"},
               workshop : {w}, target : {v}] :
          MayIn(u, w, "members.manage") /\ row.role # "OWNER"}
  \cup {b \in [action : {"transfer"}, workshop : {w}, target : {v}] :
          MayIn(u, w, "ownership.transfer") /\ u # v /\ row.status = "active"}

OfferedInvites(u, w) ==
  {b \in [action : {"invite"}, workshop : {w}, target : {Nothing}, value : Given] :
     MayIn(u, w, "members.invite")}
  \cup {b \in [action : {"revoke"}, workshop : {w}, target : Invite] :
          /\ MayIn(u, w, "members.invite") /\ invite[b.target] # NoInvite
          /\ invite[b.target].workshop = w
          /\ invite[b.target].status = "active" /\ ~invite[b.target].expired}

\* What home, the switcher and an invitation link offer.
OfferedHome(u) ==
  {b \in [action : {"left"}, workshop : {active[u]} \cap Workshop, target : {u}] :
     MayIn(u, active[u], "workshop.read")}
  \cup [action : {"switch_to"}, workshop : Available(member, u), target : {u}]

OfferedLink(u) ==
  {[action |-> "accept", workshop |-> invite[i].workshop, target |-> i] :
     i \in {j \in Invite : Usable(j)}}

\* In a workshop a screen takes the right to read it and its being selected.
Offered(u) ==
  OfferedHome(u) \cup OfferedLink(u)
  \cup IF active[u] \notin Available(member, u) THEN {}
       ELSE OfferedInvites(u, active[u])
            \cup UNION {OfferedMember(u, active[u], v) :
                          v \in {x \in User : member[active[u]][x] # NoRow}}

\* A screen is opened and the button that asks for a confirmation pressed.
Ask(u) ==
  /\ \E b \in Offered(u) : asked' = [asked EXCEPT ![u] = b]
  /\ UNCHANGED <<member, active, invite, joined>>

-----------------------------------------------------------------------------
\* The selections once executeButton has resolved that of the person who presses:
\* without one, the only workshop is selected before its button is looked at.
Selected(u, b) ==
  IF b.action \in {"accept", "switch_to"} THEN active
  ELSE [active EXCEPT ![u] = Resolved(member, active, u)]

\* The service operations, as the tables they leave; b is the button, u presses it.

\* Variant TLC must refute: the owner's role is changed like any other.
ChangeRoleAnyone(u, b) ==
  /\ b.action = "role"
  /\ MayIn(u, b.workshop, "members.manage")
  /\ member[b.workshop][b.target].status \in {"active", "disabled"}
  /\ member' = [member EXCEPT ![b.workshop][b.target].role = b.value]
  /\ UNCHANGED <<invite, joined>>
  /\ active' = Selected(u, b)

\* The role of an active or disabled member; the owner's moves by a transfer.
ChangeRole(u, b) ==
  /\ b.action = "role"
  /\ MayIn(u, b.workshop, "members.manage")
  /\ member[b.workshop][b.target].status \in {"active", "disabled"}
  /\ member[b.workshop][b.target].role # "OWNER"
  /\ member' = [member EXCEPT ![b.workshop][b.target].role = b.value]
  /\ UNCHANGED <<invite, joined>>
  /\ active' = Selected(u, b)

\* A manager disables, removes or brings back; people leave by themselves.  The
\* selection of the target is left to the target's next message.
ChangeMemberStatus(u, b) ==
  /\ b.action \in MemberStatus
  /\ MayIn(u, b.workshop, IF b.action = "left" THEN "workshop.read" ELSE "members.manage")
  /\ member[b.workshop][b.target].role # "OWNER"
  /\ member' = [member EXCEPT ![b.workshop][b.target].status = b.action]
  /\ UNCHANGED <<invite, joined>>
  /\ Home(member', Selected(u, b), u)

TransferOwnership(u, b) ==
  /\ b.action = "transfer"
  /\ MayIn(u, b.workshop, "ownership.transfer")
  /\ MayIn(b.target, b.workshop, "workshop.read")
  /\ member' = [member EXCEPT ![b.workshop][b.target].role = "OWNER",
                              ![b.workshop][u].role = "ADMIN"]
  /\ UNCHANGED <<invite, joined>>
  /\ Home(member', Selected(u, b), u)

\* uses is InviteMaxUses of the configuration.
CreateInvite(u, b) ==
  /\ b.action = "invite"
  /\ MayIn(u, b.workshop, "members.invite")
  /\ \E i \in Invite, uses \in 1 .. MaxUses :
       /\ invite[i] = NoInvite
       /\ invite' = [invite EXCEPT ![i] =
            [workshop |-> b.workshop, role |-> b.value, max |-> uses, used |-> 0,
             status |-> "active", expired |-> FALSE]]
  /\ UNCHANGED <<member, joined>>
  /\ active' = Selected(u, b)

\* An invitation past its time is revoked all the same.
RevokeInvite(u, b) ==
  /\ b.action = "revoke"
  /\ MayIn(u, b.workshop, "members.invite")
  /\ invite[b.target].status = "active"
  /\ invite' = [invite EXCEPT ![b.target].status = "revoked"]
  /\ UNCHANGED <<member, joined>>
  /\ active' = Selected(u, b)

\* Variant TLC must refute: a row of the person is not looked for.
AcceptInviteAgain(u, b) ==
  /\ b.action = "accept" /\ Usable(b.target)
  /\ LET i == invite[b.target] IN
     /\ member' = [member EXCEPT ![b.workshop][u] = [role |-> i.role, status |-> "active"]]
     /\ invite' = [invite EXCEPT ![b.target].used = @ + 1,
          ![b.target].status = IF i.used + 1 >= i.max THEN "used" ELSE "active"]
  /\ joined' = joined \cup {<<b.target, u>>}
  /\ Home(member', [active EXCEPT ![u] = b.workshop], u)

\* Whoever has a row already, in whatever status, comes back through a manager.
AcceptInvite(u, b) ==
  /\ b.action = "accept" /\ Usable(b.target)
  /\ member[b.workshop][u] = NoRow
  /\ LET i == invite[b.target] IN
     /\ member' = [member EXCEPT ![b.workshop][u] = [role |-> i.role, status |-> "active"]]
     /\ invite' = [invite EXCEPT ![b.target].used = @ + 1,
          ![b.target].status = IF i.used + 1 >= i.max THEN "used" ELSE "active"]
  /\ joined' = joined \cup {<<b.target, u>>}
  /\ Home(member', [active EXCEPT ![u] = b.workshop], u)

\* setActive
SetActiveWorkshop(u, b) ==
  /\ b.action = "switch_to"
  /\ MayIn(u, b.workshop, "workshop.read")
  /\ active' = [active EXCEPT ![u] = b.workshop]
  /\ UNCHANGED <<member, invite, joined>>

\* executeButton: the button is used up; one about a workshop works for those who
\* may read it and have it selected, or have no other to select.
InContext(u, b) ==
  \/ b.action \in {"accept", "switch_to"}
  \/ /\ MayIn(u, b.workshop, "workshop.read")
     /\ Selected(u, b)[u] = b.workshop

Operation(u, b) ==
  \/ ChangeRole(u, b) \/ ChangeMemberStatus(u, b) \/ TransferOwnership(u, b)
  \/ CreateInvite(u, b) \/ RevokeInvite(u, b) \/ AcceptInvite(u, b)
  \/ SetActiveWorkshop(u, b)

Pressed(u) == asked' = [asked EXCEPT ![u] = Nothing]

Press(u) ==
  /\ asked[u] # Nothing
  /\ Pressed(u)
  /\ InContext(u, asked[u])
  /\ Operation(u, asked[u])

\* A press the context or the service refuses changes what resolving changes.
\* Expiry and a restart of the bot drop the button just so.
Refused(u) ==
  /\ asked[u] # Nothing
  /\ Pressed(u)
  /\ active' \in {active, [active EXCEPT ![u] = Resolved(member, active, u)]}
  /\ UNCHANGED <<member, invite, joined>>

\* expires_at passes.
Expire(i) ==
  /\ invite[i] # NoInvite /\ ~invite[i].expired
  /\ invite' = [invite EXCEPT ![i].expired = TRUE]
  /\ UNCHANGED <<member, active, joined, asked>>

IdentityInit ==
  /\ member = [w \in Workshop |-> [u \in User |-> NoRow]]
  /\ active = [u \in User |-> NoWorkshop]
  /\ invite = [i \in Invite |-> NoInvite]
  /\ joined = {}
  /\ asked = [u \in User |-> Nothing]

IdentityNext ==
  \/ \E u \in User, w \in Workshop : CreateOwnedWorkshop(u, w)
  \/ \E u \in User : ActiveWorkshop(u) \/ Ask(u) \/ Press(u) \/ Refused(u)
  \/ \E i \in Invite : Expire(i)

IdentitySpec == IdentityInit /\ [][IdentityNext]_identityVars

-----------------------------------------------------------------------------
(* Invitations, members and the audit log agree: an invitation was used as   *)
(* often as people joined by it and no more often than it allows; it is      *)
(* used up exactly then; nobody joined a workshop twice; and whoever has a   *)
(* row has joined by an invitation or is the one who founded the workshop.   *)
InviteLedger ==
  /\ \A i \in Invite :
       LET by == {u \in User : <<i, u>> \in joined} IN
       IF invite[i] = NoInvite THEN by = {}
       ELSE /\ Cardinality(by) = invite[i].used
            /\ invite[i].used <= invite[i].max
            /\ invite[i].status = "used" <=> invite[i].used = invite[i].max
            /\ \A u \in by : member[invite[i].workshop][u] # NoRow
  /\ \A w \in Workshop, u \in User :
       Cardinality({i \in Invite : <<i, u>> \in joined /\ invite[i].workshop = w}) <= 1
  /\ \A w \in Workshop :
       Cardinality({u \in User : /\ member[w][u] # NoRow
                                 /\ ~\E i \in Invite : /\ <<i, u>> \in joined
                                                       /\ invite[i].workshop = w})
         = IF Founded(w) THEN 1 ELSE 0

(* Rows, invitations and audit events have their types and agree: used as    *)
(* often as people joined, nobody joined twice (AcceptInvite, CreateInvite). *)
InvitesAgree == IdentityTypeOK /\ InviteLedger

\* What the other components see of a workshop.
EffectiveRole(w) ==
  [u \in User |-> IF member[w][u] # NoRow /\ member[w][u].status = "active"
                  THEN member[w][u].role ELSE "NONE"]
MembersOf(w) == INSTANCE Members WITH
  GivenRole <- Assignable, role <- EffectiveRole(w), here <- [u \in User |-> FALSE]

AllowedChange(w) ==
  \/ UNCHANGED EffectiveRole(w)
  \/ MembersOf(w)!MemberStep
  \/ ~Founded(w) /\ MembersOf(w)!OneOwner'

(* Members is what the tasks and the stock assume of a workshop.  Whatever   *)
(* people press, however late, each workshop changes as Members allows:      *)
(* by somebody who may manage it then, or by founding it with one owner.     *)
(* Whoever accepts an invitation joins as if the owner had let them in.      *)
MembersView == [][\A w \in Workshop : AllowedChange(w)]_identityVars

Chosen(u) ==
  active[u] # NoWorkshop /\ active'[u] \notin {active[u], NoWorkshop} =>
    \/ ~Founded(active'[u])
    \/ /\ asked[u] # Nothing /\ asked'[u] = Nothing
       /\ asked[u].action \in {"accept", "switch_to"}
       /\ asked[u].workshop = active'[u]

(* Nobody is moved to another workshop unasked: when access to the selected  *)
(* one is lost, that press or message leaves the person with none, even if   *)
(* one remains; another one is selected by switching, joining or founding.   *)
MovedByChoice == [][\A u \in User : Chosen(u)]_identityVars
=============================================================================
