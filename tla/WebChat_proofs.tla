--------------------------- MODULE WebChat_proofs ---------------------------
(***************************************************************************)
(* Proofs about people, workshops and the web chat, for any numbers of     *)
(* people, workshops, invitations, browsers, codes, sessions and requests: *)
(* invitations and members agree, each workshop changes as the other       *)
(* components assume, nobody is moved unasked, a code opens one session, a *)
(* key runs once, and what a handler read survives the lock it gave away.  *)
(***************************************************************************)
EXTENDS WebChat, FiniteSetTheorems, TLAPS

-----------------------------------------------------------------------------
(* 1. Members, invitations and selections (Identity)                       *)

\* Whom an invitation brought in.
JoinedBy(i) == {u \in User : <<i, u>> \in joined}

\* Who is in a workshop without having been invited.
Uninvited(w) ==
  {u \in User : /\ member[w][u] # NoRow
                /\ ~\E i \in Invite : <<i, u>> \in joined /\ invite[i].workshop = w}

\* InviteLedger without cardinalities where a witness says the same: an invitation
\* stands for the people it brought, who are members of a workshop that exists.
InviteBooks(i) ==
  IF invite[i] = NoInvite THEN JoinedBy(i) = {}
  ELSE /\ IsFiniteSet(JoinedBy(i))
       /\ Cardinality(JoinedBy(i)) = invite[i].used
       /\ invite[i].status = "used" <=> invite[i].used = invite[i].max
       /\ \A u \in JoinedBy(i) : member[invite[i].workshop][u] # NoRow
       /\ Founded(invite[i].workshop)
JoinsOnce ==
  \A i, j \in Invite, u \in User :
     <<i, u>> \in joined /\ <<j, u>> \in joined /\ invite[i].workshop = invite[j].workshop
       => i = j
Founders == \A w \in Workshop : Founded(w) => \E f \in User : Uninvited(w) = {f}
InvitesInv == (\A i \in Invite : InviteBooks(i)) /\ JoinsOnce /\ Founders

\* A workshop that exists has one owner, whose membership is active.
OwnerRow == [role |-> "OWNER", status |-> "active"]
OwnedBy(w, o) ==
  /\ member[w][o] = OwnerRow
  /\ \A u \in User : member[w][u] # NoRow /\ member[w][u].role = "OWNER" => u = o
OwnersInv == \A w \in Workshop : Founded(w) => \E o \in User : OwnedBy(w, o)

\* What stays true of a button of u, however long it is not pressed: rows are never
\* deleted and an invitation stays that of its workshop.
ButtonFits(u, b) ==
  /\ b \in Button
  /\ b.action \in {"accept", "revoke"} =>
       invite[b.target] # NoInvite /\ invite[b.target].workshop = b.workshop
  /\ b.action \in {"role", "transfer"} \cup MemberStatus =>
       b.target \in User /\ member[b.workshop][b.target] # NoRow
  /\ b.action = "left" => b.target = u
  /\ b.action = "transfer" => b.target # u
AskedInv == \A u \in User : asked[u] # Nothing => ButtonFits(u, asked[u])

PeopleInv == IdentityTypeOK /\ InvitesInv /\ OwnersInv
IdentityInv == PeopleInv /\ AskedInv

-----------------------------------------------------------------------------
(* What a button carries, by its action.                                     *)
LEMMA ButtonFields ==
  ASSUME NEW b \in Button
  PROVE  /\ b.workshop \in Workshop
         /\ b.action \in {"role", "invite"} => b.value \in Assignable
         /\ b.action \in {"revoke", "accept"} => b.target \in Invite
         /\ b.action \in {"role", "invite", "disabled", "active", "removed", "left",
                          "transfer", "switch_to", "revoke", "accept"}
  BY DEF Button

(* A row is a role and a status, and never the mark of a missing row.        *)
LEMMA RowFields ==
  ASSUME IdentityTypeOK, NEW w \in Workshop, NEW u \in User, member[w][u] # NoRow
  PROVE  /\ member[w][u] \in MemberRow
         /\ member[w][u].role \in MemberRole /\ member[w][u].status \in MemberStatus
  BY DEF IdentityTypeOK, MemberRow

(* Writing one row of workshop_members changes that row.                     *)
LEMMA RowWritten ==
  ASSUME IdentityTypeOK, NEW w \in Workshop, NEW u \in User, NEW row \in MemberRow,
         member' = [member EXCEPT ![w][u] = row]
  PROVE  /\ member' \in [Workshop -> [User -> MemberRow \cup {NoRow}]]
         /\ \A x \in Workshop, y \in User :
              member'[x][y] = IF x = w /\ y = u THEN row ELSE member[x][y]
         /\ row # NoRow
<1>1. row # NoRow
  BY MarkersAssumption
<1> QED
  BY <1>1 DEF IdentityTypeOK

(* A selection that is resolved is that of some workshop or of none.         *)
LEMMA ResolvedType ==
  ASSUME NEW m, NEW a \in [User -> Workshop \cup {NoWorkshop}], NEW u \in User
  PROVE  Resolved(m, a, u) \in Workshop \cup {NoWorkshop}
<1>1. Cardinality(Available(m, u)) = 1 => \E w : w \in Available(m, u)
  <2>1. Cardinality({}) = 0
    BY FS_EmptySet
  <2>2. Cardinality(Available(m, u)) = 1 => Available(m, u) # {}
    BY <2>1
  <2> QED
    BY <2>2
<1>2. Cardinality(Available(m, u)) = 1 =>
        (CHOOSE w \in Available(m, u) : TRUE) \in Available(m, u)
  BY <1>1
<1> QED
  BY <1>2 DEF Resolved, Available

(* A selection that is still accessible stays and is the only one resolving  *)
(* may leave of it; somebody with a selection is not given another one.      *)
LEMMA ResolvedStays ==
  ASSUME NEW m, NEW a \in [User -> Workshop \cup {NoWorkshop}], NEW u \in User,
         a[u] # NoWorkshop
  PROVE  /\ Resolved(m, a, u) \in {a[u], NoWorkshop}
         /\ a[u] \in Available(m, u) => Resolved(m, a, u) = a[u]
         /\ Resolved(m, a, u) # NoWorkshop => a[u] \in Available(m, u)
  BY DEF Resolved

(* The selections a press leaves are selections.                             *)
LEMMA SelectionTypes ==
  ASSUME NEW a \in [User -> Workshop \cup {NoWorkshop}], NEW m, NEW u \in User,
         Home(m, a, u)
  PROVE  active' \in [User -> Workshop \cup {NoWorkshop}]
  BY ResolvedType DEF Home

LEMMA SelectedType ==
  ASSUME IdentityTypeOK, NEW u \in User, NEW b
  PROVE  Selected(u, b) \in [User -> Workshop \cup {NoWorkshop}]
  BY ResolvedType DEF Selected, IdentityTypeOK

(* What a screen offers fits the state it is drawn in.                       *)
LEMMA OfferedFits ==
  ASSUME IdentityTypeOK, NEW u \in User, NEW b \in Offered(u)
  PROVE  ButtonFits(u, b)
<1>1. CASE b \in OfferedHome(u)
  <2>1. CASE b.action = "left"
    <3>1. /\ b \in [action : {"left"}, workshop : {active[u]} \cap Workshop, target : {u}]
          /\ MayIn(u, active[u], "workshop.read")
      BY <1>1, <2>1 DEF OfferedHome
    <3>2. b \in Button /\ b.target = u /\ b.workshop = active[u] /\ b.workshop \in Workshop
      BY <3>1 DEF Button
    <3>3. member[b.workshop][u] # NoRow
      BY <3>1, <3>2 DEF MayIn, Requires
    <3> QED
      BY <2>1, <3>2, <3>3 DEF ButtonFits
  <2>2. CASE b.action # "left"
    <3>1. b \in [action : {"switch_to"}, workshop : Available(member, u), target : {u}]
      BY <1>1, <2>2 DEF OfferedHome
    <3>2. b \in Button /\ b.action = "switch_to"
      BY <3>1 DEF Button, Available
    <3> QED
      BY <3>2 DEF ButtonFits, MemberStatus
  <2> QED
    BY <2>1, <2>2
<1>2. CASE b \in OfferedLink(u)
  <2>1. PICK i \in Invite : /\ Usable(i)
                            /\ b = [action |-> "accept", workshop |-> invite[i].workshop,
                                    target |-> i]
    BY <1>2 DEF OfferedLink
  <2>2. invite[i] # NoInvite /\ invite[i].workshop \in Workshop
    BY <2>1 DEF Usable, IdentityTypeOK, InviteRow
  <2>3. b \in Button
    BY <2>1, <2>2 DEF Button
  <2> QED
    BY <2>1, <2>2, <2>3 DEF ButtonFits, MemberStatus
<1>3. CASE active[u] \in Available(member, u) /\ b \in OfferedInvites(u, active[u])
  <2>1. active[u] \in Workshop
    BY <1>3 DEF Available
  <2>2. CASE b.action = "invite"
    <3>1. b \in [action : {"invite"}, workshop : {active[u]}, target : {Nothing}, value : Given]
      BY <1>3, <2>2 DEF OfferedInvites
    <3>2. b \in Button
      BY <2>1, <3>1, GivenAssumption DEF Button
    <3> QED
      BY <2>2, <3>2 DEF ButtonFits, MemberStatus
  <2>3. CASE b.action # "invite"
    <3>1. /\ b \in [action : {"revoke"}, workshop : {active[u]}, target : Invite]
          /\ invite[b.target] # NoInvite /\ invite[b.target].workshop = active[u]
      BY <1>3, <2>3 DEF OfferedInvites
    <3>2. b \in Button /\ b.action = "revoke" /\ b.workshop = active[u]
      BY <2>1, <3>1 DEF Button
    <3> QED
      BY <3>1, <3>2 DEF ButtonFits, MemberStatus
  <2> QED
    BY <2>2, <2>3
<1>4. ASSUME active[u] \in Available(member, u),
             NEW v \in User, member[active[u]][v] # NoRow,
             b \in OfferedMember(u, active[u], v)
      PROVE  ButtonFits(u, b)
  <2>1. active[u] \in Workshop
    BY <1>4 DEF Available
  <2>2. member[active[u]][v].status \in MemberStatus
    BY <1>4, <2>1, RowFields
  <2>3. CASE b.action = "role"
    <3>1. b \in [action : {"role"}, workshop : {active[u]}, target : {v}, value : Given]
      BY <1>4, <2>3, <2>2 DEF OfferedMember, MemberStatus
    <3>2. b \in Button /\ b.target = v /\ b.workshop = active[u]
      BY <2>1, <3>1, GivenAssumption DEF Button
    <3> QED
      BY <1>4, <2>3, <3>2 DEF ButtonFits, MemberStatus
  <2>4. CASE b.action = "transfer"
    <3>1. b \in [action : {"transfer"}, workshop : {active[u]}, target : {v}] /\ u # v
      BY <1>4, <2>4 DEF OfferedMember
    <3>2. b \in Button /\ b.target = v /\ b.workshop = active[u]
      BY <2>1, <3>1 DEF Button
    <3> QED
      BY <1>4, <2>4, <3>1, <3>2 DEF ButtonFits, MemberStatus
  <2>5. CASE b.action \notin {"role", "transfer"}
    <3>1. b \in [action : {"disabled", "active", "removed"}, workshop : {active[u]},
                 target : {v}]
      BY <1>4, <2>5 DEF OfferedMember
    <3>2. /\ b \in Button /\ b.target = v /\ b.workshop = active[u]
          /\ b.action \in {"disabled", "active", "removed"}
      BY <2>1, <3>1 DEF Button
    <3> QED
      BY <1>4, <3>2 DEF ButtonFits, MemberStatus
  <2> QED
    BY <2>3, <2>4, <2>5
<1> QED
  BY <1>1, <1>2, <1>3, <1>4 DEF Offered

(* A button goes on fitting while rows and invitations are not taken back.   *)
LEMMA FitsStays ==
  ASSUME NEW u \in User, ButtonFits(u, asked'[u]),
         \A w \in Workshop, v \in User : member[w][v] # NoRow => member'[w][v] # NoRow,
         \A i \in Invite : invite[i] # NoInvite =>
              invite'[i] # NoInvite /\ invite'[i].workshop = invite[i].workshop
  PROVE  ButtonFits(u, asked[u])'
<1> DEFINE b == asked'[u]
<1>1. /\ b.workshop \in Workshop
      /\ b.action \in {"revoke", "accept"} => b.target \in Invite
  BY ButtonFields DEF ButtonFits
<1> QED
  BY <1>1 DEF ButtonFits

-----------------------------------------------------------------------------
(* A workshop of an invitation is one, and one of somebody who joined exists. *)
LEMMA InviteFields ==
  ASSUME IdentityTypeOK, NEW i \in Invite, invite[i] # NoInvite
  PROVE  /\ invite[i] \in InviteRow /\ invite[i].workshop \in Workshop
         /\ invite[i].role \in Assignable
         /\ invite[i].used \in Nat /\ invite[i].max \in 1 .. MaxUses
         /\ invite[i].used <= invite[i].max
  BY UsesAssumption DEF IdentityTypeOK, InviteRow

(* The books about invitations do not depend on what the rows say, only on   *)
(* which of them there are.                                                  *)
LEMMA SameRowsKeep ==
  ASSUME IdentityTypeOK, InvitesInv, UNCHANGED <<invite, joined>>,
         \A w \in Workshop, u \in User : member'[w][u] = NoRow <=> member[w][u] = NoRow
  PROVE  InvitesInv'
<1>1. \A w \in Workshop : Founded(w)' <=> Founded(w)
  BY DEF Founded
<1>2. \A i \in Invite : JoinedBy(i)' = JoinedBy(i)
  BY DEF JoinedBy
<1>3. \A w \in Workshop : Uninvited(w)' = Uninvited(w)
  BY DEF Uninvited
<1>4. Founders'
  BY <1>1, <1>3 DEF InvitesInv, Founders
<1>5. JoinsOnce'
  BY DEF InvitesInv, JoinsOnce
<1>6. ASSUME NEW i \in Invite PROVE InviteBooks(i)'
  <2>1. InviteBooks(i) /\ invite'[i] = invite[i] /\ JoinedBy(i) \subseteq User
    BY DEF InvitesInv, JoinedBy
  <2>2. CASE invite[i] = NoInvite
    BY <1>2, <2>1, <2>2 DEF InviteBooks
  <2>3. CASE invite[i] # NoInvite
    <3>1. invite[i].workshop \in Workshop
      BY <2>3, InviteFields
    <3>2. Founded(invite[i].workshop)' <=> Founded(invite[i].workshop)
      BY <1>1, <3>1
    <3>3. \A u \in JoinedBy(i) : member'[invite[i].workshop][u] # NoRow
      BY <2>1, <2>3, <3>1 DEF InviteBooks
    <3>4. \E u \in User : member'[invite[i].workshop][u] # NoRow
      BY <2>1, <2>3, <3>2 DEF InviteBooks, Founded
    <3> QED
      BY <1>2, <2>1, <2>3, <3>3, <3>4 DEF InviteBooks, Founded
  <2> QED
    BY <2>2, <2>3
<1> QED
  BY <1>4, <1>5, <1>6 DEF InvitesInv

(* Nor do they change by an invitation that is written or changed, if its    *)
(* workshop, its uses and its being used up stay right.                      *)
LEMMA OneInviteKeeps ==
  ASSUME IdentityTypeOK, InvitesInv, UNCHANGED <<member, joined>>, NEW i \in Invite,
         NEW row \in InviteRow, Founded(row.workshop), row.used <= row.max,
         row.status = "used" <=> row.used = row.max,
         IF invite[i] = NoInvite THEN row.used = 0
         ELSE row.used = invite[i].used /\ row.workshop = invite[i].workshop,
         invite' = [invite EXCEPT ![i] = row]
  PROVE  /\ InvitesInv'
         /\ invite' \in [Invite -> {r \in InviteRow : r.used <= r.max} \cup {NoInvite}]
         /\ \A j \in Invite : invite[j] # NoInvite =>
              invite'[j] # NoInvite /\ invite'[j].workshop = invite[j].workshop
<1>1. row # NoInvite
  BY MarkersAssumption
<1>2. /\ invite'[i] = row
      /\ \A j \in Invite : j # i => invite'[j] = invite[j]
  BY DEF IdentityTypeOK
<1>3. invite' \in [Invite -> {r \in InviteRow : r.used <= r.max} \cup {NoInvite}]
  BY DEF IdentityTypeOK
<1>4. \A j \in Invite : invite[j] # NoInvite =>
              invite'[j] # NoInvite /\ invite'[j].workshop = invite[j].workshop
  BY <1>1, <1>2
<1>5. \A j \in Invite : JoinedBy(j)' = JoinedBy(j)
  BY DEF JoinedBy
<1>6. \A j \in Invite, u \in User : <<j, u>> \in joined => invite[j] # NoInvite
  BY DEF InvitesInv, InviteBooks, JoinedBy
<1>7. JoinsOnce'
  BY <1>4, <1>6 DEF InvitesInv, JoinsOnce
<1>8. \A w \in Workshop : Founded(w)' <=> Founded(w)
  BY DEF Founded
<1>9. \A w \in Workshop : Uninvited(w)' = Uninvited(w)
  BY <1>4, <1>6 DEF Uninvited
<1>10. Founders'
  BY <1>8, <1>9 DEF InvitesInv, Founders
<1>11. InviteBooks(i)'
  <2>1. Founded(row.workshop)'
    BY DEF Founded
  <2>2. IsFiniteSet(JoinedBy(i)) /\ Cardinality(JoinedBy(i)) = row.used
    <3>1. CASE invite[i] = NoInvite
      BY <3>1, FS_EmptySet DEF InvitesInv, InviteBooks
    <3>2. CASE invite[i] # NoInvite
      BY <3>2 DEF InvitesInv, InviteBooks
    <3> QED
      BY <3>1, <3>2
  <2>3. \A u \in JoinedBy(i) : member[row.workshop][u] # NoRow
    <3>1. CASE invite[i] = NoInvite
      BY <3>1 DEF InvitesInv, InviteBooks
    <3>2. CASE invite[i] # NoInvite
      BY <3>2 DEF InvitesInv, InviteBooks
    <3> QED
      BY <3>1, <3>2
  <2> QED
    BY <1>1, <1>2, <1>5, <2>1, <2>2, <2>3 DEF InviteBooks
<1>12. ASSUME NEW j \in Invite, j # i PROVE InviteBooks(j)'
  <2>1. InviteBooks(j) /\ invite'[j] = invite[j]
    BY <1>2, <1>12 DEF InvitesInv
  <2>2. invite[j] # NoInvite => Founded(invite[j].workshop)'
    BY <2>1 DEF InviteBooks, Founded
  <2> QED
    BY <1>5, <2>1, <2>2 DEF InviteBooks
<1> QED
  BY <1>3, <1>4, <1>7, <1>10, <1>11, <1>12 DEF InvitesInv

(* Somebody who accepts an invitation is written in all three tables.        *)
LEMMA AcceptKeeps ==
  ASSUME IdentityTypeOK, InvitesInv, NEW u \in User, NEW b, ButtonFits(u, b),
         AcceptInvite(u, b)
  PROVE  /\ InvitesInv'
         /\ invite' \in [Invite -> {r \in InviteRow : r.used <= r.max} \cup {NoInvite}]
         /\ joined' \subseteq Invite \X User
         /\ \A j \in Invite : invite[j] # NoInvite =>
              invite'[j] # NoInvite /\ invite'[j].workshop = invite[j].workshop
<1> DEFINE i == b.target
           w == b.workshop
<1>1. /\ w \in Workshop /\ i \in Invite /\ invite[i] # NoInvite /\ invite[i].workshop = w
      /\ invite[i].status = "active" /\ invite[i].used < invite[i].max
      /\ member[w][u] = NoRow
  BY ButtonFields DEF AcceptInvite, ButtonFits, Usable
<1> DEFINE row == [invite[i] EXCEPT !.used = @ + 1,
              !.status = IF invite[i].used + 1 >= invite[i].max THEN "used" ELSE "active"]
           person == [role |-> invite[i].role, status |-> "active"]
<1>2. /\ joined' = joined \cup {<<i, u>>}
      /\ invite' = [invite EXCEPT ![i].used = @ + 1,
          ![i].status = IF invite[i].used + 1 >= invite[i].max THEN "used" ELSE "active"]
      /\ member' = [member EXCEPT ![w][u] = person]
  BY DEF AcceptInvite
<1>3. invite' = [invite EXCEPT ![i] = row]
  BY <1>1, <1>2 DEF IdentityTypeOK
<1>4. /\ invite[i] \in InviteRow /\ invite[i].role \in Assignable
      /\ invite[i].used \in Nat /\ invite[i].max \in Nat
  BY <1>1, InviteFields
<1>5. /\ row \in InviteRow /\ row.workshop = w /\ row.used = invite[i].used + 1
      /\ row.max = invite[i].max
      /\ row.status = IF row.used >= row.max THEN "used" ELSE "active"
      /\ row # NoInvite /\ row.used <= row.max
  <2>1. invite[i].used + 1 \in 0 .. MaxUses /\ invite[i].used + 1 <= invite[i].max
    BY <1>1, <1>4, UsesAssumption DEF InviteRow
  <2>2. row \in InviteRow
    BY <1>4, <2>1 DEF InviteRow
  <2>3. /\ row.workshop = invite[i].workshop /\ row.used = invite[i].used + 1
        /\ row.max = invite[i].max
        /\ row.status = IF invite[i].used + 1 >= invite[i].max THEN "used" ELSE "active"
    BY <1>4 DEF InviteRow
  <2> HIDE DEF row
  <2> QED
    BY <1>1, <2>1, <2>2, <2>3, MarkersAssumption
<1>6. /\ \A x \in Workshop, y \in User :
           member'[x][y] = IF x = w /\ y = u THEN person ELSE member[x][y]
      /\ person # NoRow
  <2>1. person \in MemberRow
    BY <1>4 DEF MemberRow, MemberRole, MemberStatus
  <2> HIDE DEF person, w
  <2> QED
    BY <1>1, <1>2, <2>1, MarkersAssumption DEF IdentityTypeOK
<1> HIDE DEF row, person
<1>7. /\ invite'[i] = row
      /\ \A j \in Invite : j # i => invite'[j] = invite[j]
      /\ invite' \in [Invite -> {r \in InviteRow : r.used <= r.max} \cup {NoInvite}]
  BY <1>3, <1>5, <1>1 DEF IdentityTypeOK
<1>8. \A j \in Invite : invite[j] # NoInvite =>
              invite'[j] # NoInvite /\ invite'[j].workshop = invite[j].workshop
  BY <1>1, <1>5, <1>7
<1>9. joined' \subseteq Invite \X User
  BY <1>1, <1>2 DEF IdentityTypeOK
<1>10. \A j \in Invite, v \in User : <<j, v>> \in joined =>
         /\ invite[j] # NoInvite /\ member[invite[j].workshop][v] # NoRow
         /\ invite'[j].workshop = invite[j].workshop
  BY <1>8 DEF InvitesInv, InviteBooks, JoinedBy
<1>11. \A j \in Invite : <<j, u>> \in joined => invite[j].workshop # w
  BY <1>1, <1>10
<1>12. \A j \in Invite, v \in User :
         <<j, v>> \in joined' <=> <<j, v>> \in joined \/ (j = i /\ v = u)
  BY <1>1, <1>2
<1>13. JoinsOnce'
  <2> SUFFICES ASSUME NEW j \in Invite, NEW k \in Invite, NEW v \in User,
                      <<j, v>> \in joined', <<k, v>> \in joined',
                      invite'[j].workshop = invite'[k].workshop
               PROVE  j = k
    BY DEF JoinsOnce
  <2>1. invite'[i].workshop = w
    BY <1>5, <1>7
  <2>2. CASE <<j, v>> \in joined /\ <<k, v>> \in joined
    BY <1>10, <2>2 DEF InvitesInv, JoinsOnce
  <2>3. CASE <<j, v>> \in joined /\ k = i /\ v = u
    BY <1>10, <1>11, <2>1, <2>3
  <2>4. CASE <<k, v>> \in joined /\ j = i /\ v = u
    BY <1>10, <1>11, <2>1, <2>4
  <2> QED
    BY <1>12, <2>2, <2>3, <2>4
<1>14. \A x \in Workshop : Founded(x)' <=> Founded(x)
  <2>1. Founded(w)
    BY <1>1 DEF InvitesInv, InviteBooks
  <2>2. Founded(w)'
    BY <1>1, <1>6 DEF Founded
  <2>3. \A x \in Workshop : x # w => (Founded(x)' <=> Founded(x))
    BY <1>6 DEF Founded
  <2> QED
    BY <2>1, <2>2, <2>3
<1>15. \A x \in Workshop : Uninvited(x)' = Uninvited(x)
  <2> TAKE x \in Workshop
  <2>1. ASSUME NEW v \in User PROVE v \in Uninvited(x)' <=> v \in Uninvited(x)
    <3>1. CASE x = w /\ v = u
      BY <1>1, <1>5, <1>7, <1>12, <3>1 DEF Uninvited
    <3>2. CASE ~(x = w /\ v = u)
      <4>1. member'[x][v] = member[x][v]
        BY <1>6, <3>2
      <4>2. (\E j \in Invite : <<j, v>> \in joined' /\ invite'[j].workshop = x)
             <=> (\E j \in Invite : <<j, v>> \in joined /\ invite[j].workshop = x)
        BY <1>5, <1>7, <1>10, <1>12, <3>2
      <4> QED
        BY <4>1, <4>2 DEF Uninvited
    <3> QED
      BY <3>1, <3>2
  <2> QED
    BY <2>1 DEF Uninvited
<1>16. Founders'
  BY <1>14, <1>15 DEF InvitesInv, Founders
<1>17. InviteBooks(i)'
  <2>1. JoinedBy(i)' = JoinedBy(i) \cup {u} /\ u \notin JoinedBy(i)
    BY <1>1, <1>11, <1>12 DEF JoinedBy
  <2>2. InviteBooks(i)
    BY <1>1 DEF InvitesInv
  <2>3. /\ IsFiniteSet(JoinedBy(i)')
        /\ Cardinality(JoinedBy(i)') = row.used
    BY <1>1, <1>5, <2>1, <2>2, FS_AddElement DEF InviteBooks
  <2>4. \A v \in JoinedBy(i)' : member'[w][v] # NoRow
    BY <1>1, <1>6, <2>1, <2>2 DEF InviteBooks, JoinedBy
  <2>5. Founded(w)'
    BY <1>1, <1>14, <2>2 DEF InviteBooks
  <2>6. row.status = "used" <=> row.used = row.max
    BY <1>4, <1>5, <1>1
  <2> QED
    BY <1>5, <1>7, <2>3, <2>4, <2>5, <2>6 DEF InviteBooks
<1>18. ASSUME NEW j \in Invite, j # i PROVE InviteBooks(j)'
  <2>1. InviteBooks(j) /\ invite'[j] = invite[j]
    BY <1>7, <1>18 DEF InvitesInv
  <2>2. JoinedBy(j)' = JoinedBy(j) /\ JoinedBy(j) \subseteq User
    BY <1>12, <1>18 DEF JoinedBy
  <2>3. invite[j] # NoInvite => Founded(invite[j].workshop)'
    BY <1>14, <2>1, InviteFields DEF InviteBooks
  <2>4. invite[j] # NoInvite => \A v \in JoinedBy(j) : member'[invite[j].workshop][v] # NoRow
    BY <1>6, <2>1, <2>2, InviteFields DEF InviteBooks
  <2> QED
    BY <2>1, <2>2, <2>3, <2>4 DEF InviteBooks
<1> QED
  BY <1>7, <1>8, <1>9, <1>13, <1>16, <1>17, <1>18 DEF InvitesInv

-----------------------------------------------------------------------------
(* Who may do what in a workshop is the same for Members and for auth.Require. *)
LEMMA EffectiveCan ==
  ASSUME NEW w \in Workshop, NEW u \in User, NEW p
  PROVE  MembersOf(w)!Can(u, p) <=> Requires(member, u, w, p)
<1>1. \A r : MembersOf(w)!Permissions(r) = Permissions(r)
  BY DEF MembersOf!Permissions, MembersOf!ReadSet, MembersOf!ExecuteSet, MembersOf!ManageSet,
         Permissions, ReadSet, ExecuteSet, ManageSet
<1>2. Permissions("NONE") = {}
  BY DEF Permissions
<1>3. EffectiveRole(w)[u] = IF member[w][u] # NoRow /\ member[w][u].status = "active"
                            THEN member[w][u].role ELSE "NONE"
  BY DEF EffectiveRole
<1>4. MembersOf(w)!Can(u, p) <=> p \in Permissions(EffectiveRole(w)[u])
  BY <1>1 DEF MembersOf!Can
<1> QED
  BY <1>2, <1>3, <1>4 DEF Requires

(* Only an owner may hand the ownership on.                                  *)
LEMMA TransferRight ==
  ASSUME NEW r, "ownership.transfer" \in Permissions(r)
  PROVE  r = "OWNER"
  BY DEF Permissions, ReadSet, ExecuteSet, ManageSet

LEMMA OwnerManages ==
  ASSUME NEW w \in Workshop, NEW o \in User, OwnedBy(w, o), NoRow \notin MemberRow
  PROVE  Requires(member, o, w, "members.manage")
<1>1. OwnerRow \in MemberRow /\ OwnerRow.role = "OWNER" /\ OwnerRow.status = "active"
  BY DEF OwnerRow, MemberRow, MemberRole, MemberStatus
<1>2. "members.manage" \in Permissions("OWNER")
  BY DEF Permissions, ManageSet
<1> QED
  BY <1>1, <1>2 DEF OwnedBy, Requires

(* What the others see of a workshop in which one row is written.            *)
LEMMA EffectiveWritten ==
  ASSUME IdentityTypeOK, NEW w \in Workshop, NEW t \in User, NEW row \in MemberRow,
         member' = [member EXCEPT ![w][t] = row]
  PROVE  /\ \A x \in Workshop : x # w => UNCHANGED EffectiveRole(x)
         /\ EffectiveRole(w)' = [EffectiveRole(w) EXCEPT
              ![t] = IF row.status = "active" THEN row.role ELSE "NONE"]
<1>1. /\ \A x \in Workshop, y \in User :
           member'[x][y] = IF x = w /\ y = t THEN row ELSE member[x][y]
      /\ row # NoRow
  BY RowWritten
<1>2. \A x \in Workshop : x # w => UNCHANGED EffectiveRole(x)
  BY <1>1 DEF EffectiveRole
<1>3. \A u \in User : EffectiveRole(w)'[u] =
        IF u = t THEN IF row.status = "active" THEN row.role ELSE "NONE"
        ELSE EffectiveRole(w)[u]
  BY <1>1 DEF EffectiveRole
<1>4. /\ EffectiveRole(w)' = [u \in User |-> EffectiveRole(w)'[u]]
      /\ EffectiveRole(w) = [u \in User |-> EffectiveRole(w)[u]]
  BY DEF EffectiveRole
<1> QED
  BY <1>2, <1>3, <1>4

(* Writing the row of somebody who is not the owner, to a role that is not   *)
(* the owner's, is one of the steps of Members and keeps the owner.          *)
LEMMA PlainWrite ==
  ASSUME IdentityTypeOK, OwnersInv, NEW w \in Workshop, NEW t \in User,
         NEW row \in MemberRow, member' = [member EXCEPT ![w][t] = row],
         row.role # "OWNER", Founded(w),
         member[w][t] = NoRow \/ member[w][t].role # "OWNER"
  PROVE  OwnersInv' /\ \A x \in Workshop : AllowedChange(x)
<1>1. PICK o \in User : OwnedBy(w, o)
  BY DEF OwnersInv
<1>2. /\ \A x \in Workshop, y \in User :
           member'[x][y] = IF x = w /\ y = t THEN row ELSE member[x][y]
      /\ row # NoRow
  BY RowWritten
<1>3. o # t
  <2>1. OwnerRow # NoRow /\ OwnerRow.role = "OWNER"
    BY MarkersAssumption DEF OwnerRow, MemberRow, MemberRole, MemberStatus
  <2> QED
    BY <1>1, <2>1 DEF OwnedBy
<1>4. OwnersInv'
  <2> SUFFICES ASSUME NEW x \in Workshop, Founded(x)' PROVE \E y \in User : OwnedBy(x, y)'
    BY DEF OwnersInv
  <2>1. CASE x = w
    <3>1. OwnedBy(w, o)'
      BY <1>1, <1>2, <1>3 DEF OwnedBy
    <3> QED
      BY <2>1, <3>1
  <2>2. CASE x # w
    <3>1. Founded(x)
      BY <1>2, <2>2 DEF Founded
    <3>2. PICK y \in User : OwnedBy(x, y)
      BY <3>1 DEF OwnersInv
    <3>3. OwnedBy(x, y)'
      BY <1>2, <2>2, <3>2 DEF OwnedBy
    <3> QED
      BY <3>3
  <2> QED
    BY <2>1, <2>2
<1>5. ASSUME NEW x \in Workshop PROVE AllowedChange(x)
  <2>1. CASE x # w
    BY <2>1, EffectiveWritten DEF AllowedChange
  <2>2. CASE x = w
    <3> DEFINE e == EffectiveRole(w)[t]
               f == IF row.status = "active" THEN row.role ELSE "NONE"
    <3>1. EffectiveRole(w)' = [EffectiveRole(w) EXCEPT ![t] = f]
      BY EffectiveWritten
    <3>2. MembersOf(w)!Can(o, "members.manage")
      BY <1>1, EffectiveCan, OwnerManages, MarkersAssumption
    <3>3. /\ e # "OWNER" /\ EffectiveRole(w) = [u \in User |-> EffectiveRole(w)[u]]
          /\ f \in Assignable \cup {"NONE"}
      BY DEF EffectiveRole, MemberRow, MemberRole
    <3> HIDE DEF e, f
    <3>4. CASE e = f
      <4>1. UNCHANGED EffectiveRole(w)
        BY <3>1, <3>3, <3>4 DEF e
      <4> QED
        BY <2>2, <4>1 DEF AllowedChange
    <3>5. CASE e = "NONE" /\ f # "NONE"
      <4>1. MembersOf(w)!Activate(o, t, f)
        BY <3>1, <3>2, <3>5 DEF MembersOf!Activate, e
      <4> QED
        BY <2>2, <3>3, <3>5, <4>1 DEF AllowedChange, MembersOf!MemberStep
    <3>6. CASE e # "NONE" /\ f = "NONE"
      <4>1. MembersOf(w)!Deactivate(o, t)
        BY <3>1, <3>2, <3>3, <3>6 DEF MembersOf!Deactivate, e
      <4> QED
        BY <2>2, <4>1 DEF AllowedChange, MembersOf!MemberStep
    <3>7. CASE e # "NONE" /\ f # "NONE"
      <4>1. MembersOf(w)!ChangeRole(o, t, f)
        BY <3>1, <3>2, <3>3, <3>7 DEF MembersOf!ChangeRole, e
      <4> QED
        BY <2>2, <3>3, <3>7, <4>1 DEF AllowedChange, MembersOf!MemberStep
    <3> QED
      BY <3>4, <3>5, <3>6, <3>7
  <2> QED
    BY <2>1, <2>2
<1> QED
  BY <1>4, <1>5

(* When no row is written, nothing of this changes.                          *)
LEMMA NoWrite ==
  ASSUME OwnersInv, UNCHANGED member
  PROVE  OwnersInv' /\ \A x \in Workshop : AllowedChange(x)
<1>1. OwnersInv'
  BY DEF OwnersInv, OwnedBy, Founded
<1>2. \A x \in Workshop : UNCHANGED EffectiveRole(x)
  BY DEF EffectiveRole
<1> QED
  BY <1>1, <1>2 DEF AllowedChange

-----------------------------------------------------------------------------
(* What an operation keeps: the books, the owners, and every row and         *)
(* invitation that is there.                                                 *)
Kept ==
  /\ PeopleInv'
  /\ \A x \in Workshop : AllowedChange(x)
  /\ \A w \in Workshop, v \in User : member[w][v] # NoRow => member'[w][v] # NoRow
  /\ \A i \in Invite : invite[i] # NoInvite =>
       invite'[i] # NoInvite /\ invite'[i].workshop = invite[i].workshop

(* A rewritten row is that of a member who is there.                         *)
LEMMA RewriteKept ==
  ASSUME PeopleInv, NEW w \in Workshop, NEW t \in User, NEW row \in MemberRow,
         member[w][t] # NoRow, member[w][t].role # "OWNER", row.role # "OWNER",
         member' = [member EXCEPT ![w][t] = row], UNCHANGED <<invite, joined>>,
         active' \in [User -> Workshop \cup {NoWorkshop}],
         asked' \in [User -> Button \cup {Nothing}]
  PROVE  Kept
<1> USE DEF PeopleInv
<1>1. /\ member' \in [Workshop -> [User -> MemberRow \cup {NoRow}]]
      /\ \A x \in Workshop, y \in User :
           member'[x][y] = IF x = w /\ y = t THEN row ELSE member[x][y]
      /\ row # NoRow
  BY RowWritten
<1>2. \A x \in Workshop, y \in User : member'[x][y] = NoRow <=> member[x][y] = NoRow
  BY <1>1
<1>3. InvitesInv'
  BY <1>2, SameRowsKeep
<1>4. OwnersInv' /\ \A x \in Workshop : AllowedChange(x)
  BY PlainWrite DEF Founded
<1>5. IdentityTypeOK'
  BY <1>1 DEF IdentityTypeOK
<1> QED
  BY <1>2, <1>3, <1>4, <1>5 DEF Kept

LEMMA SelectionKept ==
  ASSUME PeopleInv, UNCHANGED <<member, invite, joined>>,
         active' \in [User -> Workshop \cup {NoWorkshop}],
         asked' \in [User -> Button \cup {Nothing}]
  PROVE  Kept
<1> USE DEF PeopleInv
<1>1. IdentityTypeOK'
  BY DEF IdentityTypeOK
<1>2. InvitesInv'
  BY SameRowsKeep
<1> QED
  BY <1>1, <1>2, NoWrite DEF Kept

LEMMA InviteKept ==
  ASSUME PeopleInv, UNCHANGED <<member, joined>>, NEW i \in Invite,
         NEW row \in InviteRow, Founded(row.workshop), row.used <= row.max,
         row.status = "used" <=> row.used = row.max,
         IF invite[i] = NoInvite THEN row.used = 0
         ELSE row.used = invite[i].used /\ row.workshop = invite[i].workshop,
         invite' = [invite EXCEPT ![i] = row],
         active' \in [User -> Workshop \cup {NoWorkshop}],
         asked' \in [User -> Button \cup {Nothing}]
  PROVE  Kept
<1> USE DEF PeopleInv
<1>1. /\ InvitesInv'
      /\ invite' \in [Invite -> {r \in InviteRow : r.used <= r.max} \cup {NoInvite}]
      /\ \A j \in Invite : invite[j] # NoInvite =>
           invite'[j] # NoInvite /\ invite'[j].workshop = invite[j].workshop
  BY OneInviteKeeps
<1>2. IdentityTypeOK'
  BY <1>1 DEF IdentityTypeOK
<1> QED
  BY <1>1, <1>2, NoWrite DEF Kept

(* A workshop is founded with one owner, and nobody was invited before.      *)
LEMMA FoundingKept ==
  ASSUME PeopleInv, NEW u \in User, NEW w \in Workshop, CreateOwnedWorkshop(u, w)
  PROVE  Kept
<1> USE DEF PeopleInv
<1>1. OwnerRow \in MemberRow /\ OwnerRow.role = "OWNER" /\ OwnerRow.status = "active"
  BY DEF OwnerRow, MemberRow, MemberRole, MemberStatus
<1>2. /\ ~Founded(w) /\ member' = [member EXCEPT ![w][u] = OwnerRow]
      /\ active' = [active EXCEPT ![u] = w] /\ UNCHANGED <<invite, joined, asked>>
  BY DEF CreateOwnedWorkshop, OwnerRow
<1>3. /\ member' \in [Workshop -> [User -> MemberRow \cup {NoRow}]]
      /\ \A x \in Workshop, y \in User :
           member'[x][y] = IF x = w /\ y = u THEN OwnerRow ELSE member[x][y]
      /\ OwnerRow # NoRow
  BY <1>1, <1>2, RowWritten
<1>4. \A y \in User : member[w][y] = NoRow
  BY <1>2 DEF Founded
<1>5. IdentityTypeOK'
  BY <1>2, <1>3 DEF IdentityTypeOK
<1>6. OwnedBy(w, u)'
  BY <1>3, <1>4 DEF OwnedBy
<1>7. OwnersInv'
  <2> SUFFICES ASSUME NEW x \in Workshop, x # w, Founded(x)' PROVE \E y \in User : OwnedBy(x, y)'
    BY <1>6 DEF OwnersInv
  <2>1. Founded(x)
    BY <1>3 DEF Founded
  <2>2. PICK y \in User : OwnedBy(x, y)
    BY <2>1 DEF OwnersInv
  <2> QED
    BY <1>3, <2>2 DEF OwnedBy
<1>8. \A x \in Workshop : AllowedChange(x)
  <2> TAKE x \in Workshop
  <2>1. CASE x # w
    BY <1>1, <1>2, <2>1, EffectiveWritten DEF AllowedChange
  <2>2. CASE x = w
    <3>1. EffectiveRole(w)' = [y \in User |-> IF y = u THEN "OWNER" ELSE "NONE"]
      BY <1>1, <1>3, <1>4 DEF EffectiveRole
    <3>2. MembersOf(w)!OneOwner'
      BY <3>1 DEF MembersOf!OneOwner
    <3> QED
      BY <1>2, <2>2, <3>2 DEF AllowedChange
  <2> QED
    BY <2>1, <2>2
<1>9. \A i \in Invite : invite[i] # NoInvite => invite[i].workshop \in Workshop \ {w}
  BY <1>2, InviteFields DEF InvitesInv, InviteBooks
<1>10. \A i \in Invite, y \in User : <<i, y>> \in joined => invite[i] # NoInvite
  BY DEF InvitesInv, InviteBooks, JoinedBy
<1>11. JoinsOnce'
  BY <1>2 DEF InvitesInv, JoinsOnce
<1>12. Founders'
  <2> SUFFICES ASSUME NEW x \in Workshop, Founded(x)'
               PROVE  \E f \in User : Uninvited(x)' = {f}
    BY DEF Founders
  <2>1. CASE x = w
    <3>1. \A i \in Invite : <<i, u>> \in joined => invite[i].workshop # w
      BY <1>9, <1>10
    <3>2. Uninvited(w)' = {u}
      BY <1>2, <1>3, <1>4, <3>1 DEF Uninvited
    <3> QED
      BY <2>1, <3>2
  <2>2. CASE x # w
    <3>1. Founded(x) /\ Uninvited(x)' = Uninvited(x)
      BY <1>2, <1>3, <2>2 DEF Founded, Uninvited
    <3> QED
      BY <3>1 DEF InvitesInv, Founders
  <2> QED
    BY <2>1, <2>2
<1>13. ASSUME NEW i \in Invite PROVE InviteBooks(i)'
  <2>1. InviteBooks(i) /\ JoinedBy(i)' = JoinedBy(i) /\ invite'[i] = invite[i]
        /\ JoinedBy(i) \subseteq User
    BY <1>2 DEF InvitesInv, JoinedBy
  <2>2. CASE invite[i] = NoInvite
    BY <2>1, <2>2 DEF InviteBooks
  <2>3. CASE invite[i] # NoInvite
    <3>1. invite[i].workshop \in Workshop \ {w}
      BY <1>9, <2>3
    <3>2. \A y \in User : member'[invite[i].workshop][y] = member[invite[i].workshop][y]
      BY <1>3, <3>1
    <3> QED
      BY <2>1, <2>3, <3>2 DEF InviteBooks, Founded
  <2> QED
    BY <2>2, <2>3
<1> QED
  BY <1>2, <1>3, <1>5, <1>7, <1>8, <1>11, <1>12, <1>13 DEF Kept, InvitesInv

(* A transfer moves the ownership from its holder to another active member.  *)
LEMMA TransferKept ==
  ASSUME PeopleInv, NEW u \in User, NEW b, ButtonFits(u, b), TransferOwnership(u, b),
         active' \in [User -> Workshop \cup {NoWorkshop}],
         asked' \in [User -> Button \cup {Nothing}]
  PROVE  Kept
<1> USE DEF PeopleInv
<1> DEFINE w == b.workshop
           t == b.target
           newOwner == [member[w][t] EXCEPT !.role = "OWNER"]
           former == [member[w][u] EXCEPT !.role = "ADMIN"]
<1>1. w \in Workshop /\ t \in User /\ t # u
  BY ButtonFields DEF TransferOwnership, ButtonFits
<1>2. /\ member[w][u] # NoRow /\ member[w][u].status = "active" /\ member[w][u].role = "OWNER"
      /\ member[w][t] # NoRow /\ member[w][t].status = "active"
      /\ Requires(member, u, w, "ownership.transfer") /\ Requires(member, t, w, "workshop.read")
  BY TransferRight DEF TransferOwnership, MayIn, Requires
<1>3. /\ newOwner = OwnerRow
      /\ former = [role |-> "ADMIN", status |-> "active"]
  BY <1>1, <1>2, RowFields DEF MemberRow, OwnerRow
<1>4. /\ OwnerRow \in MemberRow /\ OwnerRow.role = "OWNER" /\ OwnerRow.status = "active"
      /\ former \in MemberRow /\ former.role = "ADMIN" /\ former.status = "active"
      /\ former # NoRow /\ OwnerRow # NoRow
  BY <1>3, MarkersAssumption DEF OwnerRow, MemberRow, MemberRole, MemberStatus, Assignable
<1>5. member' = [member EXCEPT ![w][t].role = "OWNER", ![w][u].role = "ADMIN"]
  BY DEF TransferOwnership
<1>6. /\ member' \in [Workshop -> [User -> MemberRow \cup {NoRow}]]
      /\ \A x \in Workshop, y \in User :
           member'[x][y] = IF x = w /\ y = t THEN newOwner
                           ELSE IF x = w /\ y = u THEN former ELSE member[x][y]
  <2>1. \A x \in Workshop, y \in User :
           member'[x][y] = IF x = w /\ y = t THEN newOwner
                           ELSE IF x = w /\ y = u THEN former ELSE member[x][y]
    BY <1>1, <1>5 DEF IdentityTypeOK
  <2>2. DOMAIN member' = Workshop /\ member' = [x \in Workshop |-> member'[x]]
        /\ \A x \in Workshop : member'[x] = [y \in User |-> member'[x][y]]
    BY <1>1, <1>5 DEF IdentityTypeOK
  <2>3. newOwner \in MemberRow /\ former \in MemberRow
    BY <1>3, <1>4
  <2> HIDE DEF newOwner, former, w, t
  <2> QED
    BY <2>1, <2>2, <2>3 DEF IdentityTypeOK
<1> HIDE DEF newOwner, former, w, t
<1>7. \A x \in Workshop, y \in User : member'[x][y] = NoRow <=> member[x][y] = NoRow
  BY <1>2, <1>3, <1>4, <1>6
<1>8. UNCHANGED <<invite, joined>>
  BY DEF TransferOwnership
<1>9. InvitesInv'
  BY <1>7, <1>8, SameRowsKeep
<1>10. IdentityTypeOK'
  BY <1>6, <1>8 DEF IdentityTypeOK
<1>11. Founded(w) /\ OwnedBy(w, u)
  <2>1. Founded(w)
    BY <1>2 DEF Founded
  <2>2. PICK o \in User : OwnedBy(w, o)
    BY <1>1, <2>1 DEF OwnersInv
  <2>3. o = u
    BY <1>2, <2>2 DEF OwnedBy
  <2> QED
    BY <2>1, <2>2, <2>3
<1>12. OwnedBy(w, t)'
  BY <1>1, <1>3, <1>4, <1>6, <1>11 DEF OwnedBy
<1>13. OwnersInv'
  <2> SUFFICES ASSUME NEW x \in Workshop, x # w, Founded(x)' PROVE \E y \in User : OwnedBy(x, y)'
    BY <1>1, <1>12 DEF OwnersInv
  <2>1. Founded(x)
    BY <1>6 DEF Founded
  <2>2. PICK y \in User : OwnedBy(x, y)
    BY <2>1 DEF OwnersInv
  <2> QED
    BY <1>6, <2>2 DEF OwnedBy
<1>14. \A x \in Workshop : AllowedChange(x)
  <2> TAKE x \in Workshop
  <2>1. CASE x # w
    <3>1. UNCHANGED EffectiveRole(x)
      BY <1>6, <2>1 DEF EffectiveRole
    <3> QED
      BY <3>1 DEF AllowedChange
  <2>2. CASE x = w
    <3>1. EffectiveRole(w)' = [EffectiveRole(w) EXCEPT ![t] = "OWNER", ![u] = "ADMIN"]
      <4>1. \A y \in User : EffectiveRole(w)'[y] =
              IF y = t THEN "OWNER" ELSE IF y = u THEN "ADMIN" ELSE EffectiveRole(w)[y]
        BY <1>1, <1>3, <1>4, <1>6 DEF EffectiveRole
      <4>2. /\ EffectiveRole(w)' = [y \in User |-> EffectiveRole(w)'[y]]
            /\ EffectiveRole(w) = [y \in User |-> EffectiveRole(w)[y]]
        BY DEF EffectiveRole
      <4> QED
        BY <1>1, <4>1, <4>2
    <3>2. /\ MembersOf(w)!Can(u, "ownership.transfer")
          /\ MembersOf(w)!Can(t, "workshop.read")
      BY <1>1, <1>2, EffectiveCan
    <3>3. MembersOf(w)!TransferOwnership(u, t)
      BY <1>1, <3>1, <3>2 DEF MembersOf!TransferOwnership
    <3> QED
      BY <1>1, <2>2, <3>3 DEF AllowedChange, MembersOf!MemberStep
  <2> QED
    BY <2>1, <2>2
<1> QED
  BY <1>7, <1>8, <1>9, <1>10, <1>13, <1>14 DEF Kept

(* The service operations, one by one.                                       *)
LEMMA OperationKept ==
  ASSUME PeopleInv, NEW u \in User, NEW b, ButtonFits(u, b), Operation(u, b),
         asked' \in [User -> Button \cup {Nothing}]
  PROVE  Kept
<1> DEFINE w == b.workshop
           t == b.target
<1>1. /\ w \in Workshop
      /\ b.action \in {"role", "invite"} => b.value \in Assignable
      /\ b.action \in {"revoke", "accept"} => t \in Invite
      /\ Selected(u, b) \in [User -> Workshop \cup {NoWorkshop}]
  BY ButtonFields, SelectedType DEF ButtonFits, PeopleInv
<1>2. CASE ChangeRole(u, b)
  <2> DEFINE row == [member[w][t] EXCEPT !.role = b.value]
  <2>1. /\ b.action = "role" /\ member[w][t].role # "OWNER"
        /\ member' = [member EXCEPT ![w][t].role = b.value]
        /\ UNCHANGED <<invite, joined>> /\ active' = Selected(u, b)
    BY <1>2 DEF ChangeRole
  <2>2. t \in User /\ member[w][t] # NoRow
    BY <2>1 DEF ButtonFits
  <2>3. member[w][t] \in MemberRow /\ b.value \in Assignable
    BY <1>1, <2>1, <2>2, RowFields DEF PeopleInv
  <2>4. row \in MemberRow /\ row.role # "OWNER"
    BY <2>3 DEF MemberRow, MemberRole, Assignable
  <2>5. member' = [member EXCEPT ![w][t] = row]
    BY <1>1, <2>1, <2>2 DEF PeopleInv, IdentityTypeOK
  <2> HIDE DEF row, w, t
  <2> QED
    BY <1>1, <2>1, <2>2, <2>4, <2>5, RewriteKept
<1>3. CASE ChangeMemberStatus(u, b)
  <2> DEFINE row == [member[w][t] EXCEPT !.status = b.action]
  <2>1. /\ b.action \in MemberStatus /\ member[w][t].role # "OWNER"
        /\ member' = [member EXCEPT ![w][t].status = b.action]
        /\ UNCHANGED <<invite, joined>> /\ Home(member', Selected(u, b), u)
    BY <1>3 DEF ChangeMemberStatus
  <2>2. t \in User /\ member[w][t] # NoRow
    BY <2>1 DEF ButtonFits
  <2>3. member[w][t] \in MemberRow
    BY <1>1, <2>2, RowFields DEF PeopleInv
  <2>4. row \in MemberRow /\ row.role # "OWNER"
    BY <2>1, <2>3 DEF MemberRow
  <2>5. member' = [member EXCEPT ![w][t] = row]
    BY <1>1, <2>1, <2>2 DEF PeopleInv, IdentityTypeOK
  <2>6. active' \in [User -> Workshop \cup {NoWorkshop}]
    BY <1>1, <2>1, SelectionTypes
  <2> HIDE DEF row, w, t
  <2> QED
    BY <1>1, <2>1, <2>2, <2>4, <2>5, <2>6, RewriteKept
<1>4. CASE TransferOwnership(u, b)
  <2>1. active' \in [User -> Workshop \cup {NoWorkshop}]
    BY <1>1, <1>4, SelectionTypes DEF TransferOwnership
  <2> QED
    BY <1>4, <2>1, TransferKept
<1>5. CASE CreateInvite(u, b)
  <2>1. PICK i \in Invite, uses \in 1 .. MaxUses :
          /\ invite[i] = NoInvite
          /\ invite' = [invite EXCEPT ![i] =
               [workshop |-> w, role |-> b.value, max |-> uses, used |-> 0,
                status |-> "active", expired |-> FALSE]]
    BY <1>5 DEF CreateInvite
  <2> DEFINE row == [workshop |-> w, role |-> b.value, max |-> uses, used |-> 0,
                     status |-> "active", expired |-> FALSE]
  <2>2. /\ b.value \in Assignable /\ UNCHANGED <<member, joined>> /\ active' = Selected(u, b)
        /\ Requires(member, u, w, "members.invite")
    BY <1>1, <1>5 DEF CreateInvite, MayIn
  <2>3. /\ row \in InviteRow /\ row.used = 0 /\ row.max = uses /\ row.status = "active"
        /\ row.workshop = w /\ row.used # row.max /\ row.used <= row.max
    BY <1>1, <2>2, UsesAssumption DEF InviteRow
  <2>4. Founded(w)
    BY <2>2 DEF Founded, Requires
  <2> HIDE DEF row, w, t
  <2>5. invite' = [invite EXCEPT ![i] = row]
    BY <2>1 DEF row
  <2> QED
    BY <1>1, <2>1, <2>2, <2>3, <2>4, <2>5, InviteKept
<1>6. CASE RevokeInvite(u, b)
  <2> DEFINE row == [invite[t] EXCEPT !.status = "revoked"]
  <2>1. /\ b.action = "revoke" /\ invite[t].status = "active"
        /\ invite' = [invite EXCEPT ![t].status = "revoked"]
        /\ UNCHANGED <<member, joined>> /\ active' = Selected(u, b)
    BY <1>6 DEF RevokeInvite
  <2>2. t \in Invite /\ invite[t] # NoInvite /\ invite[t].workshop = w
    BY <1>1, <2>1 DEF ButtonFits
  <2>3. invite[t] \in InviteRow /\ invite[t].used <= invite[t].max
    BY <2>2, InviteFields DEF PeopleInv
  <2>4. Founded(w) /\ invite[t].used # invite[t].max
    BY <2>1, <2>2 DEF PeopleInv, InvitesInv, InviteBooks
  <2>5. /\ row \in InviteRow /\ row.used = invite[t].used /\ row.max = invite[t].max
        /\ row.status = "revoked" /\ row.workshop = w
    BY <2>2, <2>3 DEF InviteRow
  <2>6. invite' = [invite EXCEPT ![t] = row]
    BY <2>1, <2>2 DEF PeopleInv, IdentityTypeOK
  <2> HIDE DEF row, w, t
  <2>7. /\ Founded(row.workshop) /\ row.used <= row.max
        /\ row.status = "used" <=> row.used = row.max
    BY <2>3, <2>4, <2>5
  <2>8. UNCHANGED <<member, joined>> /\ active' \in [User -> Workshop \cup {NoWorkshop}]
    BY <1>1, <2>1
  <2> QED
    BY <2>2, <2>5, <2>6, <2>7, <2>8, InviteKept
<1>7. CASE AcceptInvite(u, b)
  <2> USE DEF PeopleInv
  <2> DEFINE row == [role |-> invite[t].role, status |-> "active"]
  <2>1. /\ b.action = "accept" /\ member[w][u] = NoRow
        /\ member' = [member EXCEPT ![w][u] = row]
        /\ Home(member', [active EXCEPT ![u] = w], u)
    BY <1>7 DEF AcceptInvite
  <2>2. t \in Invite /\ invite[t] # NoInvite /\ invite[t].workshop = w
    BY <1>1, <2>1 DEF ButtonFits
  <2>3. Founded(w) /\ invite[t].role \in Assignable
    BY <2>2, InviteFields DEF InvitesInv, InviteBooks
  <2>4. row \in MemberRow /\ row.role # "OWNER"
    BY <2>3 DEF MemberRow, MemberRole, MemberStatus, Assignable
  <2> HIDE DEF row
  <2>5. /\ member' \in [Workshop -> [User -> MemberRow \cup {NoRow}]]
        /\ \A x \in Workshop, y \in User :
             member'[x][y] = IF x = w /\ y = u THEN row ELSE member[x][y]
        /\ row # NoRow
    BY <1>1, <2>1, <2>4, MarkersAssumption DEF IdentityTypeOK
  <2>6. OwnersInv' /\ \A x \in Workshop : AllowedChange(x)
    <3> HIDE DEF w, PeopleInv
    <3> QED
      BY <1>1, <2>1, <2>3, <2>4, PlainWrite DEF PeopleInv
  <2>7. active' \in [User -> Workshop \cup {NoWorkshop}]
    <3>1. [active EXCEPT ![u] = w] \in [User -> Workshop \cup {NoWorkshop}]
      BY <1>1 DEF IdentityTypeOK
    <3> QED
      BY <2>1, <3>1, SelectionTypes
  <2>8. /\ InvitesInv'
        /\ invite' \in [Invite -> {r \in InviteRow : r.used <= r.max} \cup {NoInvite}]
        /\ joined' \subseteq Invite \X User
        /\ \A j \in Invite : invite[j] # NoInvite =>
             invite'[j] # NoInvite /\ invite'[j].workshop = invite[j].workshop
    BY <1>7, AcceptKeeps
  <2>9. IdentityTypeOK'
    BY <2>5, <2>7, <2>8 DEF IdentityTypeOK
  <2> QED
    BY <2>5, <2>6, <2>8, <2>9 DEF Kept
<1>8. CASE SetActiveWorkshop(u, b)
  <2>1. /\ UNCHANGED <<member, invite, joined>> /\ active' = [active EXCEPT ![u] = w]
    BY <1>8 DEF SetActiveWorkshop
  <2>2. active' \in [User -> Workshop \cup {NoWorkshop}]
    BY <1>1, <2>1 DEF PeopleInv, IdentityTypeOK
  <2> QED
    BY <2>1, <2>2, SelectionKept
<1> QED
  BY <1>2, <1>3, <1>4, <1>5, <1>6, <1>7, <1>8 DEF Operation

(* Confirmations that wait go on fitting.                                    *)
LEMMA AskedKept ==
  ASSUME AskedInv, Kept,
         \A u \in User : asked'[u] \in {asked[u], Nothing}
  PROVE  AskedInv'
<1> SUFFICES ASSUME NEW u \in User, asked'[u] # Nothing
             PROVE  ButtonFits(u, asked[u])'
  BY DEF AskedInv
<1>1. ButtonFits(u, asked'[u])
  BY DEF AskedInv
<1> QED
  BY <1>1, FitsStays DEF Kept

-----------------------------------------------------------------------------
(* Every step of Identity keeps its invariant and is allowed by Members.     *)
LEMMA IdentityStep ==
  ASSUME IdentityInv, [IdentityNext]_identityVars
  PROVE  IdentityInv' /\ \A x \in Workshop : AllowedChange(x)
<1> USE DEF IdentityInv
<1>1. /\ asked \in [User -> Button \cup {Nothing}]
      /\ active \in [User -> Workshop \cup {NoWorkshop}]
  BY DEF PeopleInv, IdentityTypeOK
<1>2. ASSUME NEW u \in User, NEW w \in Workshop, CreateOwnedWorkshop(u, w)
      PROVE  Kept /\ AskedInv'
  BY <1>2, FoundingKept, AskedKept DEF CreateOwnedWorkshop
<1>3. ASSUME NEW u \in User, ActiveWorkshop(u)
      PROVE  Kept /\ AskedInv'
  <2>1. active' \in [User -> Workshop \cup {NoWorkshop}]
    BY <1>1, <1>3, ResolvedType DEF ActiveWorkshop
  <2> QED
    BY <1>1, <1>3, <2>1, SelectionKept, AskedKept DEF ActiveWorkshop
<1>4. ASSUME NEW u \in User, Ask(u)
      PROVE  Kept /\ AskedInv'
  <2>1. PICK b \in Offered(u) : asked' = [asked EXCEPT ![u] = b]
    BY <1>4 DEF Ask
  <2>2. ButtonFits(u, b) /\ b \in Button
    BY OfferedFits DEF PeopleInv, ButtonFits
  <2>3. Kept
    BY <1>1, <1>4, <2>1, <2>2, SelectionKept DEF Ask
  <2>4. ASSUME NEW v \in User, asked'[v] # Nothing PROVE ButtonFits(v, asked'[v])
    <3>1. CASE v = u
      BY <1>1, <2>1, <2>2, <3>1
    <3>2. CASE v # u
      BY <1>1, <2>1, <2>4, <3>2 DEF AskedInv
    <3> QED
      BY <3>1, <3>2
  <2>5. ASSUME NEW v \in User, asked'[v] # Nothing PROVE ButtonFits(v, asked[v])'
    BY <2>3, <2>4, <2>5, FitsStays DEF Kept
  <2> QED
    BY <2>3, <2>5 DEF AskedInv
<1>5. ASSUME NEW u \in User, Press(u)
      PROVE  Kept /\ AskedInv'
  <2>1. /\ asked' = [asked EXCEPT ![u] = Nothing] /\ ButtonFits(u, asked[u])
        /\ Operation(u, asked[u])
    BY <1>5 DEF Press, Pressed, AskedInv
  <2>2. asked' \in [User -> Button \cup {Nothing}]
    BY <1>1, <2>1
  <2>3. Kept
    BY <2>1, <2>2, OperationKept
  <2> QED
    BY <1>1, <2>1, <2>3, AskedKept
<1>6. ASSUME NEW u \in User, Refused(u)
      PROVE  Kept /\ AskedInv'
  <2>1. asked' = [asked EXCEPT ![u] = Nothing] /\ UNCHANGED <<member, invite, joined>>
    BY <1>6 DEF Refused, Pressed
  <2>2. active' \in [User -> Workshop \cup {NoWorkshop}]
    BY <1>1, <1>6, ResolvedType DEF Refused
  <2> QED
    BY <1>1, <2>1, <2>2, SelectionKept, AskedKept
<1>7. ASSUME NEW i \in Invite, Expire(i)
      PROVE  Kept /\ AskedInv'
  <2> DEFINE row == [invite[i] EXCEPT !.expired = TRUE]
  <2>1. /\ invite[i] # NoInvite /\ invite' = [invite EXCEPT ![i].expired = TRUE]
        /\ UNCHANGED <<member, active, joined, asked>>
    BY <1>7 DEF Expire
  <2>2. invite[i] \in InviteRow /\ invite[i].used <= invite[i].max
    BY <2>1, InviteFields DEF PeopleInv
  <2>3. /\ row \in InviteRow /\ row.used = invite[i].used /\ row.max = invite[i].max
        /\ row.status = invite[i].status /\ row.workshop = invite[i].workshop
    BY <2>2 DEF InviteRow
  <2>4. /\ Founded(invite[i].workshop)
        /\ invite[i].status = "used" <=> invite[i].used = invite[i].max
    BY <2>1 DEF PeopleInv, InvitesInv, InviteBooks
  <2>5. invite' = [invite EXCEPT ![i] = row]
    BY <2>1 DEF PeopleInv, IdentityTypeOK
  <2> HIDE DEF row
  <2>6. Kept
    BY <1>1, <2>1, <2>2, <2>3, <2>4, <2>5, InviteKept
  <2> QED
    BY <2>1, <2>6, AskedKept
<1>8. CASE UNCHANGED identityVars
  <2>1. Kept
    BY <1>1, <1>8, SelectionKept DEF identityVars
  <2> QED
    BY <1>8, <2>1, AskedKept DEF Kept, identityVars
<1> QED
  BY <1>2, <1>3, <1>4, <1>5, <1>6, <1>7, <1>8 DEF IdentityNext, Kept

(* Nobody is a member, invited or asked at first.                            *)
LEMMA IdentityStart ==
  ASSUME IdentityInit
  PROVE  IdentityInv
<1>1. IdentityTypeOK
  BY DEF IdentityInit, IdentityTypeOK
<1>2. \A w \in Workshop : ~Founded(w)
  BY DEF IdentityInit, Founded
<1>3. \A i \in Invite : invite[i] = NoInvite /\ JoinedBy(i) = {}
  BY DEF IdentityInit, JoinedBy
<1>4. InvitesInv
  BY <1>2, <1>3 DEF InvitesInv, InviteBooks, JoinsOnce, Founders, IdentityInit
<1>5. OwnersInv /\ AskedInv
  BY <1>2 DEF OwnersInv, AskedInv, IdentityInit
<1> QED
  BY <1>1, <1>4, <1>5 DEF IdentityInv, PeopleInv

(* The inductive invariant of members, invitations and confirmations.        *)
THEOREM PeopleInvariance == IdentitySpec => []IdentityInv
<1>1. IdentityInv /\ [IdentityNext]_identityVars => IdentityInv'
  BY IdentityStep
<1> QED
  BY <1>1, IdentityStart, PTL DEF IdentitySpec

(* The books kept with witnesses are the books kept with cardinalities.      *)
LEMMA LedgerOfBooks ==
  ASSUME PeopleInv
  PROVE  InvitesAgree
<1> USE DEF PeopleInv
<1>1. \A i \in Invite : JoinedBy(i) = {u \in User : <<i, u>> \in joined}
  BY DEF JoinedBy
<1>2. ASSUME NEW i \in Invite
      PROVE  LET by == {u \in User : <<i, u>> \in joined} IN
             IF invite[i] = NoInvite THEN by = {}
             ELSE /\ Cardinality(by) = invite[i].used
                  /\ invite[i].used <= invite[i].max
                  /\ invite[i].status = "used" <=> invite[i].used = invite[i].max
                  /\ \A u \in by : member[invite[i].workshop][u] # NoRow
  <2>1. InviteBooks(i) /\ (invite[i] # NoInvite => invite[i].used <= invite[i].max)
    BY InviteFields DEF InvitesInv
  <2> QED
    BY <1>1, <2>1 DEF InviteBooks
<1>3. ASSUME NEW w \in Workshop, NEW u \in User
      PROVE  Cardinality({i \in Invite : <<i, u>> \in joined /\ invite[i].workshop = w}) <= 1
  <2> DEFINE S == {i \in Invite : <<i, u>> \in joined /\ invite[i].workshop = w}
  <2>1. \A i, j \in S : i = j
    BY DEF InvitesInv, JoinsOnce
  <2>2. S = {} \/ \E i : S = {i}
    BY <2>1
  <2> HIDE DEF S
  <2>3. Cardinality(S) = 0 \/ Cardinality(S) = 1
    BY <2>2, FS_EmptySet, FS_Singleton
  <2>4. Cardinality(S) <= 1
    BY <2>3
  <2> QED
    BY <2>4 DEF S
<1>4. ASSUME NEW w \in Workshop
      PROVE  Cardinality(Uninvited(w)) = IF Founded(w) THEN 1 ELSE 0
  <2>1. CASE Founded(w)
    <3>1. PICK f \in User : Uninvited(w) = {f}
      BY <2>1 DEF InvitesInv, Founders
    <3>2. Cardinality({f}) = 1
      BY FS_Singleton
    <3> QED
      BY <2>1, <3>1, <3>2
  <2>2. CASE ~Founded(w)
    <3>1. Uninvited(w) = {}
      BY <2>2 DEF Founded, Uninvited
    <3> QED
      BY <2>2, <3>1, FS_EmptySet
  <2> QED
    BY <2>1, <2>2
<1>5. InviteLedger
  BY <1>2, <1>3, <1>4 DEF InviteLedger, Uninvited
<1> QED
  BY <1>5 DEF InvitesAgree

(* An invitation was used as often as people joined by it and no more often  *)
(* than it allows, nobody joined a workshop twice, and whoever has a row was *)
(* invited or founded the workshop, however late and often the confirmations *)
(* are pressed (AcceptInvite).                                               *)
THEOREM LedgerCorrect == IdentitySpec => []InvitesAgree
<1>1. IdentityInv => InvitesAgree
  BY LedgerOfBooks DEF IdentityInv
<1> QED
  BY <1>1, PeopleInvariance, PTL

(* Each workshop changes as the tasks, the stock and the marketplaces assume *)
(* of their members (Members): by somebody who may manage it then, or by     *)
(* being founded with one owner (ChangeRole, ChangeMemberStatus,             *)
(* TransferOwnership, AcceptInvite).                                         *)
THEOREM MembersAllowed == IdentitySpec => MembersView
<1> DEFINE A == \A w \in Workshop : AllowedChange(w)
<1>1. IdentityInv /\ [IdentityNext]_identityVars => A
  BY IdentityStep
<1>2. A => [A]_identityVars
  OBVIOUS
<1>3. MembersView <=> [][A]_identityVars
  BY DEF MembersView
<1> HIDE DEF A
<1> QED
  BY <1>1, <1>2, <1>3, PeopleInvariance, PTL DEF IdentitySpec

(* A press that works is one about the selected workshop, and what it leaves *)
(* selected is that workshop or none; only accepting, switching and founding *)
(* select another.                                                           *)
LEMMA PressStays ==
  ASSUME IdentityTypeOK, NEW u \in User, Press(u)
  PROVE  \A v \in User : Chosen(v)
<1> DEFINE b == asked[u]
<1>1. /\ b # Nothing /\ b \in Button /\ InContext(u, b) /\ Operation(u, b)
      /\ asked' = [asked EXCEPT ![u] = Nothing] /\ asked'[u] = Nothing
  BY DEF Press, Pressed, IdentityTypeOK
<1>2. b.workshop \in Workshop /\ b.workshop # NoWorkshop
  BY <1>1, ButtonFields, NowhereAssumption
<1>3. active \in [User -> Workshop \cup {NoWorkshop}]
  BY DEF IdentityTypeOK
<1>4. CASE b.action \in {"accept", "switch_to"}
  <2>1. \/ \E m : Home(m, [active EXCEPT ![u] = b.workshop], u)
        \/ active' = [active EXCEPT ![u] = b.workshop]
    BY <1>1, <1>4 DEF Operation, ChangeRole, ChangeMemberStatus, TransferOwnership,
                      CreateInvite, RevokeInvite, AcceptInvite, SetActiveWorkshop, MemberStatus
  <2>2. [active EXCEPT ![u] = b.workshop] \in [User -> Workshop \cup {NoWorkshop}]
    BY <1>2, <1>3
  <2>3. active'[u] \in {b.workshop, NoWorkshop}
    BY <1>2, <1>3, <2>1, <2>2, ResolvedStays DEF Home
  <2>4. \A v \in User : v # u => active'[v] = active[v]
    BY <1>3, <2>1 DEF Home
  <2> QED
    BY <1>1, <1>4, <2>3, <2>4 DEF Chosen
<1>5. CASE b.action \notin {"accept", "switch_to"}
  <2> DEFINE a == Selected(u, b)
  <2>1. /\ a = [active EXCEPT ![u] = Resolved(member, active, u)]
        /\ a[u] = Resolved(member, active, u) /\ a[u] = b.workshop
    BY <1>1, <1>3, <1>5 DEF InContext, Selected
  <2>2. a \in [User -> Workshop \cup {NoWorkshop}]
    BY SelectedType
  <2>3. active' = a \/ \E m : Home(m, a, u)
    BY <1>1, <1>5 DEF Operation, ChangeRole, ChangeMemberStatus, TransferOwnership,
                      CreateInvite, RevokeInvite, AcceptInvite, SetActiveWorkshop
  <2>4. active'[u] \in {a[u], NoWorkshop}
    <3> HIDE DEF a
    <3> QED
      BY <1>2, <2>1, <2>2, <2>3, ResolvedStays DEF Home
  <2>5. active[u] # NoWorkshop => a[u] \in {active[u], NoWorkshop}
    <3>1. active[u] # NoWorkshop => Resolved(member, active, u) \in {active[u], NoWorkshop}
      BY <1>3, ResolvedStays
    <3> HIDE DEF a
    <3> QED
      BY <2>1, <3>1
  <2>6. \A v \in User : v # u => active'[v] = active[v]
    <3>1. \A v \in User : v # u => a[v] = active[v]
      BY <1>3, <2>1
    <3> HIDE DEF a
    <3> QED
      BY <2>2, <2>3, <3>1 DEF Home
  <2> QED
    BY <2>4, <2>5, <2>6 DEF Chosen
<1> QED
  BY <1>4, <1>5

(* Nobody is moved to another workshop unasked: whatever is pressed or sent, *)
(* somebody with a selected workshop keeps it, loses it, or has chosen the   *)
(* other one by switching, joining or founding (ActiveWorkshop, setActive).  *)
THEOREM MovedOnlyAsked == IdentitySpec => MovedByChoice
<1> DEFINE A == \A u \in User : Chosen(u)
<1>1. ASSUME IdentityInv, [IdentityNext]_identityVars PROVE A
  <2>1. IdentityTypeOK /\ active \in [User -> Workshop \cup {NoWorkshop}]
    BY <1>1 DEF IdentityInv, PeopleInv, IdentityTypeOK
  <2>2. ASSUME NEW u \in User, NEW w \in Workshop, CreateOwnedWorkshop(u, w) PROVE A
    <3>1. active' = [active EXCEPT ![u] = w] /\ ~Founded(w)
      BY <2>2 DEF CreateOwnedWorkshop
    <3> QED
      BY <2>1, <3>1 DEF Chosen
  <2>3. ASSUME NEW u \in User, active' = [active EXCEPT ![u] = Resolved(member, active, u)]
        PROVE  A
    BY <2>1, <2>3, ResolvedStays DEF Chosen
  <2>4. ASSUME active' = active PROVE A
    BY <2>4 DEF Chosen
  <2>5. CASE UNCHANGED identityVars
    BY <2>4, <2>5 DEF identityVars
  <2>6. ASSUME NEW u \in User, ActiveWorkshop(u) \/ Ask(u) \/ Refused(u) PROVE A
    BY <2>3, <2>4, <2>6 DEF ActiveWorkshop, Ask, Refused
  <2>7. ASSUME NEW u \in User, Press(u) PROVE A
    BY <2>1, <2>7, PressStays
  <2>8. ASSUME NEW i \in Invite, Expire(i) PROVE A
    BY <2>4, <2>8 DEF Expire
  <2> QED
    BY <1>1, <2>2, <2>5, <2>6, <2>7, <2>8 DEF IdentityNext
<1>2. IdentityInv /\ [IdentityNext]_identityVars => A
  BY <1>1
<1>3. A => [A]_identityVars
  OBVIOUS
<1>4. MovedByChoice <=> [][A]_identityVars
  BY DEF MovedByChoice
<1> HIDE DEF A
<1> QED
  BY <1>2, <1>3, <1>4, PeopleInvariance, PTL DEF IdentitySpec

-----------------------------------------------------------------------------
(* 2. Codes and sessions of browsers (WebLogin)                            *)

\* A session and the code it was opened by point at each other while both exist;
\* a code that has opened one never waits again.
SessionFits(s) ==
  HasSession(s) =>
    /\ session[s].token \in {None, session[s].of}
    /\ login[session[s].by] # None
    /\ HasLogin(session[s].by) => login[session[s].by].session = s
Used == {"confirmed", "consumed"}
LoginFits(l) ==
  HasLogin(l) =>
    /\ login[l].status \in Used <=> login[l].session # None
    /\ login[l].session # None =>
         /\ HasSession(login[l].session)
         /\ session[login[l].session].by = l
         /\ session[login[l].session].of = login[l].browser
CookieFits(b) ==
  cookie[b].session # None =>
    /\ session[cookie[b].session] # None
    /\ HasSession(cookie[b].session) => session[cookie[b].session].of = b
OpenedOnce ==
  \A s, t \in Session :
    HasSession(s) /\ HasSession(t) /\ s # t => session[s].by # session[t].by

LoginInv ==
  /\ LoginTypeOK
  /\ \A s \in Session : SessionFits(s)
  /\ \A l \in Login : LoginFits(l)
  /\ \A b \in Browser : CookieFits(b)
  /\ OpenedOnce

LEMMA RowsAreRows ==
  /\ \A r \in LoginRow : r # None /\ r # Deleted
  /\ \A r \in SessionRow : r # None /\ r # Deleted
  /\ None # Deleted
  BY RowsAssumption

LEMMA LoginRows ==
  ASSUME LoginTypeOK
  PROVE  /\ \A l \in Login : HasLogin(l) <=> login[l] \in LoginRow
         /\ \A s \in Session : HasSession(s) <=> session[s] \in SessionRow
         /\ \A l \in Login : l # None /\ l # Deleted
         /\ \A s \in Session : s # None /\ s # Deleted
  BY NoneAssumption, RowsAssumption DEF LoginTypeOK, HasLogin, HasSession

(* The invariant says what the property says.                                *)
LEMMA LoginInvIsEnough ==
  ASSUME LoginInv
  PROVE  CodeOpensOnce
<1> SUFFICES ASSUME NEW s \in Session, HasSession(s)
             PROVE  /\ session[s].token \in {None, session[s].of}
                    /\ \A t \in Session \ {s} : HasSession(t) => session[t].by # session[s].by
                    /\ HasLogin(session[s].by) => login[session[s].by].status \in Used
                    /\ \A b \in Browser : cookie[b].session = s => session[s].of = b
  BY DEF CodeOpensOnce, Used
<1>1. session[s] \in SessionRow /\ session[s].by \in Login /\ s # None
  BY LoginRows DEF LoginInv, SessionRow
<1>2. SessionFits(s) /\ LoginFits(session[s].by)
  BY <1>1 DEF LoginInv
<1>3. HasLogin(session[s].by) => login[session[s].by].status \in Used
  BY <1>1, <1>2 DEF SessionFits, LoginFits
<1>4. \A b \in Browser : cookie[b].session = s => session[s].of = b
  BY <1>1 DEF LoginInv, CookieFits
<1>5. \A t \in Session \ {s} : HasSession(t) => session[t].by # session[s].by
  BY DEF LoginInv, OpenedOnce
<1> QED
  BY <1>2, <1>3, <1>4, <1>5 DEF SessionFits

\* What may be written of a login at any time: it is shown, cleaned up, or changed in
\* anything but its session and its browser.
LoginTouched(l) ==
  \/ login'[l] = login[l]
  \/ login[l] # None /\ login'[l] = Deleted
  \/ /\ HasLogin(l) /\ login'[l] \in LoginRow
     /\ login'[l].session = login[l].session
     /\ login'[l].browser = login[l].browser
     /\ login'[l].status \in Used <=> login[l].status \in Used
  \/ /\ login[l] = None /\ login'[l] \in LoginRow
     /\ login'[l].status = "pending" /\ login'[l].session = None

\* And of a session: it expires, is revoked, or is given a credential for the browser
\* its code was shown to.
SessionTouched(s) ==
  \/ session'[s] = session[s]
  \/ /\ HasSession(s) /\ session'[s] \in SessionRow
     /\ session'[s].by = session[s].by /\ session'[s].of = session[s].of
     /\ session'[s].token \in {None, session[s].of}

CookieTouched(b) ==
  \/ cookie'[b].session \in {cookie[b].session, None}
  \/ HasSession(cookie'[b].session) /\ session[cookie'[b].session].of = b

LEMMA TouchKeeps ==
  ASSUME LoginInv,
         login' \in [Login -> LoginRow \cup {None, Deleted}],
         session' \in [Session -> SessionRow \cup {None, Deleted}],
         cookie' \in [Browser -> [login : Login \cup {None}, session : Session \cup {None}]],
         \A l \in Login : LoginTouched(l),
         \A s \in Session : SessionTouched(s),
         \A b \in Browser : CookieTouched(b)
  PROVE  LoginInv'
<1> USE DEF LoginInv
<1>1. LoginTypeOK'
  BY DEF LoginTypeOK
<1>2. /\ \A l \in Login : HasLogin(l) <=> login[l] \in LoginRow
      /\ \A s \in Session : HasSession(s) <=> session[s] \in SessionRow
      /\ \A l \in Login : HasLogin(l)' <=> login'[l] \in LoginRow
      /\ \A s \in Session : HasSession(s)' <=> HasSession(s)
      /\ \A s \in Session : s # None
      /\ "pending" \notin Used
  <2>1. \A l \in Login : HasLogin(l)' <=> login'[l] \in LoginRow
    BY LoginRows, RowsAreRows DEF HasLogin
  <2>2. \A s \in Session : HasSession(s)' <=> HasSession(s)
    BY LoginRows, RowsAreRows DEF HasSession, SessionTouched
  <2> QED
    BY <2>1, <2>2, LoginRows DEF Used
<1>3. \A s \in Session : HasSession(s) =>
        /\ session'[s].by = session[s].by /\ session'[s].of = session[s].of
        /\ session[s].by \in Login
  BY <1>2 DEF SessionTouched, SessionRow
<1>4. \A s \in Session : HasSession(s) => session'[s].token \in {None, session[s].of}
  BY DEF SessionTouched, SessionFits
<1>5. ASSUME NEW s \in Session PROVE SessionFits(s)'
  <2>1. SessionFits(s)
    OBVIOUS
  <2>2. CASE ~HasSession(s)
    BY <1>2, <2>2 DEF SessionFits
  <2>3. CASE HasSession(s)
    <3> DEFINE l == session[s].by
    <3>1. l \in Login /\ login[l] # None /\ session'[s].by = l
      BY <1>3, <2>1, <2>3 DEF SessionFits
    <3>2. login'[l] # None
      BY <3>1, RowsAreRows DEF LoginTouched
    <3>3. HasLogin(l)' => HasLogin(l) /\ login'[l].session = login[l].session
      BY <1>2, <3>1, RowsAreRows DEF LoginTouched
    <3> HIDE DEF l
    <3> QED
      BY <1>3, <1>4, <2>1, <2>3, <3>1, <3>2, <3>3 DEF SessionFits, l
  <2> QED
    BY <2>2, <2>3
<1>6. ASSUME NEW l \in Login PROVE LoginFits(l)'
  <2>1. LoginFits(l) /\ LoginTouched(l)
    OBVIOUS
  <2>2. CASE HasLogin(l)
    <3>1. login[l].session \in Session \cup {None}
      BY <1>2, <2>2 DEF LoginRow
    <3>2. HasLogin(l)' => /\ login'[l].session = login[l].session
                          /\ login'[l].browser = login[l].browser
                          /\ login'[l].status \in Used <=> login[l].status \in Used
      BY <1>2, <2>1, <2>2, RowsAreRows DEF LoginTouched
    <3> QED
      BY <1>2, <1>3, <2>1, <2>2, <3>1, <3>2 DEF LoginFits
  <2>3. CASE ~HasLogin(l)
    BY <1>2, <2>1, <2>3, RowsAreRows DEF LoginFits, LoginTouched
  <2> QED
    BY <2>2, <2>3
<1>7. ASSUME NEW b \in Browser PROVE CookieFits(b)'
  <2>1. cookie'[b].session \in Session \cup {None} /\ CookieFits(b) /\ CookieTouched(b)
    OBVIOUS
  <2>2. \A s \in Session : session[s] # None => session'[s] # None
    BY RowsAreRows DEF SessionTouched
  <2> QED
    BY <1>2, <1>3, <2>1, <2>2 DEF CookieFits, CookieTouched, HasSession
<1>8. OpenedOnce'
  BY <1>2, <1>3 DEF OpenedOnce
<1> QED
  BY <1>1, <1>5, <1>6, <1>7, <1>8

(* A confirmed code points at a session of its own, which is new.            *)
LEMMA ConfirmKeeps ==
  ASSUME LoginInv, NEW u \in User, NEW l \in Login, ConfirmLogin(u, l)
  PROVE  LoginInv'
<1> USE DEF LoginInv
<1>1. PICK s \in Session :
        /\ session[s] = None
        /\ session' = [session EXCEPT ![s] =
             [user |-> u, token |-> None, expired |-> FALSE, revoked |-> FALSE,
              by |-> l, of |-> login[l].browser]]
        /\ login' = [login EXCEPT ![l].status = "confirmed", ![l].session = s]
  BY DEF ConfirmLogin
<1> DEFINE row == [user |-> u, token |-> None, expired |-> FALSE, revoked |-> FALSE,
                   by |-> l, of |-> login[l].browser]
           code == [login[l] EXCEPT !.status = "confirmed", !.session = s]
<1>2. /\ login[l] \in LoginRow /\ HasLogin(l) /\ login[l].status = "pending"
      /\ ~HasSession(s) /\ s # None
  BY <1>1, LoginRows DEF ConfirmLogin, Waits, HasSession
<1>3. /\ row \in SessionRow /\ row.token = None /\ row.by = l /\ row.of = login[l].browser
      /\ row # None /\ row # Deleted
  <2>1. login[l].browser \in Browser
    BY <1>2 DEF LoginRow
  <2>2. row \in SessionRow
    BY <2>1 DEF SessionRow
  <2> QED
    BY <2>2, RowsAreRows
<1>4. /\ code \in LoginRow /\ code.status = "confirmed" /\ code.session = s
      /\ code.browser = login[l].browser /\ code # None /\ code # Deleted
  <2>1. code \in LoginRow
    BY <1>2 DEF LoginRow
  <2>2. code.status = "confirmed" /\ code.session = s /\ code.browser = login[l].browser
    BY <1>2 DEF LoginRow
  <2> QED
    BY <2>1, <2>2, RowsAreRows
<1>5. session' = [session EXCEPT ![s] = row] /\ login' = [login EXCEPT ![l] = code]
      /\ cookie' = cookie
  BY <1>1, <1>2 DEF LoginTypeOK, ConfirmLogin
<1> HIDE DEF row, code
<1>6. /\ session'[s] = row /\ \A t \in Session : t # s => session'[t] = session[t]
      /\ login'[l] = code /\ \A k \in Login : k # l => login'[k] = login[k]
  BY <1>5 DEF LoginTypeOK
<1>7. LoginTypeOK'
  BY <1>3, <1>4, <1>5 DEF LoginTypeOK
<1>8. /\ \A t \in Session : HasSession(t)' <=> (HasSession(t) \/ t = s)
      /\ \A k \in Login : HasLogin(k)' <=> HasLogin(k)
      /\ \A t \in Session : HasSession(t) => session[t].by \in Login
      /\ \A k \in Login : HasLogin(k) => login[k].session \in Session \cup {None}
  <2>1. /\ \A t \in Session : HasSession(t) <=> session[t] \in SessionRow
        /\ \A k \in Login : HasLogin(k) <=> login[k] \in LoginRow
    BY LoginRows
  <2>2. /\ \A t \in Session : HasSession(t) => session[t].by \in Login
        /\ \A k \in Login : HasLogin(k) => login[k].session \in Session \cup {None}
    BY <2>1 DEF SessionRow, LoginRow
  <2>3. \A t \in Session : HasSession(t)' <=> (HasSession(t) \/ t = s)
    BY <1>2, <1>3, <1>6 DEF HasSession
  <2>4. \A k \in Login : HasLogin(k)' <=> HasLogin(k)
    BY <1>2, <1>4, <1>6 DEF HasLogin
  <2> QED
    BY <2>2, <2>3, <2>4
<1>9. login[l].session = None /\ \A t \in Session : HasSession(t) => session[t].by # l
  <2>1. login[l].session = None
    BY <1>2 DEF LoginFits, Used
  <2>2. \A t \in Session : HasSession(t) /\ session[t].by = l => login[l].session = t
    BY <1>2 DEF SessionFits
  <2>3. \A t \in Session : t # None
    BY LoginRows
  <2> QED
    BY <2>1, <2>2, <2>3
<1>10. ASSUME NEW t \in Session PROVE SessionFits(t)'
  <2>1. CASE t = s
    BY <1>3, <1>4, <1>6, <2>1 DEF SessionFits
  <2>2. CASE t # s
    BY <1>6, <1>8, <1>9, <2>2 DEF SessionFits
  <2> QED
    BY <2>1, <2>2
<1>11. ASSUME NEW k \in Login PROVE LoginFits(k)'
  <2>1. CASE k = l
    BY <1>2, <1>3, <1>4, <1>6, <1>8, <2>1 DEF LoginFits, Used
  <2>2. CASE k # l
    <3>1. HasLogin(k) /\ login[k].session # None => login[k].session # s
      BY <1>2 DEF LoginFits
    <3> QED
      BY <1>6, <1>8, <2>2, <3>1 DEF LoginFits
  <2> QED
    BY <2>1, <2>2
<1>12. ASSUME NEW b \in Browser PROVE CookieFits(b)'
  <2>1. cookie[b].session # s /\ cookie[b].session \in Session \cup {None}
    BY <1>1, <1>2 DEF CookieFits, LoginTypeOK
  <2> QED
    BY <1>5, <1>6, <1>8, <2>1 DEF CookieFits
<1>13. OpenedOnce'
  BY <1>3, <1>6, <1>8, <1>9 DEF OpenedOnce
<1> QED
  BY <1>7, <1>10, <1>11, <1>12, <1>13

(* Sessions that are over are taken away with their logins.                  *)
LEMMA CleanupKeeps ==
  ASSUME LoginInv, CleanupSessions
  PROVE  LoginInv'
<1> USE DEF LoginInv
<1>1. /\ \A s \in Session : session'[s] = IF Stale(s) THEN Deleted ELSE session[s]
      /\ \A l \in Login : login'[l] =
           IF HasLogin(l) /\ login[l].session # None /\ Stale(login[l].session) THEN Deleted
           ELSE login[l]
      /\ cookie' = cookie
  BY DEF CleanupSessions
<1>2. LoginTypeOK'
  BY <1>1 DEF LoginTypeOK, CleanupSessions
<1>3. /\ \A s \in Session : HasSession(s)' <=> HasSession(s) /\ ~Stale(s)
      /\ \A s \in Session : HasSession(s)' => session'[s] = session[s]
      /\ \A l \in Login : HasLogin(l)' =>
           /\ HasLogin(l) /\ login'[l] = login[l]
           /\ ~(login[l].session # None /\ Stale(login[l].session))
      /\ \A l \in Login : login[l] # None => login'[l] # None
  BY <1>1, RowsAreRows DEF HasSession, HasLogin, Stale
<1>4. /\ \A s \in Session : HasSession(s) => session[s].by \in Login
      /\ \A l \in Login : HasLogin(l) => login[l].session \in Session \cup {None}
  BY LoginRows DEF SessionRow, LoginRow
<1>5. ASSUME NEW s \in Session PROVE SessionFits(s)'
  BY <1>3, <1>4 DEF SessionFits
<1>6. ASSUME NEW l \in Login PROVE LoginFits(l)'
  BY <1>3, <1>4 DEF LoginFits
<1>7. ASSUME NEW b \in Browser PROVE CookieFits(b)'
  <2>1. cookie[b].session \in Session \cup {None}
    BY DEF LoginTypeOK
  <2>2. \A s \in Session : session[s] # None => session'[s] # None
    BY <1>1, RowsAreRows
  <2> QED
    BY <1>1, <1>3, <2>1, <2>2 DEF CookieFits
<1>8. OpenedOnce'
  BY <1>3 DEF OpenedOnce
<1> QED
  BY <1>2, <1>5, <1>6, <1>7, <1>8

LEMMA CompleteKeeps ==
  ASSUME LoginInv, NEW b \in Browser, Complete(b)
  PROVE  LoginInv'
<1> USE DEF LoginInv
<1> DEFINE l == cookie[b].login
           s == login[l].session
<1>1. /\ HasLogin(l) /\ l \in Login /\ login[l].browser = b /\ login[l].status = "confirmed"
      /\ login[l] \in LoginRow /\ s \in Session \cup {None}
  <2>1. l \in Login \cup {None} /\ HasLogin(l)
    BY DEF Complete, LoginTypeOK
  <2>2. l \in Login
    BY <2>1 DEF HasLogin
  <2>3. login[l] \in LoginRow
    BY <2>1, <2>2, LoginRows
  <2> QED
    BY <2>1, <2>2, <2>3 DEF Complete, LoginRow
<1>2. /\ HasSession(s) /\ s \in Session /\ session[s].of = b /\ session[s] \in SessionRow
  <2>1. LoginFits(l) /\ s # None
    BY <1>1 DEF LoginFits, Used
  <2> QED
    BY <1>1, <2>1, LoginRows DEF LoginFits
<1> DEFINE code == [login[l] EXCEPT !.status = "consumed"]
           row == [session[s] EXCEPT !.token = b]
<1>3. /\ login' = [login EXCEPT ![l] = code]
      /\ session' = session \/ session' = [session EXCEPT ![s] = row]
      /\ cookie' = cookie \/ cookie' = [cookie EXCEPT ![b] = [login |-> None, session |-> s]]
  BY <1>1, <1>2 DEF Complete, LoginTypeOK
<1>4. /\ code \in LoginRow /\ code.session = s /\ code.browser = login[l].browser
      /\ code.status = "consumed"
  BY <1>1 DEF LoginRow
<1>5. row \in SessionRow /\ row.by = session[s].by /\ row.of = b /\ row.token = b
  BY <1>2 DEF SessionRow
<1> HIDE DEF code, row
<1>6. /\ login' \in [Login -> LoginRow \cup {None, Deleted}]
      /\ \A k \in Login : login'[k] = IF k = l THEN code ELSE login[k]
  BY <1>1, <1>3, <1>4 DEF LoginTypeOK
<1>7. /\ session' \in [Session -> SessionRow \cup {None, Deleted}]
      /\ \A t \in Session : session'[t] = session[t] \/ (t = s /\ session'[t] = row)
  BY <1>2, <1>3, <1>5 DEF LoginTypeOK
<1>8. /\ cookie' \in [Browser -> [login : Login \cup {None}, session : Session \cup {None}]]
      /\ \A c \in Browser : cookie'[c] = cookie[c]
                            \/ (c = b /\ cookie'[c].session = s)
  BY <1>2, <1>3 DEF LoginTypeOK
<1>9. \A k \in Login : LoginTouched(k)
  BY <1>1, <1>4, <1>6 DEF LoginTouched, Used
<1>10. \A t \in Session : SessionTouched(t)
  BY <1>2, <1>5, <1>7 DEF SessionTouched
<1>11. \A c \in Browser : CookieTouched(c)
  BY <1>2, <1>8 DEF CookieTouched
<1> HIDE DEF LoginInv, l, s
<1> QED
  BY <1>6, <1>7, <1>8, <1>9, <1>10, <1>11, TouchKeeps

(* Every step of the login keeps the invariant.                              *)
LEMMA LoginStepKeeps ==
  ASSUME LoginInv, LoginStep
  PROVE  LoginInv'
<1>1. /\ login \in [Login -> LoginRow \cup {None, Deleted}]
      /\ session \in [Session -> SessionRow \cup {None, Deleted}]
      /\ cookie \in [Browser -> [login : Login \cup {None}, session : Session \cup {None}]]
      /\ \A l \in Login : HasLogin(l) <=> login[l] \in LoginRow
      /\ \A s \in Session : HasSession(s) <=> session[s] \in SessionRow
      /\ \A l \in Login : login'[l] = login[l] => LoginTouched(l)
      /\ \A s \in Session : session'[s] = session[s] => SessionTouched(s)
      /\ \A b \in Browser : cookie'[b].session \in {cookie[b].session, None} => CookieTouched(b)
  BY LoginRows DEF LoginInv, LoginTypeOK, LoginTouched, SessionTouched, CookieTouched
<1>2. ASSUME NEW b \in Browser, OpenChat(b) PROVE LoginInv'
  <2>1. PICK l \in Login :
       /\ login[l] = None
       /\ login' = [k \in Login |->
            IF k = l THEN [browser |-> b, expired |-> FALSE, attempts |-> 0,
                           status |-> "pending", session |-> None]
            ELSE IF k = cookie[b].login /\ HasLogin(k) /\ login[k].status = "pending"
            THEN [login[k] EXCEPT !.status = "blocked"]
            ELSE login[k]]
       /\ cookie' = [cookie EXCEPT ![b].login = l]
    BY <1>2 DEF OpenChat
  <2> DEFINE new == [browser |-> b, expired |-> FALSE, attempts |-> 0,
                     status |-> "pending", session |-> None]
             blocked(k) == [login[k] EXCEPT !.status = "blocked"]
  <2>2. new \in LoginRow /\ new.status = "pending" /\ new.session = None
    BY AttemptsAssumption DEF LoginRow
  <2>3. ASSUME NEW k \in Login, HasLogin(k), login[k].status = "pending"
        PROVE  /\ blocked(k) \in LoginRow /\ blocked(k).session = login[k].session
               /\ blocked(k).browser = login[k].browser /\ blocked(k).status = "blocked"
    BY <1>1, <2>3 DEF LoginRow
  <2>4. \A k \in Login :
          \/ k = l /\ login'[k] = new
          \/ k # l /\ HasLogin(k) /\ login[k].status = "pending" /\ login'[k] = blocked(k)
          \/ k # l /\ login'[k] = login[k]
    BY <2>1
  <2> HIDE DEF new, blocked
  <2>5. \A k \in Login : LoginTouched(k)
    BY <2>1, <2>2, <2>3, <2>4 DEF LoginTouched, Used
  <2>6. login' \in [Login -> LoginRow \cup {None, Deleted}]
    <3>1. login' = [k \in Login |-> login'[k]]
      BY <2>1
    <3>2. \A k \in Login : login'[k] \in LoginRow \cup {None, Deleted}
      BY <1>1, <2>2, <2>3, <2>4
    <3> QED
      BY <3>1, <3>2
  <2>7. /\ cookie' \in [Browser -> [login : Login \cup {None}, session : Session \cup {None}]]
        /\ \A c \in Browser : cookie'[c].session = cookie[c].session
    BY <1>1, <2>1
  <2>8. session' = session
    BY <1>2 DEF OpenChat
  <2> QED
    BY <1>1, <2>5, <2>6, <2>7, <2>8, TouchKeeps
<1>3. ASSUME NEW l \in Login, NEW u \in User, ConfirmWrong(u, l) PROVE LoginInv'
  <2> DEFINE row == [login[l] EXCEPT !.attempts = @ + 1,
                !.status = IF login[l].attempts + 1 >= MaxAttempts THEN "blocked" ELSE @]
  <2>1. /\ HasLogin(l) /\ login[l] \in LoginRow /\ login[l].status = "pending"
        /\ login[l].attempts < MaxAttempts
        /\ login' = [login EXCEPT ![l].attempts = @ + 1,
             ![l].status = IF login[l].attempts + 1 >= MaxAttempts THEN "blocked" ELSE @]
        /\ UNCHANGED <<session, cookie>>
    BY <1>1, <1>3 DEF ConfirmWrong, Waits
  <2>2. login[l].attempts + 1 \in 0 .. MaxAttempts
    BY <2>1, AttemptsAssumption DEF LoginRow
  <2>3. /\ row \in LoginRow /\ row.session = login[l].session
        /\ row.browser = login[l].browser /\ row.status \in {"pending", "blocked"}
    BY <2>1, <2>2 DEF LoginRow
  <2>4. login' = [login EXCEPT ![l] = row]
    BY <1>1, <2>1
  <2> HIDE DEF row
  <2>5. /\ login' \in [Login -> LoginRow \cup {None, Deleted}]
        /\ \A k \in Login : login'[k] = IF k = l THEN row ELSE login[k]
    BY <1>1, <2>3, <2>4
  <2>6. \A k \in Login : LoginTouched(k)
    BY <1>1, <2>1, <2>3, <2>5 DEF LoginTouched, Used
  <2> QED
    BY <1>1, <2>1, <2>5, <2>6, TouchKeeps
<1>4. ASSUME NEW b \in Browser, Logout(b) PROVE LoginInv'
  <2> DEFINE s == cookie[b].session
             row == [session[s] EXCEPT !.revoked = TRUE]
  <2>1. /\ HasSession(s) /\ session' = [session EXCEPT ![s].revoked = TRUE]
        /\ cookie' = [cookie EXCEPT ![b].session = None] /\ login' = login
    BY <1>4 DEF Logout, Authenticated, Live
  <2>2. s \in Session /\ session[s] \in SessionRow
    BY <1>1, <2>1 DEF HasSession
  <2>3. /\ row \in SessionRow /\ row.by = session[s].by /\ row.of = session[s].of
        /\ row.token = session[s].token
    BY <2>2 DEF SessionRow
  <2>4. session' = [session EXCEPT ![s] = row]
    BY <1>1, <2>1, <2>2
  <2> HIDE DEF row
  <2>5. /\ session' \in [Session -> SessionRow \cup {None, Deleted}]
        /\ \A t \in Session : session'[t] = IF t = s THEN row ELSE session[t]
    BY <1>1, <2>2, <2>3, <2>4
  <2>6. \A t \in Session : SessionTouched(t)
    BY <1>1, <2>1, <2>2, <2>3, <2>5 DEF SessionTouched, LoginInv, SessionFits
  <2>7. /\ cookie' \in [Browser -> [login : Login \cup {None}, session : Session \cup {None}]]
        /\ \A c \in Browser : cookie'[c].session \in {cookie[c].session, None}
    BY <1>1, <2>1
  <2> HIDE DEF s
  <2> QED
    BY <1>1, <2>1, <2>5, <2>6, <2>7, TouchKeeps
<1>5. ASSUME NEW l \in Login, ExpireLogin(l) PROVE LoginInv'
  <2> DEFINE row == [login[l] EXCEPT !.expired = TRUE]
  <2>1. /\ HasLogin(l) /\ login[l] \in LoginRow
        /\ login' = [login EXCEPT ![l].expired = TRUE] /\ UNCHANGED <<session, cookie>>
    BY <1>1, <1>5 DEF ExpireLogin
  <2>2. /\ row \in LoginRow /\ row.session = login[l].session
        /\ row.browser = login[l].browser /\ row.status = login[l].status
    BY <2>1 DEF LoginRow
  <2>3. login' = [login EXCEPT ![l] = row]
    BY <1>1, <2>1
  <2> HIDE DEF row
  <2>4. /\ login' \in [Login -> LoginRow \cup {None, Deleted}]
        /\ \A k \in Login : login'[k] = IF k = l THEN row ELSE login[k]
    BY <1>1, <2>2, <2>3
  <2>5. \A k \in Login : LoginTouched(k)
    BY <1>1, <2>1, <2>2, <2>4 DEF LoginTouched
  <2> QED
    BY <1>1, <2>1, <2>4, <2>5, TouchKeeps
<1>6. ASSUME NEW s \in Session, ExpireSession(s) PROVE LoginInv'
  <2> DEFINE row == [session[s] EXCEPT !.expired = TRUE]
  <2>1. /\ HasSession(s) /\ session[s] \in SessionRow
        /\ session' = [session EXCEPT ![s].expired = TRUE] /\ UNCHANGED <<login, cookie>>
    BY <1>1, <1>6 DEF ExpireSession
  <2>2. /\ row \in SessionRow /\ row.by = session[s].by /\ row.of = session[s].of
        /\ row.token = session[s].token
    BY <2>1 DEF SessionRow
  <2>3. session' = [session EXCEPT ![s] = row]
    BY <1>1, <2>1
  <2> HIDE DEF row
  <2>4. /\ session' \in [Session -> SessionRow \cup {None, Deleted}]
        /\ \A t \in Session : session'[t] = IF t = s THEN row ELSE session[t]
    BY <1>1, <2>2, <2>3
  <2>5. \A t \in Session : SessionTouched(t)
    BY <1>1, <2>1, <2>2, <2>4 DEF SessionTouched, LoginInv, SessionFits
  <2> QED
    BY <1>1, <2>1, <2>4, <2>5, TouchKeeps
<1>7. CASE CleanupLogins
  <2>1. /\ \A l \in Login : login'[l] = IF HasLogin(l) /\ login[l].expired THEN Deleted
                                        ELSE login[l]
        /\ login' = [l \in Login |-> login'[l]]
        /\ UNCHANGED <<session, cookie>>
    BY <1>7 DEF CleanupLogins
  <2>2. login' \in [Login -> LoginRow \cup {None, Deleted}]
    BY <1>1, <2>1
  <2>3. \A l \in Login : LoginTouched(l)
    BY <2>1 DEF LoginTouched, HasLogin
  <2> QED
    BY <1>1, <2>1, <2>2, <2>3, TouchKeeps
<1> QED
  BY <1>2, <1>3, <1>4, <1>5, <1>6, <1>7, CompleteKeeps, ConfirmKeeps, CleanupKeeps DEF LoginStep

-----------------------------------------------------------------------------
(* 3. Requests, their handlers and the lock (WebChat)                      *)

\* The places of a handler that has begun, and those of one that holds the lock.
Begun == {"working", "yielded", "delivering"}
Inside == {"working", "delivering"}

\* A job belongs to a stored request of its session, which goes away with the session
\* alone; what Yield kept is what the handler had read.
JobFits(r) ==
  job[r] # None =>
    /\ request[r] # None
    /\ session[job[r].session] # Deleted =>
         HasRequest(r) /\ request[r].session = job[r].session
    /\ job[r].at = "yielded" =>
         job[r].kept.workshop = job[r].shows /\ job[r].kept.role = job[r].as

\* What began to work was a stored request, and its job is never again at a place
\* before that.
EnteredFits(x) ==
  /\ request[x[1]] # None
  /\ HasRequest(x[1]) => request[x[1]].session = x[2] /\ request[x[1]].key = x[3]
  /\ request[x[1]] = Deleted => session[x[2]] = Deleted
  /\ job[x[1]] # None => job[x[1]].at \in Begun

KeysInv ==
  \A q, r \in Request :
    /\ HasRequest(q) /\ HasRequest(r) /\ request[q].session = request[r].session
    /\ request[q].key = request[r].key /\ request[q].key # NoKey
    => q = r

HolderFits(r) ==
  lock = r =>
    /\ job[r] # None /\ job[r].at \in Inside
    /\ active[UserOf(r)] = job[r].shows
    /\ MayIn(UserOf(r), job[r].shows, "workshop.read")
    /\ RoleOf(UserOf(r), job[r].shows) = job[r].as

ChatInv ==
  /\ ChatTypeOK
  /\ \A r \in Request : JobFits(r)
  /\ \A x \in entered : EnteredFits(x)
  /\ KeysInv
  /\ \A r \in Request : HolderFits(r)
  /\ UnfinishedIsWorkedOn

WebInv == IdentityInv /\ LoginInv /\ ChatInv /\ KeyRunsOnce

(* Which rows are rows.                                                      *)
LEMMA ChatRows ==
  ASSUME ChatTypeOK
  PROVE  /\ \A r \in Request : HasRequest(r) <=> request[r] \in RequestRow
         /\ \A r \in Request : job[r] # None <=> job[r] \in Job
         /\ \A x \in RequestRow \cup Job : x # None /\ x # Deleted
         /\ \A r \in Request : r # None
         /\ None # Deleted
  BY NoRequestAssumption, RowsAreRows DEF ChatTypeOK, HasRequest

\* What may happen to the row and to the job of a request once it is stored.
RowTouched(r) ==
  \/ request'[r] = request[r]
  \/ /\ HasRequest(r) /\ request'[r] \in RequestRow
     /\ request'[r].session = request[r].session /\ request'[r].key = request[r].key
JobTouched(r) ==
  \/ job'[r] \in {job[r], None}
  \/ /\ job[r] # None /\ job'[r] \in Job /\ job'[r].session = job[r].session
     /\ job[r].at \in Begun => job'[r].at \in Begun
     /\ job'[r].at = "yielded" =>
          job'[r].kept.workshop = job'[r].shows /\ job'[r].kept.role = job'[r].as

(* Steps that touch what is stored keep jobs, keys and what began together.  *)
LEMMA TouchedKeeps ==
  ASSUME ChatInv, UNCHANGED session,
         \A r \in Request : RowTouched(r) /\ JobTouched(r)
  PROVE  /\ \A r \in Request : JobFits(r)'
         /\ \A x \in entered : EnteredFits(x)'
         /\ KeysInv'
<1>1. ChatTypeOK
  BY DEF ChatInv
<1>2. /\ \A r \in Request : HasRequest(r)' <=> HasRequest(r)
      /\ \A r \in Request : request'[r] = None <=> request[r] = None
      /\ \A r \in Request : request'[r] = Deleted <=> request[r] = Deleted
      /\ \A r \in Request : HasRequest(r) =>
           request'[r].session = request[r].session /\ request'[r].key = request[r].key
  BY <1>1, ChatRows DEF RowTouched, HasRequest
<1>3. \A r \in Request : job'[r] # None => job[r] # None /\ job'[r].session = job[r].session
  BY <1>1, ChatRows DEF JobTouched
<1>4. ASSUME NEW r \in Request PROVE JobFits(r)'
  <2>1. JobFits(r) /\ JobTouched(r)
    BY DEF ChatInv
  <2>2. job'[r] # None /\ job'[r].at = "yielded" =>
          job'[r].kept.workshop = job'[r].shows /\ job'[r].kept.role = job'[r].as
    BY <2>1 DEF JobFits, JobTouched
  <2> QED
    BY <1>2, <1>3, <2>1, <2>2 DEF JobFits
<1>5. ASSUME NEW x \in entered PROVE EnteredFits(x)'
  <2>1. x[1] \in Request
    BY <1>1 DEF ChatTypeOK
  <2>2. EnteredFits(x) /\ JobTouched(x[1])
    BY <2>1 DEF ChatInv
  <2>3. job'[x[1]] # None => job'[x[1]].at \in Begun
    BY <2>2 DEF EnteredFits, JobTouched
  <2> QED
    BY <1>2, <2>1, <2>2, <2>3 DEF EnteredFits
<1>6. KeysInv'
  BY <1>2 DEF ChatInv, KeysInv
<1> QED
  BY <1>4, <1>5, <1>6

(* A handler that goes on holding the lock keeps what it has read while its  *)
(* person's selection and role stay.                                         *)
LEMMA HolderKeeps ==
  ASSUME ChatInv, lock' \in {lock, None},
         \A r \in Request : lock' = r =>
           /\ UNCHANGED <<member, active>>
           /\ job'[r] # None /\ job'[r].at \in Inside /\ job'[r].user = job[r].user
           /\ job'[r].shows = job[r].shows /\ job'[r].as = job[r].as
  PROVE  \A r \in Request : HolderFits(r)'
<1> SUFFICES ASSUME NEW r \in Request, lock' = r PROVE HolderFits(r)'
  BY DEF HolderFits
<1>1. lock = r /\ HolderFits(r)
  BY ChatRows DEF ChatInv
<1> QED
  BY <1>1 DEF HolderFits, UserOf, MayIn, Requires, RoleOf

(* Put writes the status of a row that is there.                             *)
LEMMA PutShape ==
  ASSUME ChatTypeOK, NEW r \in Request, NEW status \in Status, Put(r, status)
  PROVE  /\ request' \in [Request -> RequestRow \cup {None, Deleted}]
         /\ \A q \in Request : RowTouched(q)
         /\ \A q \in Request : q # r => request'[q] = request[q]
         /\ HasRequest(r)' <=> HasRequest(r)
         /\ HasRequest(r) => request'[r].status = status
<1>1. CASE HasRequest(r)
  <2> DEFINE row == [request[r] EXCEPT !.status = status]
  <2>1. request[r] \in RequestRow
    BY <1>1, ChatRows
  <2>2. /\ row \in RequestRow /\ row.session = request[r].session /\ row.key = request[r].key
        /\ row.status = status
    BY <2>1 DEF RequestRow
  <2>3. request' = [request EXCEPT ![r] = row]
    BY <1>1 DEF Put, ChatTypeOK
  <2> HIDE DEF row
  <2>4. /\ request' \in [Request -> RequestRow \cup {None, Deleted}]
        /\ \A q \in Request : request'[q] = IF q = r THEN row ELSE request[q]
    BY <2>2, <2>3 DEF ChatTypeOK
  <2>5. HasRequest(r)'
    BY <2>2, <2>4, ChatRows DEF HasRequest
  <2> QED
    BY <1>1, <2>2, <2>4, <2>5 DEF RowTouched
<1>2. CASE ~HasRequest(r)
  BY <1>2 DEF Put, ChatTypeOK, RowTouched, HasRequest
<1> QED
  BY <1>1, <1>2

(* A request that ends: its row says so and its job is gone.                 *)
LEMMA EndsKeeps ==
  ASSUME ChatInv, LoginTypeOK', NEW r \in Request,
         NEW status \in {"COMPLETED", "FAILED", "CANCELLED"}, Ends(r, status),
         lock' = None \/ active' = active
  PROVE  ChatInv'
<1> DEFINE st == IF job[r].done THEN "CANCELLED" ELSE status
<1>1. /\ Put(r, st) /\ job' = [job EXCEPT ![r] = None]
      /\ lock' = IF lock = r THEN None ELSE lock
      /\ UNCHANGED <<member, invite, joined, asked, loginVars, message, posting, up, entered>>
  BY DEF Ends
<1>2. ChatTypeOK /\ UNCHANGED <<login, session, cookie>>
  BY <1>1 DEF ChatInv, loginVars
<1>3. st \in Status /\ st \notin Unfinished
  BY DEF Status, Unfinished
<1> HIDE DEF st
<1>4. /\ request' \in [Request -> RequestRow \cup {None, Deleted}]
      /\ \A q \in Request : RowTouched(q)
      /\ \A q \in Request : q # r => request'[q] = request[q]
      /\ HasRequest(r)' <=> HasRequest(r)
      /\ HasRequest(r) => request'[r].status = st
  BY <1>1, <1>2, <1>3, PutShape
<1>5. /\ job' \in [Request -> Job \cup {None}]
      /\ \A q \in Request : job'[q] = IF q = r THEN None ELSE job[q]
  BY <1>1, <1>2 DEF ChatTypeOK
<1>6. ChatTypeOK'
  BY <1>1, <1>2, <1>4, <1>5 DEF ChatTypeOK
<1>7. \A q \in Request : JobTouched(q)
  BY <1>5 DEF JobTouched
<1>8. \A q \in Request : lock' = q => q # r /\ UNCHANGED <<member, active>> /\ lock = q
  BY <1>1, <1>2, ChatRows
<1>9. \A q \in Request : HolderFits(q)'
  <2>1. \A q \in Request : lock = q => job[q] # None /\ job[q].at \in Inside
    BY DEF ChatInv, HolderFits
  <2> QED
    BY <1>1, <1>5, <1>8, <2>1, HolderKeeps
<1>10. UnfinishedIsWorkedOn'
  <2>1. \A q \in Request : q # r => (HasRequest(q)' <=> HasRequest(q))
    BY <1>4 DEF HasRequest
  <2> QED
    BY <1>1, <1>3, <1>4, <1>5, <2>1 DEF ChatInv, UnfinishedIsWorkedOn
<1> QED
  BY <1>1, <1>2, <1>4, <1>6, <1>7, <1>9, <1>10, TouchedKeeps DEF ChatInv

(* A job that moves on while the rows stay as they are.                      *)
LEMMA MoveKeeps ==
  ASSUME ChatInv, LoginTypeOK', NEW r \in Request, NEW new \in Job,
         UNCHANGED <<member, session, posting, up, entered>>,
         job[r] # None, job' = [job EXCEPT ![r] = new],
         new.session = job[r].session,
         job[r].at \in Begun => new.at \in Begun,
         new.at = "yielded" => new.kept.workshop = new.shows /\ new.kept.role = new.as,
         request' \in [Request -> RequestRow \cup {None, Deleted}],
         \A q \in Request : RowTouched(q),
         \A q \in Request : q # r => request'[q] = request[q],
         message' \subseteq Message,
         lock' \in Request \cup {None},
         \A q \in Request : HolderFits(q)'
  PROVE  ChatInv'
<1>1. ChatTypeOK
  BY DEF ChatInv
<1>2. /\ job' \in [Request -> Job \cup {None}]
      /\ \A q \in Request : job'[q] = IF q = r THEN new ELSE job[q]
      /\ new # None
  BY <1>1, ChatRows DEF ChatTypeOK
<1>3. ChatTypeOK'
  BY <1>1, <1>2 DEF ChatTypeOK
<1>4. \A q \in Request : JobTouched(q)
  BY <1>2 DEF JobTouched
<1>5. UnfinishedIsWorkedOn'
  <2>1. \A q \in Request : q # r => (HasRequest(q)' <=> HasRequest(q))
    BY DEF HasRequest
  <2> QED
    BY <1>2, <2>1 DEF ChatInv, UnfinishedIsWorkedOn
<1> QED
  BY <1>3, <1>4, <1>5, TouchedKeeps DEF ChatInv

Place == {"stored", "pending", "started", "working", "yielded", "delivering"}

(* Goes changes the place of a job and nothing else of it.                   *)
LEMMA GoesShape ==
  ASSUME ChatTypeOK, NEW r \in Request, job[r] # None, NEW at \in Place, Goes(r, at)
  PROVE  LET new == [job[r] EXCEPT !.at = at] IN
         /\ job' = [job EXCEPT ![r] = new] /\ new \in Job /\ new.at = at
         /\ new.session = job[r].session /\ new.user = job[r].user
         /\ new.shows = job[r].shows /\ new.as = job[r].as /\ new.kept = job[r].kept
<1>1. job[r] \in Job
  BY ChatRows
<1>2. job' = [job EXCEPT ![r] = [job[r] EXCEPT !.at = at]]
  BY DEF Goes, ChatTypeOK
<1> QED
  BY <1>1, <1>2 DEF Job, Place

(* So a job may go from place to place as long as it does not go back, its   *)
(* row is untouched or written by Put, and the lock is held or given away.   *)
LEMMA GoesKeeps ==
  ASSUME ChatInv, NEW r \in Request, job[r] # None, NEW at \in Place, Goes(r, at),
         UNCHANGED <<identityVars, loginVars, posting, lock, up, entered>>,
         job[r].at \in Begun => at \in Begun,
         at # "yielded", lock = r => at \in Inside,
         message' \subseteq Message,
         \/ request' = request
         \/ \E status \in Status : Put(r, status)
  PROVE  ChatInv'
<1> DEFINE new == [job[r] EXCEPT !.at = at]
<1>1. /\ ChatTypeOK /\ LoginTypeOK'
      /\ UNCHANGED <<member, active, session, posting, up, entered>> /\ lock' = lock
  BY DEF ChatInv, ChatTypeOK, LoginTypeOK, loginVars, identityVars
<1>2. /\ job' = [job EXCEPT ![r] = new] /\ new \in Job /\ new.at = at
      /\ new.session = job[r].session /\ new.user = job[r].user
      /\ new.shows = job[r].shows /\ new.as = job[r].as
  BY <1>1, GoesShape
<1> HIDE DEF new
<1>3. /\ request' \in [Request -> RequestRow \cup {None, Deleted}]
      /\ \A q \in Request : RowTouched(q)
      /\ \A q \in Request : q # r => request'[q] = request[q]
  BY <1>1, PutShape DEF ChatTypeOK, RowTouched
<1>4. \A q \in Request : HolderFits(q)'
  <2>1. \A q \in Request : job'[q] = IF q = r THEN new ELSE job[q]
    BY <1>1, <1>2 DEF ChatTypeOK
  <2>2. \A q \in Request : lock = q => job[q] # None /\ job[q].at \in Inside
    BY DEF ChatInv, HolderFits
  <2>3. new # None
    BY <1>1, <1>2, ChatRows
  <2> QED
    BY <1>1, <1>2, <2>1, <2>2, <2>3, HolderKeeps
<1>5. lock' \in Request \cup {None}
  BY <1>1 DEF ChatTypeOK
<1> QED
  BY <1>1, <1>2, <1>3, <1>4, <1>5, MoveKeeps

(* What leaves requests and jobs alone leaves everything of the chat alone,  *)
(* when nobody holds the lock or nobody's selection changes.                 *)
LEMMA StillKeeps ==
  ASSUME ChatInv, UNCHANGED <<loginVars, request, message, job, lock, up, entered>>,
         posting' \in [Session -> Key \cup {NoKey, None}],
         lock = None \/ UNCHANGED <<member, active>>
  PROVE  ChatInv'
<1>1. ChatTypeOK /\ session' = session
  BY DEF ChatInv, loginVars
<1>2. ChatTypeOK'
  BY <1>1 DEF ChatTypeOK, LoginTypeOK, loginVars
<1>3. \A r \in Request : RowTouched(r) /\ JobTouched(r)
  BY DEF RowTouched, JobTouched
<1>4. \A r \in Request : lock = r => job[r] # None /\ job[r].at \in Inside
  BY DEF ChatInv, HolderFits
<1>5. \A r \in Request : HolderFits(r)'
  BY <1>1, <1>4, HolderKeeps, ChatRows
<1>6. UnfinishedIsWorkedOn'
  BY DEF ChatInv, UnfinishedIsWorkedOn, HasRequest
<1> QED
  BY <1>1, <1>2, <1>3, <1>5, <1>6, TouchedKeeps DEF ChatInv

(* A request is stored under a key its session has not used.                 *)
LEMMA StoreKeeps ==
  ASSUME WebInv, NEW s \in Session, Store(s)
  PROVE  ChatInv'
<1> DEFINE u == session[s].user
           row(r) == [session |-> s, key |-> posting[s], user |-> u, workshop |-> active[u],
                      status |-> "QUEUED"]
           new(r) == [at |-> "stored", session |-> s, user |-> u, workshop |-> active[u],
                      done |-> FALSE, yields |-> 0, shows |-> active[u], as |-> "NONE",
                      kept |-> [workshop |-> active[u], role |-> "NONE"]]
<1>1. PICK r \in Request :
        /\ request[r] = None /\ request' = [request EXCEPT ![r] = row(r)]
        /\ job' = [job EXCEPT ![r] = new(r)]
  BY DEF Store
<1>2. /\ HasSession(s) /\ posting[s] # None /\ active[u] \in Available(member, u)
      /\ posting[s] \in Key => ~KeyUsed(s, posting[s])
      /\ posting' = [posting EXCEPT ![s] = None]
      /\ UNCHANGED <<identityVars, loginVars, message, lock, up, entered>>
  BY DEF Store
<1>3. ChatTypeOK /\ LoginTypeOK /\ UNCHANGED <<member, active, session>>
  BY <1>2 DEF WebInv, ChatInv, ChatTypeOK, identityVars, loginVars
<1>4. u \in User /\ active[u] \in Workshop /\ posting[s] \in Key \cup {NoKey}
  BY <1>2, <1>3, LoginRows DEF Available, SessionRow, ChatTypeOK
<1>5. row(r) \in RequestRow /\ row(r).session = s /\ row(r).key = posting[s]
  BY <1>4 DEF RequestRow, Status
<1>6. new(r) \in Job /\ new(r).session = s /\ new(r).at = "stored"
  <2>1. 0 \in 0 .. MaxYield
    BY KeyAssumption
  <2> QED
    BY <1>4, <2>1 DEF Job
<1> HIDE DEF row, new, u
<1>7. /\ request' \in [Request -> RequestRow \cup {None, Deleted}]
      /\ \A q \in Request : request'[q] = IF q = r THEN row(r) ELSE request[q]
      /\ job' \in [Request -> Job \cup {None}]
      /\ \A q \in Request : job'[q] = IF q = r THEN new(r) ELSE job[q]
      /\ posting' \in [Session -> Key \cup {NoKey, None}]
  BY <1>1, <1>2, <1>3, <1>5, <1>6 DEF ChatTypeOK
<1>8. /\ row(r) # None /\ row(r) # Deleted /\ new(r) # None
      /\ HasRequest(r)' /\ ~HasRequest(r)
      /\ \A q \in Request : q # r => (HasRequest(q)' <=> HasRequest(q))
  BY <1>1, <1>3, <1>5, <1>6, <1>7, ChatRows DEF HasRequest
<1>9. ChatTypeOK'
  BY <1>2, <1>3, <1>7 DEF ChatTypeOK, LoginTypeOK, loginVars
<1>10. ASSUME NEW q \in Request PROVE JobFits(q)'
  <2>1. CASE q = r
    BY <1>5, <1>6, <1>7, <1>8, <2>1 DEF JobFits
  <2>2. CASE q # r
    BY <1>3, <1>7, <1>8, <2>2 DEF WebInv, ChatInv, JobFits
  <2> QED
    BY <2>1, <2>2
<1>11. ASSUME NEW x \in entered PROVE EnteredFits(x)'
  <2>1. x[1] \in Request /\ EnteredFits(x)
    BY <1>3 DEF ChatTypeOK, WebInv, ChatInv
  <2>2. x[1] # r
    BY <1>1, <2>1 DEF EnteredFits
  <2> QED
    BY <1>3, <1>7, <1>8, <2>1, <2>2 DEF EnteredFits
<1>12. KeysInv'
  <2>1. ASSUME NEW q \in Request, q # r, HasRequest(q), request[q].session = s,
               request[q].key = posting[s]
        PROVE  posting[s] = NoKey
    BY <1>2, <1>4, <2>1 DEF KeyUsed
  <2> QED
    BY <1>5, <1>7, <1>8, <2>1 DEF WebInv, ChatInv, KeysInv
<1>13. \A q \in Request : HolderFits(q)'
  <2>1. job[r] = None
    BY <1>1 DEF WebInv, ChatInv, JobFits
  <2>2. \A q \in Request : lock = q => q # r /\ job[q] # None /\ job[q].at \in Inside
    BY <2>1 DEF WebInv, ChatInv, HolderFits
  <2> QED
    BY <1>2, <1>3, <1>7, <2>2, HolderKeeps DEF WebInv
<1>14. UnfinishedIsWorkedOn'
  BY <1>2, <1>7, <1>8 DEF WebInv, ChatInv, UnfinishedIsWorkedOn
<1>15. entered' = entered
  BY <1>2
<1> QED
  BY <1>9, <1>10, <1>11, <1>12, <1>13, <1>14, <1>15 DEF ChatInv

(* A refused request is taken back before it began.                          *)
LEMMA RefuseKeeps ==
  ASSUME WebInv, NEW r \in Request, Refuse(r)
  PROVE  ChatInv'
<1>1. /\ job[r] # None /\ job[r].at = "stored"
      /\ request' = [request EXCEPT ![r] = Deleted] /\ job' = [job EXCEPT ![r] = None]
      /\ UNCHANGED <<identityVars, loginVars, message, posting, lock, up, entered>>
  BY DEF Refuse, Is
<1>2. ChatTypeOK /\ UNCHANGED <<member, active, session>>
  BY <1>1 DEF WebInv, ChatInv, identityVars, loginVars
<1>3. /\ \A q \in Request : request'[q] = IF q = r THEN Deleted ELSE request[q]
      /\ \A q \in Request : job'[q] = IF q = r THEN None ELSE job[q]
      /\ ChatTypeOK'
  BY <1>1, <1>2 DEF ChatTypeOK, LoginTypeOK, loginVars
<1>4. /\ ~HasRequest(r)'
      /\ \A q \in Request : q # r => (HasRequest(q)' <=> HasRequest(q))
  BY <1>3 DEF HasRequest
<1>5. ASSUME NEW q \in Request PROVE JobFits(q)'
  BY <1>2, <1>3, <1>4 DEF WebInv, ChatInv, JobFits
<1>6. ASSUME NEW x \in entered PROVE EnteredFits(x)'
  <2>1. x[1] \in Request /\ EnteredFits(x)
    BY <1>2 DEF ChatTypeOK, WebInv, ChatInv
  <2>2. x[1] # r
    BY <1>1, <2>1 DEF EnteredFits, Begun
  <2> QED
    BY <1>2, <1>3, <1>4, <2>1, <2>2 DEF EnteredFits
<1>7. KeysInv'
  BY <1>3, <1>4 DEF WebInv, ChatInv, KeysInv
<1>8. \A q \in Request : HolderFits(q)'
  <2>1. \A q \in Request : lock = q => q # r /\ job[q] # None /\ job[q].at \in Inside
    BY <1>1 DEF WebInv, ChatInv, HolderFits, Inside
  <2> QED
    BY <1>1, <1>2, <1>3, <2>1, HolderKeeps DEF WebInv
<1>9. UnfinishedIsWorkedOn'
  BY <1>1, <1>3, <1>4 DEF WebInv, ChatInv, UnfinishedIsWorkedOn
<1>10. entered' = entered
  BY <1>1
<1> QED
  BY <1>3, <1>5, <1>6, <1>7, <1>8, <1>9, <1>10 DEF ChatInv

-----------------------------------------------------------------------------
(* The actions of a request, one by one.                                     *)

(* A POST begins and is answered without a trace.                            *)
LEMMA PostKeeps ==
  ASSUME ChatInv,
         \/ \E b \in Browser, k \in Key \cup {NoKey} : BeginPost(b, k)
         \/ \E s \in Session : Answered(s)
  PROVE  ChatInv'
<1>1. ChatTypeOK
  BY DEF ChatInv
<1>2. /\ UNCHANGED <<identityVars, loginVars, request, message, job, lock, up, entered>>
      /\ \/ \E k \in Key \cup {NoKey} : \E s : posting' = [posting EXCEPT ![s] = k]
         \/ \E s : posting' = [posting EXCEPT ![s] = None]
  BY DEF BeginPost, Answered
<1>3. posting' \in [Session -> Key \cup {NoKey, None}]
  BY <1>1, <1>2 DEF ChatTypeOK
<1>4. UNCHANGED <<member, active>>
  BY <1>2 DEF identityVars
<1> QED
  BY <1>2, <1>3, <1>4, StillKeeps

(* The holder is inside its handler.                                         *)
LEMMA HolderInside ==
  ASSUME ChatInv, NEW r \in Request, lock = r
  PROVE  /\ job[r] \in Job /\ job[r] # None /\ job[r].at \in Inside
         /\ UserOf(r) \in User /\ UserOf(r) = job[r].user
         /\ job[r].shows \in Workshop /\ active[UserOf(r)] = job[r].shows
         /\ MayIn(UserOf(r), job[r].shows, "workshop.read")
         /\ RoleOf(UserOf(r), job[r].shows) = job[r].as
<1>1. HolderFits(r) /\ job[r] # None /\ job[r] \in Job
  BY ChatRows DEF ChatInv, HolderFits
<1> QED
  BY <1>1 DEF HolderFits, UserOf, Job

(* Accept, Start, Deliver and Insert move a job on.                          *)
LEMMA AdvanceKeeps ==
  ASSUME ChatInv, NEW r \in Request, Accept(r) \/ Start(r) \/ Deliver(r) \/ Insert(r)
  PROVE  ChatInv'
<1>1. ChatTypeOK /\ message \subseteq Message
  BY DEF ChatInv, ChatTypeOK
<1>2. CASE Accept(r)
  <2>1. /\ job[r] # None /\ job[r].at = "stored" /\ Goes(r, "pending")
        /\ UNCHANGED <<identityVars, loginVars, posting, lock, up, entered>>
        /\ UNCHANGED <<request, message>>
    BY <1>2 DEF Accept, Is
  <2>2. lock # r
    BY <2>1, HolderInside DEF Inside
  <2> QED
    BY <1>1, <2>1, <2>2, GoesKeeps DEF Begun, Place
<1>3. CASE Start(r)
  <2>1. /\ job[r] # None /\ job[r].at = "pending" /\ Goes(r, "started") /\ Put(r, "RUNNING")
        /\ UNCHANGED <<identityVars, loginVars, posting, lock, up, entered>>
        /\ UNCHANGED message
    BY <1>3 DEF Start, Is
  <2>2. lock # r
    BY <2>1, HolderInside DEF Inside
  <2>3. "RUNNING" \in Status
    BY DEF Status
  <2> QED
    BY <1>1, <2>1, <2>2, <2>3, GoesKeeps DEF Begun, Place
<1>4. CASE Deliver(r)
  <2>1. /\ lock = r /\ job[r].at = "working" /\ Goes(r, "delivering")
        /\ UNCHANGED <<identityVars, loginVars, posting, lock, up, entered>>
        /\ UNCHANGED <<request, message>>
    BY <1>4 DEF Deliver
  <2>2. job[r] # None
    BY <2>1, HolderInside
  <2> QED
    BY <1>1, <2>1, <2>2, GoesKeeps DEF Begun, Place, Inside
<1>5. CASE Insert(r)
  <2>1. /\ lock = r /\ job[r].at = "delivering" /\ Goes(r, "working")
        /\ UNCHANGED <<identityVars, loginVars, posting, lock, up, entered>>
        /\ UNCHANGED request
        /\ message' = message \cup {[request |-> r, workshop |-> active[UserOf(r)]]}
    BY <1>5 DEF Insert
  <2>2. job[r] # None /\ active[UserOf(r)] \in Workshop
    BY <2>1, HolderInside
  <2>3. message' \subseteq Message
    BY <1>1, <2>1, <2>2 DEF Message
  <2> QED
    BY <2>1, <2>2, <2>3, GoesKeeps DEF Begun, Place, Inside
<1> QED
  BY <1>2, <1>3, <1>4, <1>5

(* Abandon, TurnedAway, ResumeDenied and Return end a request.               *)
LEMMA EndingKeeps ==
  ASSUME ChatInv, NEW r \in Request,
         Abandon(r) \/ TurnedAway(r) \/ ResumeDenied(r) \/ Return(r)
  PROVE  ChatInv'
<1>1. ASSUME NEW status \in {"COMPLETED", "FAILED", "CANCELLED"}, Ends(r, status)
      PROVE  /\ LoginTypeOK'
             /\ lock = None => lock' = None
  BY <1>1 DEF Ends, ChatInv, ChatTypeOK, LoginTypeOK, loginVars
<1>2. CASE Abandon(r) \/ Return(r)
  BY <1>1, <1>2, EndsKeeps DEF Abandon, Return
<1>3. CASE TurnedAway(r) \/ ResumeDenied(r)
  <2>1. Ends(r, "FAILED") /\ (lock = None \/ active' = active)
    BY <1>3 DEF TurnedAway, ResumeDenied
  <2> QED
    BY <1>1, <2>1, EndsKeeps
<1> QED
  BY <1>2, <1>3

(* A cancellation is noted and nothing else.                                 *)
LEMMA CancelKeeps ==
  ASSUME ChatInv, NEW r \in Request, CancelRequest(r)
  PROVE  ChatInv'
<1> DEFINE new == [job[r] EXCEPT !.done = TRUE]
<1>1. /\ job[r] # None /\ job' = [job EXCEPT ![r].done = TRUE]
      /\ UNCHANGED <<identityVars, loginVars, request, message, posting, lock, up, entered>>
  BY DEF CancelRequest
<1>2. /\ ChatTypeOK /\ LoginTypeOK' /\ UNCHANGED <<member, active, session>>
      /\ job[r] \in Job /\ JobFits(r)
  BY <1>1, ChatRows DEF ChatInv, ChatTypeOK, LoginTypeOK, loginVars, identityVars
<1>3. /\ new \in Job /\ new.at = job[r].at /\ new.session = job[r].session
      /\ new.user = job[r].user /\ new.shows = job[r].shows /\ new.as = job[r].as
      /\ new.kept = job[r].kept
  BY <1>2 DEF Job
<1>4. job' = [job EXCEPT ![r] = new]
  BY <1>1, <1>2 DEF ChatTypeOK
<1> HIDE DEF new
<1>5. \A q \in Request : HolderFits(q)'
  <2>1. \A q \in Request : job'[q] = IF q = r THEN new ELSE job[q]
    BY <1>2, <1>4 DEF ChatTypeOK
  <2>2. \A q \in Request : lock = q => job[q] # None /\ job[q].at \in Inside
    BY DEF ChatInv, HolderFits
  <2>3. new # None
    BY <1>2, <1>3, ChatRows
  <2> QED
    BY <1>1, <1>2, <1>3, <2>1, <2>2, <2>3, HolderKeeps
<1>6. /\ request' \in [Request -> RequestRow \cup {None, Deleted}]
      /\ \A q \in Request : RowTouched(q)
      /\ message' \subseteq Message /\ lock' \in Request \cup {None}
  BY <1>1, <1>2 DEF ChatTypeOK, RowTouched
<1>7. new.at = "yielded" => new.kept.workshop = new.shows /\ new.kept.role = new.as
  BY <1>1, <1>2, <1>3 DEF JobFits
<1> QED
  BY <1>1, <1>2, <1>3, <1>4, <1>5, <1>6, <1>7, MoveKeeps

(* A handler that takes the lock, or shows another workshop, has read what is *)
(* there.                                                                    *)
LEMMA HolderSet ==
  ASSUME NEW r \in Request, NEW u \in User, NEW w \in Workshop,
         lock' = r, member' = member, active'[u] = w,
         MayIn(u, w, "workshop.read"),
         job'[r] # None, job'[r].at \in Inside, job'[r].user = u,
         job'[r].shows = w, job'[r].as = RoleOf(u, w)
  PROVE  \A q \in Request : HolderFits(q)'
<1>1. UserOf(r)' = u
  BY DEF UserOf
<1>2. MayIn(u, w, "workshop.read")' /\ RoleOf(u, w)' = RoleOf(u, w)
  BY DEF MayIn, Requires, RoleOf
<1> QED
  BY <1>1, <1>2 DEF HolderFits

(* Enter: what is read under the lock is noted and true.                     *)
LEMMA EnterKeeps ==
  ASSUME WebInv, NEW r \in Request, Enter(r)
  PROVE  /\ ChatInv'
         /\ HasRequest(r) /\ request[r].session = SessionOf(r)
         /\ session[SessionOf(r)] # Deleted
         /\ entered' = entered \cup {<<r, SessionOf(r), request[r].key>>}
<1> DEFINE u == UserOf(r)
           w == job[r].workshop
           new == [job[r] EXCEPT !.at = "working", !.shows = w, !.as = RoleOf(u, w)]
<1>1. /\ job[r] # None /\ job[r].at = "started" /\ lock = None /\ lock' = r
      /\ ~job[r].done /\ Live(SessionOf(r)) /\ MayIn(u, w, "workshop.read")
      /\ job' = [job EXCEPT ![r].at = "working", ![r].shows = job[r].workshop,
                            ![r].as = RoleOf(UserOf(r), job[r].workshop)]
      /\ active' = [active EXCEPT ![u] = w]
      /\ entered' = entered \cup {<<r, SessionOf(r), request[r].key>>}
      /\ UNCHANGED <<member, login, session, cookie, request, message, posting, up>>
  BY DEF Enter, Is, Admits, Reaches, loginVars
<1>2. /\ ChatTypeOK /\ LoginTypeOK /\ IdentityTypeOK /\ job[r] \in Job /\ JobFits(r)
      /\ \A x \in entered : EnteredFits(x)
  BY <1>1, ChatRows DEF WebInv, IdentityInv, PeopleInv, ChatInv, ChatTypeOK
<1>3. /\ u \in User /\ w \in Workshop /\ u = job[r].user /\ SessionOf(r) = job[r].session
      /\ SessionOf(r) \in Session
      /\ RoleOf(u, w) \in MemberRole \cup {"NONE"}
  <2>1. u \in User /\ w \in Workshop /\ u = job[r].user /\ SessionOf(r) = job[r].session
        /\ job[r].session \in Session
    BY <1>2 DEF Job, UserOf, SessionOf
  <2> HIDE DEF u, w
  <2> QED
    BY <1>2, <2>1, RowFields DEF RoleOf
<1>4. /\ HasRequest(r) /\ request[r].session = SessionOf(r)
      /\ session[SessionOf(r)] # Deleted
  BY <1>1, <1>2, <1>3 DEF Live, HasSession, JobFits
<1>5. /\ new \in Job /\ new.at = "working" /\ new.session = job[r].session
      /\ new.user = job[r].user /\ new.shows = w /\ new.as = RoleOf(u, w)
  <2> HIDE DEF u, w
  <2> QED
    BY <1>2, <1>3 DEF Job
<1>6. job' = [job EXCEPT ![r] = new]
  BY <1>1, <1>2 DEF ChatTypeOK
<1> HIDE DEF new
<1>7. /\ job' \in [Request -> Job \cup {None}]
      /\ \A q \in Request : job'[q] = IF q = r THEN new ELSE job[q]
      /\ new # None
  BY <1>2, <1>5, <1>6, ChatRows DEF ChatTypeOK
<1>8. ChatTypeOK'
  <2>1. request[r].key \in Key \cup {NoKey}
    BY <1>2, <1>4, ChatRows DEF RequestRow
  <2>2. entered' \subseteq Request \X Session \X (Key \cup {NoKey})
    BY <1>1, <1>2, <1>3, <2>1 DEF ChatTypeOK
  <2>3. LoginTypeOK'
    BY <1>1, <1>2 DEF LoginTypeOK
  <2> QED
    BY <1>1, <1>2, <1>7, <2>2, <2>3 DEF ChatTypeOK
<1>9. /\ \A q \in Request : JobFits(q)'
      /\ \A x \in entered : EnteredFits(x)'
      /\ KeysInv'
  <2>1. \A q \in Request : RowTouched(q) /\ JobTouched(q)
    BY <1>1, <1>5, <1>7 DEF RowTouched, JobTouched, Begun
  <2> QED
    BY <1>1, <2>1, TouchedKeeps DEF WebInv
<1>10. ASSUME NEW x \in entered' PROVE EnteredFits(x)'
  <2>1. CASE x \in entered
    BY <1>9, <2>1
  <2>2. CASE x = <<r, SessionOf(r), request[r].key>>
    <3>1. x[1] = r /\ x[2] = SessionOf(r) /\ x[3] = request[r].key
      BY <2>2
    <3>2. request' = request /\ session' = session /\ HasRequest(r)' /\ job'[r] = new
      BY <1>1, <1>4, <1>7 DEF HasRequest
    <3> QED
      BY <1>4, <1>5, <3>1, <3>2 DEF EnteredFits, Begun, HasRequest
  <2> QED
    BY <1>1, <2>1, <2>2
<1>11. \A q \in Request : HolderFits(q)'
  <2>1. active'[u] = w
    BY <1>1, <1>2, <1>3 DEF IdentityTypeOK
  <2> HIDE DEF u, w
  <2> QED
    BY <1>1, <1>3, <1>5, <1>7, <2>1, HolderSet DEF Inside
<1>12. UnfinishedIsWorkedOn'
  BY <1>1, <1>7 DEF WebInv, ChatInv, UnfinishedIsWorkedOn, HasRequest
<1> QED
  BY <1>1, <1>4, <1>8, <1>9, <1>10, <1>11, <1>12 DEF ChatInv

(* Yield saves what the handler had read: its person still has the workshop  *)
(* it shows, so that resolving leaves it.                                    *)
LEMMA YieldKeeps ==
  ASSUME WebInv, NEW r \in Request, Yield(r)
  PROVE  ChatInv'
<1> DEFINE u == UserOf(r)
           w == Resolved(member, active, u)
           kept == [workshop |-> w, role |-> RoleOf(u, w)]
           new == [job[r] EXCEPT !.at = "yielded", !.yields = @ + 1, !.kept = kept]
<1>1. /\ lock = r /\ job[r].at = "working" /\ job[r].yields < MaxYield /\ lock' = None
      /\ job' = [job EXCEPT ![r].at = "yielded", ![r].yields = @ + 1, ![r].kept = kept]
      /\ UNCHANGED <<member, login, session, cookie, request, message, posting, up, entered>>
  BY DEF Yield, loginVars
<1>2. /\ job[r] \in Job /\ job[r] # None /\ u \in User
      /\ job[r].shows \in Workshop /\ active[u] = job[r].shows
      /\ MayIn(u, job[r].shows, "workshop.read")
      /\ RoleOf(u, job[r].shows) = job[r].as
      /\ ChatTypeOK /\ LoginTypeOK /\ IdentityTypeOK
  BY <1>1, HolderInside DEF WebInv, IdentityInv, PeopleInv, ChatInv, ChatTypeOK
<1>3. w = job[r].shows
  <2>1. active[u] \in Available(member, u)
    BY <1>2 DEF Available, MayIn
  <2>2. active[u] # NoWorkshop /\ active \in [User -> Workshop \cup {NoWorkshop}]
    BY <1>2, NowhereAssumption DEF IdentityTypeOK
  <2> QED
    BY <1>2, <2>1, <2>2, ResolvedStays
<1> HIDE DEF w
<1>4. kept.workshop = job[r].shows /\ kept.role = job[r].as
      /\ kept \in [workshop : Workshop, role : MemberRole \cup {"NONE"}]
  <2>1. job[r].as \in MemberRole \cup {"NONE"}
    BY <1>2 DEF Job
  <2> QED
    BY <1>2, <1>3, <2>1
<1> HIDE DEF kept
<1>5. /\ new \in Job /\ new.at = "yielded" /\ new.session = job[r].session
      /\ new.kept.workshop = new.shows /\ new.kept.role = new.as
  <2>1. job[r].yields + 1 \in 0 .. MaxYield
    BY <1>1, <1>2, KeyAssumption DEF Job
  <2> QED
    BY <1>2, <1>4, <2>1 DEF Job
<1>6. job' = [job EXCEPT ![r] = new]
  BY <1>1, <1>2 DEF ChatTypeOK
<1> HIDE DEF new
<1>7. LoginTypeOK' /\ lock' \in Request \cup {None}
  BY <1>1, <1>2 DEF LoginTypeOK
<1>8. /\ request' \in [Request -> RequestRow \cup {None, Deleted}]
      /\ \A q \in Request : RowTouched(q)
      /\ message' \subseteq Message
  BY <1>1, <1>2 DEF ChatTypeOK, RowTouched
<1>9. \A q \in Request : HolderFits(q)'
  BY <1>1, <1>2, ChatRows DEF HolderFits
<1> QED
  BY <1>1, <1>2, <1>5, <1>6, <1>7, <1>8, <1>9, MoveKeeps DEF WebInv, Begun

(* Resume finds it as it was, or the handler ends (EndingKeeps).             *)
LEMMA ResumeKeeps ==
  ASSUME WebInv, NEW r \in Request, Resume(r)
  PROVE  ChatInv'
<1> DEFINE u == UserOf(r)
           w == job[r].kept.workshop
           new == [job[r] EXCEPT !.at = "working"]
<1>1. /\ lock = None /\ job[r] # None /\ job[r].at = "yielded" /\ lock' = r
      /\ MayIn(u, w, "workshop.read") /\ Resolved(member, active, u) = w
      /\ RoleOf(u, w) = job[r].kept.role
      /\ Goes(r, "working") /\ active' = [active EXCEPT ![u] = w]
      /\ UNCHANGED <<member, login, session, cookie, request, message, posting, up, entered>>
  BY DEF Resume, Is, SameContext, Reaches, Home, loginVars
<1>2. /\ ChatTypeOK /\ LoginTypeOK /\ IdentityTypeOK /\ job[r] \in Job
      /\ w = job[r].shows /\ job[r].kept.role = job[r].as
  BY <1>1, ChatRows DEF WebInv, IdentityInv, PeopleInv, ChatInv, ChatTypeOK, JobFits
<1>3. /\ job' = [job EXCEPT ![r] = new] /\ new \in Job /\ new.at = "working"
      /\ new.session = job[r].session /\ new.user = job[r].user
      /\ new.shows = job[r].shows /\ new.as = job[r].as
  BY <1>1, <1>2, GoesShape DEF Place
<1> HIDE DEF new
<1>4. new # None /\ \A q \in Request : job'[q] = IF q = r THEN new ELSE job[q]
  BY <1>2, <1>3, ChatRows DEF ChatTypeOK
<1>5. \A q \in Request : HolderFits(q)'
  <2>1. u \in User /\ u = job[r].user /\ w \in Workshop /\ active'[u] = w
    BY <1>1, <1>2 DEF IdentityTypeOK, Job, UserOf
  <2> HIDE DEF u, w
  <2> QED
    BY <1>1, <1>2, <1>3, <1>4, <2>1, HolderSet DEF Inside
<1>6. /\ request' \in [Request -> RequestRow \cup {None, Deleted}]
      /\ \A q \in Request : RowTouched(q)
      /\ message' \subseteq Message /\ lock' \in Request \cup {None} /\ LoginTypeOK'
  BY <1>1, <1>2 DEF ChatTypeOK, RowTouched, LoginTypeOK
<1> QED
  BY <1>1, <1>2, <1>3, <1>5, <1>6, MoveKeeps DEF WebInv, Begun

(* A confirmation that switches shows the workshop it has switched to.       *)
LEMMA SwitchKeeps ==
  ASSUME WebInv, NEW r \in Request, Switch(r)
  PROVE  ChatInv'
<1> DEFINE u == UserOf(r)
<1>1. PICK w \in Available(member, u) :
        /\ active' = [active EXCEPT ![u] = w]
        /\ job' = [job EXCEPT ![r].shows = w, ![r].as = RoleOf(u, w)]
  BY DEF Switch
<1>2. /\ lock = r /\ job[r].at = "working"
      /\ UNCHANGED <<member, login, session, cookie, request, message, posting, lock, up,
                     entered>>
  BY DEF Switch, loginVars
<1>3. /\ ChatTypeOK /\ LoginTypeOK /\ IdentityTypeOK /\ job[r] \in Job /\ job[r] # None
      /\ u \in User /\ u = job[r].user
  BY <1>2, HolderInside DEF WebInv, IdentityInv, PeopleInv, ChatInv, ChatTypeOK
<1>4. /\ w \in Workshop /\ MayIn(u, w, "workshop.read")
      /\ RoleOf(u, w) \in MemberRole \cup {"NONE"}
  BY <1>1, <1>3, RowFields DEF Available, MayIn, RoleOf
<1> DEFINE new == [job[r] EXCEPT !.shows = w, !.as = RoleOf(u, w)]
<1> HIDE DEF u
<1>5. /\ new \in Job /\ new.at = "working" /\ new.session = job[r].session
      /\ new.user = job[r].user /\ new.shows = w /\ new.as = RoleOf(u, w)
  BY <1>2, <1>3, <1>4 DEF Job
<1>6. job' = [job EXCEPT ![r] = new]
  BY <1>1, <1>3 DEF ChatTypeOK
<1> HIDE DEF new
<1>7. new # None /\ \A q \in Request : job'[q] = IF q = r THEN new ELSE job[q]
  BY <1>3, <1>5, <1>6, ChatRows DEF ChatTypeOK
<1>8. \A q \in Request : HolderFits(q)'
  <2>1. active'[u] = w
    BY <1>1, <1>3 DEF IdentityTypeOK
  <2> QED
    BY <1>2, <1>3, <1>4, <1>5, <1>7, <2>1, HolderSet DEF Inside
<1>9. /\ request' \in [Request -> RequestRow \cup {None, Deleted}]
      /\ \A q \in Request : RowTouched(q)
      /\ message' \subseteq Message /\ lock' \in Request \cup {None} /\ LoginTypeOK'
  BY <1>2, <1>3 DEF ChatTypeOK, RowTouched, LoginTypeOK
<1> QED
  BY <1>2, <1>3, <1>5, <1>6, <1>8, <1>9, MoveKeeps DEF WebInv, Begun

(* A session that was cleaned up does not come back.                         *)
LEMMA DeletedStays ==
  ASSUME LoginInv, LoginStep, NEW s \in Session, session[s] = Deleted
  PROVE  session'[s] = Deleted
<1>1. /\ session \in [Session -> SessionRow \cup {None, Deleted}]
      /\ login \in [Login -> LoginRow \cup {None, Deleted}]
      /\ None # Deleted /\ ~HasSession(s)
  BY RowsAreRows DEF LoginInv, LoginTypeOK, HasSession
<1>2. ASSUME NEW b \in Browser, OpenChat(b) \/ Complete(b) \/ Logout(b)
      PROVE  session'[s] = Deleted
  <2>1. CASE Complete(b)
    <3> DEFINE l == cookie[b].login
    <3>1. HasLogin(l) /\ login[l].status = "confirmed"
          /\ session' \in {session, [session EXCEPT ![login[l].session].token = b]}
      BY <2>1 DEF Complete
    <3>2. l \in Login
      BY <3>1 DEF LoginInv, LoginTypeOK, HasLogin
    <3>3. HasSession(login[l].session)
      BY <3>1, <3>2 DEF LoginInv, LoginFits, Used
    <3> QED
      BY <1>1, <3>1, <3>3
  <2>2. CASE OpenChat(b) \/ Logout(b)
    BY <1>1, <2>2 DEF OpenChat, Logout, Authenticated, Live
  <2> QED
    BY <1>2, <2>1, <2>2
<1>3. ASSUME NEW u \in User, NEW l \in Login, ConfirmWrong(u, l) \/ ConfirmLogin(u, l)
      PROVE  session'[s] = Deleted
  BY <1>1, <1>3 DEF ConfirmWrong, ConfirmLogin
<1>4. ASSUME NEW t \in Session, ExpireSession(t)
      PROVE  session'[s] = Deleted
  BY <1>1, <1>4 DEF ExpireSession
<1>5. ASSUME CleanupLogins \/ CleanupSessions \/ \E l \in Login : ExpireLogin(l)
      PROVE  session'[s] = Deleted
  BY <1>1, <1>5 DEF CleanupLogins, CleanupSessions, ExpireLogin, Stale
<1> QED
  BY <1>2, <1>3, <1>4, <1>5 DEF LoginStep

(* What a deleted session has goes with it, and a handler that still works   *)
(* for it is the one with a job and without a row.                           *)
LEMMA PageKeeps ==
  ASSUME WebInv, Page
  PROVE  LoginInv' /\ ChatInv'
<1>1. /\ LoginStep
      /\ request' = [r \in Request |->
           IF HasRequest(r) /\ session'[request[r].session] = Deleted THEN Deleted
           ELSE request[r]]
      /\ message' = {x \in message : request'[x.request] # Deleted}
      /\ UNCHANGED <<member, active, job, posting, lock, up, entered>>
  BY DEF Page, identityVars
<1>2. LoginInv' /\ LoginTypeOK'
  BY <1>1, LoginStepKeeps DEF WebInv, LoginInv
<1>3. ChatTypeOK
  BY DEF WebInv, ChatInv
<1>4. /\ request' \in [Request -> RequestRow \cup {None, Deleted}]
      /\ \A r \in Request :
           request'[r] = IF HasRequest(r) /\ session'[request[r].session] = Deleted
                         THEN Deleted ELSE request[r]
  BY <1>1, <1>3 DEF ChatTypeOK
<1>5. ChatTypeOK'
  BY <1>1, <1>2, <1>3, <1>4 DEF ChatTypeOK
<1>6. \A r \in Request : HasRequest(r)' =>
         HasRequest(r) /\ request'[r] = request[r] /\ session'[request[r].session] # Deleted
  BY <1>4 DEF HasRequest
<1>7. \A s \in Session : session'[s] # Deleted => session[s] # Deleted
  BY <1>1, DeletedStays DEF WebInv
<1>8. None # Deleted
  BY RowsAreRows
<1>9. ASSUME NEW r \in Request PROVE JobFits(r)'
  <2>1. CASE job[r] # None
    <3>1. JobFits(r) /\ job[r].session \in Session /\ job'[r] = job[r]
      BY <1>1, <1>3, <2>1, ChatRows DEF WebInv, ChatInv, Job
    <3>2. request[r] # None
      BY <2>1, <3>1 DEF JobFits
    <3>3. request'[r] # None
      BY <1>4, <1>8, <3>2
    <3>4. session'[job[r].session] # Deleted =>
            HasRequest(r)' /\ request'[r].session = job[r].session
      BY <1>4, <1>7, <2>1, <3>1 DEF JobFits, HasRequest
    <3> QED
      BY <2>1, <3>1, <3>3, <3>4 DEF JobFits
  <2>2. CASE job[r] = None
    BY <1>1, <2>2 DEF JobFits
  <2> QED
    BY <2>1, <2>2
<1>10. ASSUME NEW x \in entered' PROVE EnteredFits(x)'
  <2>1. x[1] \in Request /\ x[2] \in Session /\ EnteredFits(x) /\ job'[x[1]] = job[x[1]]
    BY <1>1, <1>3 DEF ChatTypeOK, WebInv, ChatInv
  <2>2. request'[x[1]] # None
    BY <1>4, <1>8, <2>1 DEF EnteredFits
  <2>3. HasRequest(x[1])' => request'[x[1]].session = x[2] /\ request'[x[1]].key = x[3]
    BY <1>6, <2>1 DEF EnteredFits
  <2>4. request'[x[1]] = Deleted => session'[x[2]] = Deleted
    <3>1. CASE request[x[1]] = Deleted
      BY <1>7, <2>1, <3>1 DEF EnteredFits
    <3>2. CASE request[x[1]] # Deleted
      BY <1>4, <2>1, <3>2 DEF EnteredFits
    <3> QED
      BY <3>1, <3>2
  <2>5. job'[x[1]] # None => job'[x[1]].at \in Begun
    BY <2>1 DEF EnteredFits
  <2> QED
    BY <2>2, <2>3, <2>4, <2>5 DEF EnteredFits
<1>11. KeysInv'
  BY <1>6 DEF WebInv, ChatInv, KeysInv
<1>12. \A r \in Request : HolderFits(r)'
  <2>1. \A r \in Request : lock = r => job[r] # None /\ job[r].at \in Inside
    BY DEF WebInv, ChatInv, HolderFits
  <2> QED
    BY <1>1, <2>1, HolderKeeps DEF WebInv
<1>13. UnfinishedIsWorkedOn'
  BY <1>1, <1>6 DEF WebInv, ChatInv, UnfinishedIsWorkedOn
<1> QED
  BY <1>2, <1>5, <1>9, <1>10, <1>11, <1>12, <1>13 DEF ChatInv

(* A crash takes the jobs, and the next start ends what they were about.     *)
LEMMA CrashKeeps ==
  ASSUME WebInv, Crash \/ Restart
  PROVE  ChatInv'
<1>1. ChatTypeOK /\ UNCHANGED <<member, active, login, session, cookie, message, entered>>
  BY DEF Crash, Restart, WebInv, ChatInv, identityVars, loginVars
<1>2. LoginTypeOK' /\ message' \subseteq Message
  BY <1>1 DEF ChatTypeOK, LoginTypeOK
<1>3. CASE Crash
  <2>1. /\ job' = [r \in Request |-> None] /\ posting' = [s \in Session |-> None]
        /\ lock' = None /\ up' = FALSE /\ request' = request
    BY <1>3 DEF Crash
  <2>2. ChatTypeOK'
    BY <1>1, <1>2, <2>1 DEF ChatTypeOK
  <2>3. \A r \in Request : RowTouched(r) /\ JobTouched(r)
    BY <2>1 DEF RowTouched, JobTouched
  <2>4. (\A r \in Request : HolderFits(r)') /\ UnfinishedIsWorkedOn'
    BY <1>1, <2>1, ChatRows DEF HolderFits, UnfinishedIsWorkedOn
  <2> QED
    BY <1>1, <2>2, <2>3, <2>4, TouchedKeeps DEF WebInv, ChatInv
<1>4. CASE Restart
  <2> DEFINE row(r) == [request[r] EXCEPT !.status = "CANCELLED"]
             left(r) == HasRequest(r) /\ request[r].status \in Unfinished
  <2>1. /\ up' = TRUE /\ UNCHANGED <<job, posting, lock>>
        /\ request' = [r \in Request |-> IF left(r) THEN row(r) ELSE request[r]]
    BY <1>4 DEF Restart
  <2>2. ASSUME NEW r \in Request, left(r)
        PROVE  /\ row(r) \in RequestRow /\ row(r).session = request[r].session
               /\ row(r).key = request[r].key /\ row(r).status = "CANCELLED"
    BY <1>1, <2>2, ChatRows DEF RequestRow, Status
  <2> HIDE DEF row
  <2>3. /\ request' \in [Request -> RequestRow \cup {None, Deleted}]
        /\ \A r \in Request : request'[r] = IF left(r) THEN row(r) ELSE request[r]
    BY <1>1, <2>1, <2>2 DEF ChatTypeOK
  <2>4. ChatTypeOK'
    BY <1>1, <1>2, <2>1, <2>3 DEF ChatTypeOK
  <2>5. \A r \in Request : RowTouched(r) /\ JobTouched(r)
    BY <2>1, <2>2, <2>3 DEF RowTouched, JobTouched
  <2>6. \A r \in Request : HolderFits(r)'
    <3>1. \A r \in Request : lock = r => job[r] # None /\ job[r].at \in Inside
      BY DEF WebInv, ChatInv, HolderFits
    <3> QED
      BY <1>1, <2>1, <3>1, HolderKeeps DEF WebInv
  <2>7. \A r \in Request : HasRequest(r)' => request'[r].status \notin Unfinished
    BY <2>2, <2>3 DEF HasRequest, Unfinished
  <2>8. UnfinishedIsWorkedOn'
    BY <2>7 DEF UnfinishedIsWorkedOn
  <2> QED
    BY <1>1, <2>4, <2>5, <2>6, <2>8, TouchedKeeps DEF WebInv, ChatInv
<1> QED
  BY <1>3, <1>4

(* What people do elsewhere waits until no handler holds the lock.           *)
LEMMA ElsewhereKeeps ==
  ASSUME WebInv, Elsewhere
  PROVE  ChatInv' /\ Kept /\ AskedInv'
<1>1. /\ lock = None
      /\ UNCHANGED <<loginVars, request, message, job, posting, lock, up, entered>>
  BY DEF Elsewhere, chatVars
<1>2. posting' \in [Session -> Key \cup {NoKey, None}]
  BY <1>1 DEF WebInv, ChatInv, ChatTypeOK
<1>3. ChatInv'
  BY <1>1, <1>2, StillKeeps DEF WebInv
<1>4. /\ PeopleInv /\ AskedInv /\ IdentityTypeOK
      /\ asked \in [User -> Button \cup {Nothing}]
      /\ active \in [User -> Workshop \cup {NoWorkshop}]
  BY DEF WebInv, IdentityInv, PeopleInv, IdentityTypeOK
<1>5. ASSUME NEW u \in User, NEW b \in Offered(u), Operation(u, b), asked' = asked
      PROVE  Kept
  BY <1>4, <1>5, OfferedFits, OperationKept
<1>6. ASSUME NEW u \in User, ActiveWorkshop(u)
      PROVE  Kept /\ asked' = asked
  <2>1. active' \in [User -> Workshop \cup {NoWorkshop}]
    BY <1>4, <1>6, ResolvedType DEF ActiveWorkshop
  <2> QED
    BY <1>4, <1>6, <2>1, SelectionKept DEF ActiveWorkshop
<1>7. Kept /\ asked' = asked
  BY <1>5, <1>6 DEF Elsewhere
<1> QED
  BY <1>3, <1>4, <1>7, AskedKept

-----------------------------------------------------------------------------
(* All steps of the web chat together.                                       *)

(* Apart from what people do elsewhere, a step writes selections at most.    *)
LEMMA SelectsAtMost ==
  ASSUME WebInv, WebNext, ~Elsewhere
  PROVE  /\ UNCHANGED <<member, invite, joined, asked>>
         /\ active' \in [User -> Workshop \cup {NoWorkshop}]
<1> DEFINE Goal == /\ UNCHANGED <<member, invite, joined, asked>>
                   /\ active' \in [User -> Workshop \cup {NoWorkshop}]
<1>1. active \in [User -> Workshop \cup {NoWorkshop}] /\ ChatTypeOK
  BY DEF WebInv, IdentityInv, PeopleInv, IdentityTypeOK, ChatInv
<1>2. ASSUME UNCHANGED identityVars PROVE Goal
  BY <1>1, <1>2 DEF identityVars
<1>3. ASSUME \/ \E b \in Browser, k \in Key \cup {NoKey} : BeginPost(b, k)
             \/ \E s \in Session : Answered(s) \/ Store(s)
             \/ Page \/ Crash \/ Restart
      PROVE  Goal
  BY <1>2, <1>3 DEF BeginPost, Answered, Store, Page, Crash, Restart
<1>4. ASSUME NEW r \in Request,
             Accept(r) \/ Refuse(r) \/ Start(r) \/ Insert(r) \/ Deliver(r) \/ CancelRequest(r)
      PROVE  Goal
  BY <1>2, <1>4 DEF Accept, Refuse, Start, Insert, Deliver, CancelRequest
<1>5. ASSUME NEW r \in Request, Abandon(r) \/ TurnedAway(r) \/ ResumeDenied(r) \/ Return(r)
      PROVE  Goal
  <2>1. job[r] # None
    BY <1>1, <1>5, HolderInside DEF Abandon, TurnedAway, ResumeDenied, Return, Is, WebInv
  <2>2. UserOf(r) \in User
    BY <1>1, <2>1, ChatRows DEF UserOf, Job
  <2>3. /\ UNCHANGED <<member, invite, joined, asked>>
        /\ active' = active \/ Home(member, active, UserOf(r))
    BY <1>5 DEF Abandon, TurnedAway, ResumeDenied, Return, Ends
  <2> QED
    BY <1>1, <2>2, <2>3, SelectionTypes
<1>6. ASSUME NEW r \in Request, Enter(r) \/ Resume(r) \/ Yield(r) \/ Switch(r)
      PROVE  Goal
  <2>1. job[r] # None
    BY <1>1, <1>6, HolderInside DEF Enter, Resume, Yield, Switch, Is, WebInv
  <2>2. UserOf(r) \in User /\ job[r].workshop \in Workshop
    BY <1>1, <2>1, ChatRows DEF UserOf, Job
  <2>3. /\ UNCHANGED <<member, invite, joined, asked>>
        /\ \E w \in Workshop \cup {NoWorkshop} : active' = [active EXCEPT ![UserOf(r)] = w]
    <3>1. Resolved(member, active, UserOf(r)) \in Workshop \cup {NoWorkshop}
      BY <1>1, <2>2, ResolvedType
    <3> QED
      BY <1>6, <2>2, <3>1 DEF Enter, Resume, Yield, Switch, Home, Available
  <2> QED
    BY <1>1, <2>3
<1> QED
  BY <1>3, <1>4, <1>5, <1>6 DEF WebNext, Handler

(* Only Enter adds to what began, and never under a key that has begun: the  *)
(* session is live, so the rows of all that began in it are there.           *)
LEMMA BeginsOnce ==
  ASSUME WebInv, WebNext
  PROVE  KeyRunsOnce'
<1>1. ASSUME entered' = entered PROVE KeyRunsOnce'
  BY <1>1 DEF WebInv, KeyRunsOnce
<1>2. ASSUME NEW r \in Request, Enter(r) PROVE KeyRunsOnce'
  <2> DEFINE s == SessionOf(r)
             k == request[r].key
  <2>1. /\ HasRequest(r) /\ request[r].session = s /\ session[s] # Deleted
        /\ entered' = entered \cup {<<r, s, k>>}
    BY <1>2, EnterKeeps
  <2>2. ASSUME NEW x \in entered, x[2] = s, x[3] = k, k # NoKey
        PROVE  x = <<r, s, k>>
    <3>1. x[1] \in Request /\ x = <<x[1], x[2], x[3]>>
      BY DEF WebInv, ChatInv, ChatTypeOK
    <3>2. EnteredFits(x)
      BY DEF WebInv, ChatInv
    <3>3. HasRequest(x[1]) /\ request[x[1]].session = s /\ request[x[1]].key = k
      BY <2>1, <2>2, <3>2 DEF EnteredFits, HasRequest
    <3>4. x[1] = r
      BY <2>1, <2>2, <3>1, <3>3 DEF WebInv, ChatInv, KeysInv
    <3> QED
      BY <2>2, <3>1, <3>4
  <2> DEFINE y == <<r, s, k>>
  <2>3. y[2] = s /\ y[3] = k
    OBVIOUS
  <2>4. ASSUME NEW a \in entered', NEW b \in entered', a[2] = b[2], a[3] = b[3], a[3] # NoKey
        PROVE  a = b
    <3>1. a \in entered \/ a = y
      BY <2>1
    <3>2. b \in entered \/ b = y
      BY <2>1
    <3> HIDE DEF y, s, k
    <3>3. \A x \in entered : x[2] = s /\ x[3] = k /\ k # NoKey => x = y
      BY <2>2 DEF y
    <3> QED
      BY <2>3, <2>4, <3>1, <3>2, <3>3 DEF WebInv, KeyRunsOnce
  <2> QED
    BY <2>4 DEF KeyRunsOnce
<1>3. ASSUME NEW r \in Request,
             \/ Handler(r) /\ ~Enter(r)
             \/ Yield(r) \/ Switch(r) \/ Deliver(r) \/ CancelRequest(r)
      PROVE  entered' = entered
  BY <1>3 DEF Handler, Accept, Refuse, Start, Abandon, TurnedAway, Resume, ResumeDenied,
              Insert, Return, Ends, Yield, Switch, Deliver, CancelRequest
<1>4. ASSUME \/ \E b \in Browser, k \in Key \cup {NoKey} : BeginPost(b, k)
             \/ \E s \in Session : Answered(s) \/ Store(s)
             \/ Elsewhere \/ Page \/ Crash \/ Restart
      PROVE  entered' = entered
  BY <1>4 DEF BeginPost, Answered, Store, Elsewhere, chatVars, Page, Crash, Restart
<1> QED
  BY <1>1, <1>2, <1>3, <1>4 DEF WebNext

(* Every step keeps the chat and the login.                                  *)
LEMMA ChatStepKeeps ==
  ASSUME WebInv, WebNext
  PROVE  LoginInv' /\ ChatInv'
<1>1. WebInv /\ ChatInv /\ LoginInv
  BY DEF WebInv
<1>2. CASE Page
  BY <1>2, PageKeeps
<1>3. CASE ~Page
  <2>1. UNCHANGED <<login, session, cookie>>
    <3>1. ASSUME NEW r \in Request, Handler(r)
          PROVE  UNCHANGED loginVars
      BY <3>1 DEF Handler, Accept, Refuse, Start, Abandon, Enter, TurnedAway, Resume,
                  ResumeDenied, Insert, Return, Ends
    <3>2. ASSUME NEW r \in Request, Yield(r) \/ Switch(r) \/ Deliver(r) \/ CancelRequest(r)
          PROVE  UNCHANGED loginVars
      BY <3>2 DEF Yield, Switch, Deliver, CancelRequest
    <3>3. ASSUME \/ \E b \in Browser, k \in Key \cup {NoKey} : BeginPost(b, k)
                 \/ \E s \in Session : Answered(s) \/ Store(s)
                 \/ Elsewhere \/ Crash \/ Restart
          PROVE  UNCHANGED loginVars
      BY <3>3 DEF BeginPost, Answered, Store, Elsewhere, Crash, Restart
    <3>4. UNCHANGED loginVars
      BY <1>3, <3>1, <3>2, <3>3 DEF WebNext
    <3> QED
      BY <3>4 DEF loginVars
  <2>2. LoginInv'
    BY <1>1, <2>1 DEF LoginInv, LoginTypeOK, SessionFits, LoginFits, CookieFits, OpenedOnce,
                      HasLogin, HasSession
  <2>3. ASSUME NEW r \in Request, Handler(r)
        PROVE  ChatInv'
    BY <1>1, <2>3, RefuseKeeps, AdvanceKeeps, EndingKeeps, EnterKeeps, ResumeKeeps DEF Handler
  <2>4. ASSUME NEW r \in Request, Yield(r) \/ Switch(r) \/ Deliver(r) \/ CancelRequest(r)
        PROVE  ChatInv'
    BY <1>1, <2>4, YieldKeeps, SwitchKeeps, AdvanceKeeps, CancelKeeps
  <2>5. ASSUME \/ \E b \in Browser, k \in Key \cup {NoKey} : BeginPost(b, k)
               \/ \E s \in Session : Answered(s) \/ Store(s)
               \/ Elsewhere \/ Crash \/ Restart
        PROVE  ChatInv'
    BY <1>1, <2>5, PostKeeps, StoreKeeps, ElsewhereKeeps, CrashKeeps
  <2> QED
    BY <1>3, <2>2, <2>3, <2>4, <2>5 DEF WebNext
<1> QED
  BY <1>2, <1>3

(* So every step keeps the invariant and is allowed by Members.              *)
LEMMA WebStepKeeps ==
  ASSUME WebInv, [WebNext]_webVars
  PROVE  WebInv' /\ \A x \in Workshop : AllowedChange(x)
<1>1. WebInv /\ PeopleInv /\ AskedInv /\ asked \in [User -> Button \cup {Nothing}]
      /\ active \in [User -> Workshop \cup {NoWorkshop}]
  BY DEF WebInv, IdentityInv, PeopleInv, IdentityTypeOK
<1>2. ASSUME UNCHANGED <<member, invite, joined, asked>>,
             active' \in [User -> Workshop \cup {NoWorkshop}]
      PROVE  Kept /\ AskedInv'
  BY <1>1, <1>2, SelectionKept, AskedKept
<1>3. CASE WebNext
  <2>1. Kept /\ AskedInv'
    <3>1. CASE Elsewhere
      BY <3>1, ElsewhereKeeps
    <3>2. CASE ~Elsewhere
      BY <1>2, <1>3, <3>2, SelectsAtMost
    <3> QED
      BY <3>1, <3>2
  <2> QED
    BY <1>3, <2>1, ChatStepKeeps, BeginsOnce DEF WebInv, IdentityInv, Kept
<1>4. CASE UNCHANGED webVars
  <2>1. UNCHANGED <<identityVars, loginVars, chatVars>>
    BY <1>4 DEF webVars
  <2>2. UNCHANGED <<member, active, invite, joined, asked, login, session, cookie, request,
                    message, job, posting, lock, up, entered>>
    BY <2>1 DEF identityVars, loginVars, chatVars
  <2>3. Kept /\ AskedInv'
    BY <1>1, <1>2, <2>2
  <2>4. LoginInv'
    BY <2>2 DEF WebInv, LoginInv, LoginTypeOK, SessionFits, LoginFits, CookieFits, OpenedOnce,
                HasLogin, HasSession
  <2>5. ChatInv'
    <3>1. posting' \in [Session -> Key \cup {NoKey, None}]
      BY <2>2 DEF WebInv, ChatInv, ChatTypeOK
    <3> QED
      BY <2>1, <2>2, <3>1, StillKeeps DEF WebInv
  <2>6. KeyRunsOnce'
    BY <2>2 DEF WebInv, KeyRunsOnce
  <2> QED
    BY <2>3, <2>4, <2>5, <2>6 DEF WebInv, IdentityInv, Kept
<1> QED
  BY <1>3, <1>4

(* At first nothing is stored.                                               *)
LEMMA WebStart ==
  ASSUME IdentityInit, LoginInit, ChatInit
  PROVE  WebInv
<1>1. IdentityInv
  BY IdentityStart
<1>2. /\ \A l \in Login : ~HasLogin(l)
      /\ \A s \in Session : ~HasSession(s)
      /\ \A r \in Request : ~HasRequest(r)
  BY DEF LoginInit, ChatInit, HasLogin, HasSession, HasRequest
<1>3. LoginTypeOK
  BY DEF LoginInit, LoginTypeOK
<1>4. LoginInv
  BY <1>2, <1>3 DEF LoginInv, LoginInit, SessionFits, LoginFits, CookieFits, OpenedOnce
<1>5. ChatTypeOK
  BY <1>3 DEF ChatInit, ChatTypeOK
<1>6. ChatInv
  BY <1>2, <1>5, ChatRows
     DEF ChatInv, ChatInit, JobFits, EnteredFits, KeysInv, HolderFits, UnfinishedIsWorkedOn
<1>7. KeyRunsOnce
  BY DEF ChatInit, KeyRunsOnce
<1> QED
  BY <1>1, <1>4, <1>6, <1>7 DEF WebInv

(* The inductive invariant of the web chat, with the people, the codes and   *)
(* the sessions it rests on.                                                 *)
THEOREM WebInvariance == WebSpec => []WebInv
<1>1. WebInv /\ [WebNext]_webVars => WebInv'
  BY WebStepKeeps
<1>2. IdentityInit /\ LoginInit /\ ChatInit => WebInv
  BY WebStart
<1> QED
  BY <1>1, <1>2, PTL DEF WebSpec

(* A code lets in once and only the browser that was shown it, in any order  *)
(* of pages, guesses, confirmations, polls, logouts, expiries and cleanups   *)
(* (Confirm, Complete, Cleanup).                                             *)
THEOREM CodesOpenOnce == WebSpec => []CodeOpensOnce
<1>1. WebInv => CodeOpensOnce
  BY LoginInvIsEnough DEF WebInv
<1> QED
  BY <1>1, WebInvariance, PTL

(* However often a POST is repeated, the handler begins once for one key of  *)
(* a session: a refusal frees the key before anything began, and a cleanup   *)
(* takes the key and the session together (Submit, action).                  *)
THEOREM KeysRunOnce == WebSpec => []KeyRunsOnce
<1>1. WebInv => KeyRunsOnce
  BY DEF WebInv
<1> QED
  BY <1>1, WebInvariance, PTL

(* The rows of the chat have their types, and a row that is unfinished while *)
(* the process runs has somebody who works on it, across refusals,           *)
(* cancellations, a crash and a restart (RecoverInterrupted).                *)
THEOREM RequestsCorrect == WebSpec => []RequestsAgree
<1>1. WebInv => RequestsAgree
  BY DEF WebInv, ChatInv, RequestsAgree
<1> QED
  BY <1>1, WebInvariance, PTL

(* Whoever holds the lock works for a person who has that workshop selected, *)
(* may read it and has the role that was read, whatever was pressed while    *)
(* the lock was given away (Yield, resume).                                  *)
THEOREM ContextsKept == WebSpec => []ContextKept
<1>1. WebInv => ContextKept
  BY DEF WebInv, ChatInv, HolderFits, ContextKept
<1> QED
  BY <1>1, WebInvariance, PTL

(* The books of the invitations hold under the web chat too.                 *)
THEOREM InvitesCorrect == WebSpec => []InvitesAgree
<1>1. WebInv => InvitesAgree
  BY LedgerOfBooks DEF WebInv, IdentityInv
<1> QED
  BY <1>1, WebInvariance, PTL

(* And no handler changes a workshop's members but as Members allows.        *)
THEOREM MembersKept == WebSpec => MembersView
<1> DEFINE A == \A w \in Workshop : AllowedChange(w)
<1>1. WebInv /\ [WebNext]_webVars => A
  BY WebStepKeeps
<1>2. A => [A]_identityVars
  OBVIOUS
<1>3. MembersView <=> [][A]_identityVars
  BY DEF MembersView
<1> HIDE DEF A
<1> QED
  BY <1>1, <1>2, <1>3, WebInvariance, PTL DEF WebSpec
=============================================================================
