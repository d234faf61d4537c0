--------------------------- MODULE Dialogs_proofs ---------------------------
(***************************************************************************)
(* The dialogues of a person with the bot, for any people, handed-out      *)
(* roles, materials, values, chats and limits.                             *)
(***************************************************************************)
EXTENDS Dialogs, Collections

-----------------------------------------------------------------------------
(* The steps of the membership keep its types.                               *)
LEMMA MemberStepsTyped ==
  ASSUME MembersTypeOK,
         \/ MemberStep \/ SelectHere(Me) \/ SelectElsewhere(Me) \/ LoseContext(Me)
         \/ ActiveWorkshop
         \/ UNCHANGED memberVars
  PROVE  MembersTypeOK'
<1>1. GivenRole \subseteq MemberRole /\ {"OWNER", "ADMIN"} \subseteq MemberRole
  BY GivenRoleAssumption DEF MemberRole, Assignable
<1>2. CASE MemberStep
  <2>1. PICK actor \in User, u \in User :
          \/ \E r \in GivenRole : ChangeRole(actor, u, r) \/ Activate(actor, u, r)
          \/ Deactivate(actor, u)
          \/ TransferOwnership(actor, u)
    BY <1>2 DEF MemberStep
  <2>2. here' = here /\ role' \in [User -> MemberRole \cup {"NONE"}]
    BY <1>1, <2>1
    DEF MembersTypeOK, ChangeRole, Activate, Deactivate, TransferOwnership
  <2> QED
    BY <2>2 DEF MembersTypeOK
<1>3. CASE SelectHere(Me) \/ SelectElsewhere(Me) \/ LoseContext(Me)
  BY <1>3 DEF MembersTypeOK, SelectHere, SelectElsewhere, LoseContext
<1>4. CASE ActiveWorkshop
  <2>1. Authorized(Me) \in BOOLEAN
    BY DEF Authorized, Can
  <2> QED
    BY <1>4, <2>1 DEF MembersTypeOK, ActiveWorkshop
<1>5. CASE UNCHANGED memberVars
  BY <1>5 DEF MembersTypeOK, memberVars
<1> QED
  BY <1>2, <1>3, <1>4, <1>5

(* And the first members have them.                                          *)
LEMMA FirstMembersTyped ==
  ASSUME NEW owner, MembersInit(owner)
  PROVE  MembersTypeOK
BY GivenRoleAssumption DEF MembersInit, MembersTypeOK, MemberRole, Assignable

(* Whoever may do anything here has a role.                                  *)
LEMMA AuthorizedHasRole ==
  ASSUME MembersTypeOK, Me \in User, Authorized(Me)
  PROVE  role[Me] \in MemberRole
<1>1. role[Me] \in MemberRole \cup {"NONE"}
  BY DEF MembersTypeOK
<1>2. role[Me] # "NONE"
  BY DEF Authorized, Can, Permissions
<1> QED
  BY <1>1, <1>2

(* The conversation and the memory have the same members.                    *)
LEMMA SameRights ==
  \A u, p : C!Can(u, p) = Can(u, p) /\ M!Can(u, p) = Can(u, p)
<1>1. ReadSet = C!ReadSet /\ ReadSet = M!ReadSet
  BY DEF ReadSet, C!ReadSet, M!ReadSet
<1>2. ExecuteSet = C!ExecuteSet /\ ExecuteSet = M!ExecuteSet
  BY DEF ExecuteSet, C!ExecuteSet, M!ExecuteSet
<1>3. ManageSet = C!ManageSet /\ ManageSet = M!ManageSet
  BY DEF ManageSet, C!ManageSet, M!ManageSet
<1>4. ASSUME NEW r PROVE C!Permissions(r) = Permissions(r) /\ M!Permissions(r) = Permissions(r)
  BY <1>1, <1>2, <1>3 DEF Permissions, C!Permissions, M!Permissions
<1> QED
  BY <1>4 DEF Can, C!Can, M!Can

(* They have the same types, roles and authorized members.                   *)
LEMMA SameMembers ==
  /\ C!MembersTypeOK = MembersTypeOK /\ M!MembersTypeOK = MembersTypeOK
  /\ C!Authorized(Me) = Authorized(Me) /\ M!Authorized(Me) = Authorized(Me)
  /\ C!MemberRole = MemberRole
<1>1. C!MemberRole = MemberRole /\ M!MemberRole = MemberRole
  BY DEF MemberRole, C!MemberRole, M!MemberRole, Assignable, C!Assignable, M!Assignable
<1> QED
  BY <1>1, SameRights
  DEF MembersTypeOK, C!MembersTypeOK, M!MembersTypeOK, Authorized, C!Authorized, M!Authorized

(* And the same steps of the membership.                                     *)
LEMMA SameMemberSteps ==
  /\ C!MemberStep = MemberStep /\ M!MemberStep = MemberStep
  /\ \A u : /\ C!SelectHere(u) = SelectHere(u) /\ M!SelectHere(u) = SelectHere(u)
            /\ C!SelectElsewhere(u) = SelectElsewhere(u)
            /\ M!SelectElsewhere(u) = SelectElsewhere(u)
            /\ C!LoseContext(u) = LoseContext(u) /\ M!LoseContext(u) = LoseContext(u)
            /\ C!MembersInit(u) = MembersInit(u) /\ M!MembersInit(u) = MembersInit(u)
<1>1. \A u, p : C!Can(u, p) = Can(u, p) /\ M!Can(u, p) = Can(u, p)
  BY SameRights
<1>2. C!MemberStep = MemberStep
  BY <1>1 DEF MemberStep, C!MemberStep, ChangeRole, C!ChangeRole, Activate, C!Activate,
     Deactivate, C!Deactivate, TransferOwnership, C!TransferOwnership
<1>3. M!MemberStep = MemberStep
  BY <1>1 DEF MemberStep, M!MemberStep, ChangeRole, M!ChangeRole, Activate, M!Activate,
     Deactivate, M!Deactivate, TransferOwnership, M!TransferOwnership
<1> QED
  BY <1>1, <1>2, <1>3
  DEF SelectHere, SelectElsewhere, LoseContext, MembersInit,
      C!SelectHere, C!SelectElsewhere, C!LoseContext, C!MembersInit,
      M!SelectHere, M!SelectElsewhere, M!LoseContext, M!MembersInit

-----------------------------------------------------------------------------
(* Conversation.                                                             *)

\* The request that waits runs in the session and the role it was written in, no
\* payload waits beside it, and only the cloud is asked for a mere answer.
CallFits ==
  call # None =>
    /\ call.at # "cloud" => call.kind = "command"
    /\ open /\ session = call.written.session
    /\ call.role = call.written.role
    /\ pending = None

\* A payload waits for the role it was written in.
PendingFits == pending # None => pending.role = pending.written.role

\* The one button that changes a stock is that of the last proposal.
ButtonFits == confirms \subseteq {shown}

TalkInv ==
  /\ C!ConversationTypeOK
  /\ open => session # 0
  /\ CallFits /\ PendingFits /\ ButtonFits
  /\ C!ReferencesHold

(* What "it" and "the first" may mean.                                       *)
LEMMA ReferredIsMaterial ==
  ASSUME C!ConversationTypeOK
  PROVE  C!Referred \subseteq Material
<1>1. list # None => list \in C!List
  BY DEF C!ConversationTypeOK
<1>2. C!CurrentList # None => C!CurrentList \in C!List
  BY <1>1 DEF C!CurrentList
<1>3. ASSUME NEW r \in C!Reference PROVE C!Resolve(r) \in Material \cup {None}
  BY <1>2 DEF C!Resolve, C!Reference, C!List
<1> QED
  BY <1>3 DEF C!Referred

(* What a chat remembers of a list or of one material.                       *)
LEMMA ListsTyped ==
  ASSUME C!ConversationTypeOK, C!ConversationConstants, NEW m \in Material,
         C!Ensured <= MaxTalks, open => session # 0
  PROVE  /\ C!Ensured \in C!Session
         /\ C!Selected(m) \in C!List /\ C!Listed(m) \in C!List
<1>1. C!Ensured \in C!Session
  BY DEF C!ConversationTypeOK, C!ConversationConstants, C!Ensured, C!Session
<1>2. list # None => list \in C!List
  BY DEF C!ConversationTypeOK
<1>3. C!CurrentList # None => C!CurrentList \in C!List
  BY <1>2 DEF C!CurrentList
<1> QED
  BY <1>1, <1>3 DEF C!Selected, C!Listed, C!List

(* What is executed for an understood command.                               *)
LEMMA ExecuteKeeps ==
  ASSUME TalkInv, C!ConversationConstants, open, C!Execute
  PROVE  /\ list' \in C!List \cup {None}
         /\ confirms' \subseteq C!Proposal /\ shown' \in C!Proposal \cup {None}
         /\ confirms' \subseteq {shown'}
         /\ changed' = changed
<1>1. /\ list \in C!List \cup {None} /\ confirms \subseteq C!Proposal
      /\ shown \in C!Proposal \cup {None} /\ confirms \subseteq {shown}
      /\ unit \in [Material -> C!Unit] /\ session \in C!Session /\ C!Ensured <= MaxTalks
  BY DEF TalkInv, C!ConversationTypeOK, ButtonFits, C!ConversationConstants, C!Ensured,
     C!Session
<1>2. \A m \in Material : C!Selected(m) \in C!List /\ C!Listed(m) \in C!List
  BY <1>1, ListsTyped DEF TalkInv
<1>3. C!Referred \subseteq Material
  BY ReferredIsMaterial DEF TalkInv
<1>4. CASE UNCHANGED <<list, confirms, shown, changed>>
  BY <1>1, <1>4
<1>5. CASE C!ProposeChange
  <2>1. changed' = changed
    BY <1>5 DEF C!ProposeChange
  <2>2. CASE C!InvalidateSemantic /\ UNCHANGED <<list, shown>>
    BY <1>1, <2>1, <2>2 DEF C!InvalidateSemantic
  <2>3. ASSUME NEW m \in C!Referred, list' = C!Selected(m),
               \/ C!InvalidateSemantic /\ UNCHANGED shown
               \/ LET p == [material |-> m, session |-> session, unit |-> unit[m]]
                  IN confirms' = {p} /\ shown' = p
        PROVE  /\ list' \in C!List /\ confirms' \subseteq C!Proposal
               /\ shown' \in C!Proposal \cup {None} /\ confirms' \subseteq {shown'}
    <3>1. m \in Material /\ list' \in C!List
      BY <1>2, <1>3, <2>3
    <3>2. [material |-> m, session |-> session, unit |-> unit[m]] \in C!Proposal
      BY <1>1, <3>1 DEF C!Proposal
    <3> QED
      BY <1>1, <2>3, <3>1, <3>2 DEF C!InvalidateSemantic
  <2> QED
    BY <1>5, <2>1, <2>2, <2>3 DEF C!ProposeChange
<1>6. CASE /\ \/ \E m \in Material : list' = C!Listed(m)
              \/ \E m \in C!Referred : list' = C!Selected(m)
           /\ UNCHANGED <<confirms, shown, changed>>
  BY <1>1, <1>2, <1>3, <1>6
<1> QED
  BY <1>4, <1>5, <1>6 DEF C!Execute

(* A text takes the payload away; a free one waits to be routed.             *)
LEMMA TextsKeep ==
  ASSUME TalkInv, C!ConversationConstants, C!Write \/ C!Command \/ C!NewSession
  PROVE  TalkInv'
<1>1. /\ call = None /\ pending' = None /\ UNCHANGED <<memberVars, mode, unit>>
      /\ confirms' \subseteq confirms /\ shown' = shown /\ changed' = changed
      /\ open' = TRUE /\ session' \in C!Session /\ role[Me] \in MemberRole
      /\ list' \in C!List \cup {None}
  <2>1. /\ C!Text
        /\ confirms' \subseteq confirms /\ shown' = shown /\ changed' = changed
    BY DEF C!Write, C!Command, C!NewSession, C!InvalidateSemantic
  <2>2. call = None /\ pending' = None /\ UNCHANGED <<memberVars, mode, unit>>
    BY <2>1 DEF C!Text, memberVars, C!memberVars
  <2>3. role[Me] \in MemberRole
    BY <2>1, SameMembers, AuthorizedHasRole
    DEF C!Text, C!ConversationConstants, TalkInv, C!ConversationTypeOK
  <2>4. open' = TRUE /\ session' \in C!Session /\ list' \in C!List \cup {None}
    <3>1. list \in C!List \cup {None}
      BY DEF TalkInv, C!ConversationTypeOK
    <3>2. CASE C!EnsureSession
      <4>1. \A m \in Material : /\ C!Ensured \in C!Session
                                /\ C!Selected(m) \in C!List /\ C!Listed(m) \in C!List
        BY <3>2, ListsTyped DEF TalkInv, C!EnsureSession
      <4>2. C!Ensured \in C!Session
        BY <3>2 DEF TalkInv, C!EnsureSession, C!ConversationTypeOK, C!Ensured, C!Session,
           C!ConversationConstants
      <4>3. list' \in C!List \cup {None}
        <5>1. CASE C!Write
          BY <3>1, <5>1 DEF C!Write
        <5>2. CASE C!Command
          BY <3>1, <4>1, <5>2 DEF C!Command
        <5>3. CASE C!NewSession
          BY <3>1, <5>3 DEF C!NewSession
        <5> QED
          BY <5>1, <5>2, <5>3
      <4> QED
        BY <3>2, <4>2, <4>3 DEF C!EnsureSession
    <3>3. CASE C!NewSession
      BY <3>3 DEF C!NewSession, TalkInv, C!ConversationTypeOK, C!Session,
         C!ConversationConstants
    <3> QED
      BY <3>2, <3>3 DEF C!Write, C!Command
  <2> QED
    BY <2>1, <2>2, <2>3, <2>4
<1>2. \/ call' = None
      \/ /\ call' \in C!Call /\ call'.kind = "command"
         /\ session' = call'.written.session /\ call'.role = call'.written.role
         /\ list' = call'.written.list
  <2>1. CASE C!Write
    <3> DEFINE w == [role |-> role[Me], session |-> C!Ensured, list |-> list]
    <3>1. call' = [at |-> "route", kind |-> "command", role |-> role[Me], written |-> w]
          /\ list' = list /\ session' = C!Ensured
      BY <2>1 DEF C!Write, C!EnsureSession
    <3>2. w \in C!Written
      BY <1>1, <3>1, SameMembers DEF C!Written
    <3>3. w.role = role[Me] /\ w.session = session' /\ w.list = list'
      BY <3>1
    <3> HIDE DEF w
    <3>4. call' \in C!Call
      BY <1>1, <3>1, <3>2, SameMembers DEF C!Call, C!Kind
    <3> QED
      BY <3>1, <3>3, <3>4
  <2> QED
    BY <1>1, <2>1 DEF C!Command, C!NewSession
<1>3. C!ConversationTypeOK'
  <2>1. MembersTypeOK'
    BY <1>1, MemberStepsTyped, SameMembers DEF TalkInv, C!ConversationTypeOK
  <2>2. C!MembersTypeOK'
    BY <2>1 DEF C!MembersTypeOK, MembersTypeOK, C!MemberRole, MemberRole, C!Assignable,
       Assignable
  <2> QED
    BY <1>1, <1>2, <2>2 DEF TalkInv, C!ConversationTypeOK, C!Session
<1>4. CallFits' /\ PendingFits' /\ ButtonFits' /\ (open => session # 0)'
  BY <1>1, <1>2 DEF CallFits, PendingFits, ButtonFits, TalkInv, C!Session
<1>5. C!ReferencesHold'
  BY <1>1, <1>2 DEF C!ReferencesHold
<1> QED
  BY <1>3, <1>4, <1>5 DEF TalkInv

(* The payload made of a request that was not disturbed.                     *)
LEMMA PayloadFits ==
  ASSUME TalkInv, C!ConversationConstants, call # None, C!Undisturbed,
         NEW stage \in {"consent", "recheck"}, NEW kind \in C!Kind
  PROVE  LET p == C!Payload(stage, kind) IN
         /\ p \in C!Pending /\ p.role = p.written.role /\ p.kind = kind
         /\ kind = "command" => p.written = call.written
<1>1. /\ call \in C!Call /\ call.written \in C!Written /\ call.role = call.written.role
      /\ role[Me] = call.role
  BY DEF TalkInv, C!ConversationTypeOK, CallFits, C!Undisturbed, C!Call
<1>2. role[Me] \in C!MemberRole
  BY <1>1 DEF C!Call
<1>3. [call.written EXCEPT !.list = None] \in C!Written
      /\ [call.written EXCEPT !.list = None].role = call.written.role
  BY <1>1 DEF C!Written
<1>4. PICK w \in C!Written :
        /\ w = IF kind = "command" THEN call.written
               ELSE [call.written EXCEPT !.list = None]
        /\ w.role = call.written.role /\ (kind = "command" => w = call.written)
  BY <1>1, <1>3
<1>5. C!Payload(stage, kind)
        = [stage |-> stage, kind |-> kind, role |-> role[Me], written |-> w]
  BY <1>4 DEF C!Payload
<1> QED
  BY <1>1, <1>2, <1>4, <1>5 DEF C!Pending

(* What may follow the answer of a model, or its failure.                    *)
LEMMA OutcomesKeep ==
  ASSUME TalkInv, C!ConversationConstants, call # None, C!Still,
         \/ /\ call' = None
            /\ UNCHANGED <<pending, list, confirms, shown, changed>>
         \/ /\ C!Undisturbed /\ call.at # "cloud" /\ \E kind \in C!Kind : C!Ask(kind)
            /\ UNCHANGED <<list, confirms, shown, changed>>
         \/ /\ C!Undisturbed /\ C!OfferRecheck
            /\ C!Execute \/ UNCHANGED <<list, confirms, shown, changed>>
         \/ /\ C!Undisturbed /\ call' = None /\ UNCHANGED pending
            /\ C!Execute \/ UNCHANGED <<list, confirms, shown, changed>>
         \/ /\ C!Undisturbed /\ call.at # "cloud"
            /\ call' = [call EXCEPT !.at = "interpret", !.role = role[Me]]
            /\ UNCHANGED <<pending, list, confirms, shown, changed>>
  PROVE  TalkInv' /\ changed' = changed
         /\ (call' # None => call'.at # "cloud")
<1>1. /\ call \in C!Call /\ pending = None
      /\ open /\ session = call.written.session /\ call.role = call.written.role
      /\ call.at # "cloud" => call.kind = "command"
      /\ call.kind = "command" => list \in {None, call.written.list}
  BY DEF TalkInv, C!ConversationTypeOK, CallFits, C!ReferencesHold
<1>2. UNCHANGED <<role, here, session, open, mode, unit>>
  BY DEF C!Still, C!memberVars, C!sessionVars
<1>3. /\ list' \in C!List \cup {None}
      /\ confirms' \subseteq C!Proposal /\ shown' \in C!Proposal \cup {None}
      /\ confirms' \subseteq {shown'} /\ changed' = changed
  <2>1. CASE C!Execute
    BY <1>1, <2>1, ExecuteKeeps
  <2>2. CASE UNCHANGED <<list, confirms, shown, changed>>
    BY <2>2 DEF TalkInv, C!ConversationTypeOK, ButtonFits
  <2> QED
    BY <2>1, <2>2
<1>4. CASE call' = None /\ (pending' = None \/ pending' = pending)
  <2>1. pending' = None
    BY <1>1, <1>4
  <2> QED
    BY <1>1, <1>2, <1>3, <1>4, <2>1 DEF TalkInv, C!ConversationTypeOK, C!MembersTypeOK,
       CallFits, PendingFits, ButtonFits, C!ReferencesHold
<1>5. ASSUME NEW stage \in {"consent", "recheck"}, NEW kind \in C!Kind, C!Undisturbed,
             pending' = C!Payload(stage, kind), call' = None,
             kind = "command" => list' = list /\ call.at # "cloud"
      PROVE  TalkInv'
  <2>1. /\ pending' \in C!Pending /\ pending'.role = pending'.written.role
        /\ pending'.kind = kind /\ (kind = "command" => pending'.written = call.written)
    BY <1>5, PayloadFits
  <2>2. pending'.kind = "command" => list' \in {None, pending'.written.list}
    <3>1. SUFFICES ASSUME kind = "command" PROVE list' \in {None, pending'.written.list}
      BY <2>1
    <3> QED
      BY <1>1, <1>5, <2>1, <3>1
  <2> QED
    BY <1>2, <1>3, <1>5, <2>1, <2>2 DEF TalkInv, C!ConversationTypeOK, C!MembersTypeOK,
       CallFits, PendingFits, ButtonFits, C!ReferencesHold
<1>6. ASSUME C!Undisturbed, call.at # "cloud",
             call' = [call EXCEPT !.at = "interpret", !.role = role[Me]],
             UNCHANGED <<pending, list, confirms, shown, changed>>
      PROVE  TalkInv' /\ call'.at # "cloud"
  <2>1. role[Me] = call.role
    BY <1>6 DEF C!Undisturbed
  <2>2. /\ call' \in C!Call /\ call'.written = call.written /\ call'.role = call.role
        /\ call'.kind = call.kind /\ call'.at = "interpret"
    BY <1>1, <1>6, <2>1 DEF C!Call
  <2>3. call'.kind = "command" => list' \in {None, call'.written.list}
    BY <1>1, <1>6, <2>2
  <2> QED
    BY <1>1, <1>2, <1>3, <1>6, <2>2, <2>3 DEF TalkInv, C!ConversationTypeOK,
       C!MembersTypeOK, CallFits, PendingFits, ButtonFits, C!ReferencesHold
<1> QED
  <2>1. CASE call' = None /\ UNCHANGED pending
    BY <1>3, <1>4, <2>1
  <2>2. ASSUME NEW kind \in C!Kind, C!Undisturbed, C!Ask(kind), call.at # "cloud",
               UNCHANGED <<list, confirms, shown, changed>>
        PROVE  TalkInv' /\ call' = None
    BY <1>5, <2>2 DEF C!Ask
  <2>3. CASE C!Undisturbed /\ C!OfferRecheck
    BY <1>3, <1>4, <1>5, <2>3 DEF C!OfferRecheck, C!Kind
  <2>4. C!Undisturbed /\ C!OfferRecheck => call' = None
    BY DEF C!OfferRecheck
  <2> QED
    BY <1>3, <1>6, <2>1, <2>2, <2>3, <2>4

(* Each return of a model call is one of them.                               *)
LEMMA AnswersKeep ==
  ASSUME TalkInv, C!ConversationConstants, C!Routed \/ C!Interpreted \/ C!Answered
  PROVE  TalkInv' /\ changed' = changed /\ (call' # None => call'.at # "cloud")
<1>1. call # None /\ C!Still
  BY DEF C!Routed, C!Interpreted, C!Answered
<1>2. {"command", "answer"} = C!Kind
  BY DEF C!Kind
<1>3. CASE C!Routed
  BY <1>1, <1>2, <1>3, OutcomesKeep DEF C!Routed, C!Abandoned
<1>4. CASE C!Interpreted
  BY <1>1, <1>2, <1>4, OutcomesKeep DEF C!Interpreted, C!Abandoned
<1>5. CASE C!Answered
  BY <1>1, <1>2, <1>5, OutcomesKeep DEF C!Answered, C!Abandoned
<1> QED
  BY <1>3, <1>4, <1>5

(* The buttons of a payload.                                                 *)
LEMMA HybridButtonsKeep ==
  ASSUME TalkInv, C!ConversationConstants, C!Consent \/ C!Recheck \/ C!DropPending
  PROVE  TalkInv'
<1>1. call = None /\ pending \in C!Pending /\ pending.role = pending.written.role
      /\ UNCHANGED <<role, here, session, open, mode, unit, list, confirms, shown, changed>>
      /\ (pending.kind = "command" => list \in {None, pending.written.list})
  BY DEF C!Consent, C!Recheck, C!DropPending, C!PressHybrid, C!Still, C!memberVars,
     C!sessionVars, TalkInv, C!ConversationTypeOK, PendingFits, C!ReferencesHold
<1>2. CASE C!Consent
  <2>1. /\ open /\ session = pending.written.session /\ role[Me] = pending.role
        /\ pending' = None
        /\ call' = [at |-> "cloud", kind |-> pending.kind, role |-> role[Me],
                    written |-> pending.written]
    BY <1>2 DEF C!Consent, C!MayResume
  <2>2. call' \in C!Call /\ call'.written = pending.written
        /\ call'.role = pending.role /\ call'.kind = pending.kind
    BY <1>1, <2>1 DEF C!Call, C!Pending
  <2>3. call'.kind = "command" => list' \in {None, call'.written.list}
    BY <1>1, <2>2
  <2> QED
    BY <1>1, <2>1, <2>2, <2>3 DEF TalkInv, C!ConversationTypeOK, C!MembersTypeOK,
       CallFits, PendingFits, ButtonFits, C!ReferencesHold
<1>3. CASE C!Recheck
  <2>1. pending' = [pending EXCEPT !.stage = "consent"] /\ call' = call
    BY <1>3 DEF C!Recheck
  <2>2. /\ pending' \in C!Pending /\ pending'.role = pending'.written.role
        /\ pending'.kind = pending.kind /\ pending'.written = pending.written
    BY <1>1, <2>1 DEF C!Pending
  <2>3. pending'.kind = "command" => list' \in {None, pending'.written.list}
    BY <1>1, <2>2
  <2> QED
    BY <1>1, <2>1, <2>2, <2>3 DEF TalkInv, C!ConversationTypeOK, C!MembersTypeOK,
       CallFits, PendingFits, ButtonFits, C!ReferencesHold
<1>4. CASE C!DropPending
  <2>1. pending' = None /\ call' = call
    BY <1>4 DEF C!DropPending
  <2> QED
    BY <1>1, <2>1 DEF TalkInv, C!ConversationTypeOK, C!MembersTypeOK,
       CallFits, PendingFits, ButtonFits, C!ReferencesHold
<1> QED
  BY <1>2, <1>3, <1>4

(* The press that changes a stock: the proposal is the last one, and goes.   *)
LEMMA ConfirmKeeps ==
  ASSUME TalkInv, C!ConversationConstants, C!PressConfirm
  PROVE  TalkInv' /\ call' = call /\ (changed' # changed => C!ChangesAsProposed)
<1>1. /\ call = None /\ call' = None /\ pending' = None
      /\ UNCHANGED <<role, here, session, open, mode, unit>>
  BY DEF C!PressConfirm, C!OtherButton, C!Still, C!memberVars, C!sessionVars
<1>2. PICK p \in confirms :
        IF ~C!Authorized(Me)
        THEN confirms' = confirms \ {p} /\ UNCHANGED <<list, shown, changed>>
        ELSE /\ C!InvalidateSemantic
             /\ \/ UNCHANGED <<list, shown, changed>>
                \/ /\ C!Unchanged(p)
                   /\ changed' = [changed EXCEPT ![p.material] = 1 - @]
                   /\ list' = C!Selected(p.material)
                   /\ shown' = None
  BY DEF C!PressConfirm
<1>3. /\ p \in C!Proposal /\ p.material \in Material /\ shown = p /\ p # None
      /\ list \in C!List \cup {None} /\ changed \in [Material -> {0, 1}]
  BY DEF TalkInv, C!ConversationTypeOK, ButtonFits, C!Proposal, C!ConversationConstants
<1>4. CASE confirms' \subseteq confirms /\ UNCHANGED <<list, shown, changed>>
  BY <1>1, <1>4 DEF TalkInv, C!ConversationTypeOK, C!MembersTypeOK,
     CallFits, PendingFits, ButtonFits, C!ReferencesHold
<1>5. CASE /\ C!Unchanged(p) /\ confirms' = {}
           /\ changed' = [changed EXCEPT ![p.material] = 1 - @]
           /\ list' = C!Selected(p.material)
           /\ shown' = None
  <2>1. /\ open /\ session = p.session /\ unit[p.material] = p.unit
        /\ C!Authorized(Me) /\ C!Can(Me, "inventory.write")
    BY <1>5 DEF C!Unchanged
  <2>2. list' \in C!List
    <3>1. C!Ensured <= MaxTalks
      BY <2>1 DEF TalkInv, C!ConversationTypeOK, C!Ensured, C!ConversationConstants
    <3> QED
      BY <1>3, <1>5, <3>1, ListsTyped DEF TalkInv
  <2>3. changed' \in [Material -> {0, 1}]
        /\ \A m \in Material : changed'[m] # changed[m] => m = p.material
    BY <1>3, <1>5
  <2>4. C!ChangesAsProposed
    BY <1>3, <1>5, <2>1, <2>3 DEF C!ChangesAsProposed, C!Authorized
  <2> QED
    BY <1>1, <1>5, <2>2, <2>3, <2>4 DEF TalkInv, C!ConversationTypeOK, C!MembersTypeOK,
       CallFits, PendingFits, ButtonFits, C!ReferencesHold
<1> QED
  BY <1>1, <1>2, <1>4, <1>5 DEF C!InvalidateSemantic

(* The other buttons.                                                        *)
LEMMA MenusKeep ==
  ASSUME TalkInv, C!ConversationConstants,
         C!PressMenu \/ C!Clear \/ C!Switch
  PROVE  TalkInv' /\ call' = call /\ changed' = changed
<1>1. /\ call = None /\ call' = None /\ UNCHANGED <<mode, unit, shown, changed>>
      /\ confirms' \subseteq confirms
  BY DEF C!PressMenu, C!Clear, C!Switch, C!InvalidateSemantic
<1>2. C!MembersTypeOK'
  <2>1. MembersTypeOK'
    <3>1. CASE C!Switch
      BY <3>1, SameMembers, SameMemberSteps, MemberStepsTyped
      DEF C!Switch, TalkInv, C!ConversationTypeOK
    <3>2. CASE C!PressMenu \/ C!Clear
      BY <3>2, SameMembers, MemberStepsTyped
      DEF C!PressMenu, C!Clear, TalkInv, C!ConversationTypeOK, C!memberVars, memberVars
    <3> QED
      BY <3>1, <3>2
  <2> QED
    BY <2>1 DEF C!MembersTypeOK, MembersTypeOK, C!MemberRole, MemberRole, C!Assignable,
       Assignable
<1>3. /\ session' \in 0 .. MaxTalks /\ open' \in BOOLEAN /\ (open' => session' # 0)
      /\ \/ pending' = None /\ list' \in C!List \cup {None}
         \/ UNCHANGED <<pending, list>>
  <2>1. CASE C!PressMenu
    <3>1. CASE UNCHANGED <<list, open, session>>
      BY <2>1, <3>1 DEF C!PressMenu, C!OtherButton, TalkInv, C!ConversationTypeOK
    <3>2. CASE C!EnsureSession /\ \E m \in Material : list' = C!Listed(m)
      <4>1. C!Ensured <= MaxTalks /\ session' = C!Ensured /\ open' = TRUE
        BY <3>2 DEF C!EnsureSession
      <4>2. C!Ensured \in C!Session
        BY <4>1 DEF TalkInv, C!ConversationTypeOK, C!Ensured, C!Session,
           C!ConversationConstants
      <4>3. list' \in C!List
        BY <3>2, <4>1, ListsTyped DEF TalkInv
      <4> QED
        BY <2>1, <4>1, <4>2, <4>3 DEF C!PressMenu, C!OtherButton, C!Session,
           C!ConversationConstants
    <3> QED
      BY <2>1, <3>1, <3>2 DEF C!PressMenu, C!sessionVars
  <2>2. CASE C!Clear
    BY <2>2 DEF C!Clear, C!OtherButton, TalkInv, C!ConversationTypeOK
  <2>3. CASE C!Switch
    BY <2>3 DEF C!Switch, C!OtherButton, TalkInv, C!ConversationTypeOK
  <2> QED
    BY <2>1, <2>2, <2>3
<1>4. C!ConversationTypeOK'
  BY <1>1, <1>2, <1>3 DEF TalkInv, C!ConversationTypeOK
<1>5. CallFits' /\ PendingFits' /\ ButtonFits' /\ C!ReferencesHold'
  BY <1>1, <1>3 DEF TalkInv, CallFits, PendingFits, ButtonFits, C!ReferencesHold
<1> QED
  BY <1>1, <1>3, <1>4, <1>5 DEF TalkInv

(* Time, the process and the other members.                                  *)
LEMMA SurroundingsKeep ==
  ASSUME TalkInv, C!ConversationConstants,
         C!Expire \/ C!Restart \/ C!UnitChange \/ C!RoleChange
  PROVE  TalkInv' /\ (call' = None \/ call' = call) /\ changed' = changed
<1>1. /\ UNCHANGED <<session, open, shown, changed>>
      /\ list' = None \/ list' = list
      /\ confirms' \subseteq confirms
      /\ UNCHANGED <<pending, call>> \/ (pending' = None /\ call' = None)
      /\ mode' \in C!Mode
      /\ unit' \in [Material -> C!Unit]
  <2>1. mode \in C!Mode /\ unit \in [Material -> C!Unit]
    BY DEF TalkInv, C!ConversationTypeOK
  <2>2. CASE C!Expire
    BY <2>1, <2>2 DEF C!Expire, C!Still, C!sessionVars
  <2>3. CASE C!Restart
    BY <2>1, <2>3 DEF C!Restart, C!sessionVars
  <2>4. CASE C!UnitChange
    <3>1. unit' \in [Material -> C!Unit]
      BY <2>1, <2>4 DEF C!UnitChange
    <3> QED
      BY <2>1, <2>4, <3>1 DEF C!UnitChange, C!sessionVars, C!chatVars
  <2>5. CASE C!RoleChange
    BY <2>1, <2>5 DEF C!RoleChange, C!sessionVars, C!chatVars
  <2> QED
    BY <2>2, <2>3, <2>4, <2>5
<1>2. C!MembersTypeOK'
  <2>1. MembersTypeOK'
    <3>1. CASE C!RoleChange
      BY <3>1, SameMembers, SameMemberSteps, MemberStepsTyped
      DEF C!RoleChange, TalkInv, C!ConversationTypeOK
    <3>2. CASE C!Expire \/ C!Restart \/ C!UnitChange
      BY <3>2, SameMembers, MemberStepsTyped
      DEF C!Expire, C!Restart, C!UnitChange, C!Still, TalkInv, C!ConversationTypeOK,
          C!memberVars, memberVars
    <3> QED
      BY <3>1, <3>2
  <2> QED
    BY <2>1 DEF C!MembersTypeOK, MembersTypeOK, C!MemberRole, MemberRole, C!Assignable,
       Assignable
<1>3. C!ConversationTypeOK'
  BY <1>1, <1>2 DEF TalkInv, C!ConversationTypeOK
<1>4. CallFits' /\ PendingFits' /\ ButtonFits' /\ C!ReferencesHold'
  BY <1>1 DEF TalkInv, CallFits, PendingFits, ButtonFits, C!ReferencesHold
<1> QED
  BY <1>1, <1>3, <1>4 DEF TalkInv

(* All steps of a conversation.                                              *)
LEMMA TalkKept ==
  ASSUME TalkInv, C!ConversationConstants, [C!ConversationNext]_(C!conversationVars)
  PROVE  TalkInv' /\ [C!SendsAsWritten]_call /\ [C!ChangesAsProposed]_changed
<1>1. CASE C!Write \/ C!Command \/ C!NewSession
  <2>1. changed' = changed /\ (call' = call \/ call'.at = "route")
    BY <1>1 DEF C!Write, C!Command, C!NewSession
  <2> QED
    BY <1>1, <2>1, TextsKeep DEF C!SendsAsWritten
<1>2. CASE C!Routed \/ C!Interpreted \/ C!Answered
  BY <1>2, AnswersKeep DEF C!SendsAsWritten
<1>3. CASE C!Consent \/ C!Recheck \/ C!DropPending
  <2>1. changed' = changed
    BY <1>3 DEF C!Consent, C!Recheck, C!DropPending, C!PressHybrid
  <2>2. call' = call \/ C!SendsAsWritten
    <3>1. CASE C!Consent
      <4>1. /\ C!Authorized(Me) /\ role[Me] = pending.role /\ open
            /\ session = pending.written.session /\ mode # "LOCAL_ONLY"
            /\ call'.written = pending.written /\ pending # None
        BY <3>1 DEF C!Consent, C!MayResume, C!PressHybrid
      <4>2. pending.role = pending.written.role
        BY <4>1 DEF TalkInv, PendingFits
      <4> QED
        BY <4>1, <4>2 DEF C!SendsAsWritten
    <3> QED
      BY <1>3, <3>1 DEF C!Recheck, C!DropPending
  <2> QED
    BY <1>3, <2>1, <2>2, HybridButtonsKeep
<1>4. CASE C!PressConfirm
  BY <1>4, ConfirmKeeps
<1>5. CASE C!PressMenu \/ C!Clear \/ C!Switch
  BY <1>5, MenusKeep
<1>6. CASE C!Expire \/ C!Restart \/ C!UnitChange \/ C!RoleChange
  BY <1>6, SurroundingsKeep DEF C!SendsAsWritten
<1>7. CASE UNCHANGED C!conversationVars
  BY <1>7 DEF C!conversationVars, C!memberVars, C!sessionVars, C!chatVars, TalkInv,
     C!ConversationTypeOK, C!MembersTypeOK, CallFits, PendingFits, ButtonFits,
     C!ReferencesHold
<1> QED
  BY <1>1, <1>2, <1>3, <1>4, <1>5, <1>6, <1>7 DEF C!ConversationNext

(* A chat begins without anything.                                           *)
LEMMA TalkBegins ==
  ASSUME C!ConversationInit, C!ConversationConstants
  PROVE  TalkInv
<1>1. C!MembersTypeOK
  BY SameMembers, SameMemberSteps, FirstMembersTyped DEF C!ConversationInit
<1>2. [m \in Material |-> "g"] \in [Material -> C!Unit]
      /\ [m \in Material |-> 0] \in [Material -> {0, 1}]
  BY DEF C!Unit
<1>3. /\ mode \in C!Mode /\ session = 0 /\ open = FALSE /\ MaxTalks \in Nat
      /\ list = None /\ pending = None /\ call = None /\ confirms = {} /\ shown = None
      /\ unit \in [Material -> C!Unit] /\ changed \in [Material -> {0, 1}]
  BY <1>2 DEF C!ConversationInit, C!ConversationConstants
<1>4. C!ConversationTypeOK
  <2>1. session \in 0 .. MaxTalks
    BY <1>3
  <2>2. open \in BOOLEAN
    BY <1>3
  <2>3. confirms \subseteq C!Proposal /\ shown \in C!Proposal \cup {None}
    BY <1>3
  <2> QED
    BY <1>1, <1>3, <2>1, <2>2, <2>3 DEF C!ConversationTypeOK
<1> QED
  BY <1>3, <1>4 DEF TalkInv, CallFits, PendingFits, ButtonFits, C!ReferencesHold

(* The invariant of a conversation: its types, and who waits for what, in    *)
(* which session and role it was written in (processMessage, hybridButton,   *)
(* Yield, invalidateSemantic).                                               *)
THEOREM TalkInvariance ==
  ASSUME C!ConversationConstants
  PROVE  C!ConversationSpec => []TalkInv
<1>1. C!ConversationInit => TalkInv
  BY TalkBegins
<1>2. TalkInv /\ [C!ConversationNext]_(C!conversationVars) => TalkInv'
  BY TalkKept
<1> QED
  BY <1>1, <1>2, PTL DEF C!ConversationSpec

-----------------------------------------------------------------------------
(* Memory.                                                                   *)

(* What a sequence of numbers adds up to.                                    *)
LEMMA TotalIs ==
  ASSUME NEW s \in Seq(Int), NEW G, Adds(G, s, DOMAIN s)
  PROVE  M!Total(s) = G[DOMAIN s]
<1> DEFINE D == DOMAIN s
           iter[u \in SUBSET D] ==
             IF u = {} THEN 0
             ELSE LET x == CHOOSE x \in u : TRUE IN s[x] + iter[u \ {x}]
<1>1. M!Total(s) = iter[D]
  BY DEF M!Total, M!FoldSeq, M!FoldFunction, M!FoldFunctionOnSet, M!MapThenFoldSet
<1>2. IsFiniteSet(D)
  <2>1. D = 1 .. Len(s) /\ Len(s) \in Nat
    OBVIOUS
  <2> QED
    BY <2>1, FS_Interval
<1>3. iter = [u \in SUBSET D |->
                IF u = {} THEN 0
                ELSE s[CHOOSE x \in u : TRUE] + iter[u \ {CHOOSE x \in u : TRUE}]]
  <2>1. ASSUME NEW u \in SUBSET D
        PROVE  G[u] = IF u = {} THEN 0
                      ELSE s[CHOOSE x \in u : TRUE] + G[u \ {CHOOSE x \in u : TRUE}]
    <3>1. CASE u = {}
      BY <3>1 DEF Adds
    <3>2. CASE u # {}
      <4>1. (CHOOSE x \in u : TRUE) \in u
        BY <3>2
      <4> QED
        BY <3>2, <4>1 DEF Adds
    <3> QED
      BY <3>1, <3>2
  <2>2. G = [u \in SUBSET D |->
               IF u = {} THEN 0
               ELSE s[CHOOSE x \in u : TRUE] + G[u \ {CHOOSE x \in u : TRUE}]]
    BY <2>1 DEF Adds
  <2> QED
    BY <2>2
<1>4. Follows(iter, s, D)
  <2>1. iter[{}] = 0
    BY <1>3
  <2>2. ASSUME NEW u \in SUBSET D, u # {}
        PROVE  \E x \in u : iter[u] = s[x] + iter[u \ {x}]
    <3>1. (CHOOSE x \in u : TRUE) \in u
      BY <2>2
    <3>2. iter[u] = s[CHOOSE x \in u : TRUE] + iter[u \ {CHOOSE x \in u : TRUE}]
      BY <1>3, <2>2
    <3> QED
      BY <3>1, <3>2
  <2> QED
    BY <2>1, <2>2 DEF Follows
<1>5. Adds(G, s, D)
  OBVIOUS
<1> HIDE DEF iter, D
<1>6. \A u \in SUBSET D : iter[u] = G[u]
  BY <1>2, <1>4, <1>5, FoldAdds
<1> QED
  BY <1>1, <1>6 DEF D

(* One more number adds itself.                                              *)
LEMMA TotalOfAppended ==
  ASSUME NEW s \in Seq(Int), NEW t \in Int
  PROVE  /\ M!Total(s) \in Int /\ M!Total(<<>>) = 0
         /\ M!Total(Append(s, t)) = M!Total(s) + t
<1> DEFINE a == Append(s, t)
           n == Len(s)
<1>1. /\ n \in Nat /\ a \in Seq(Int) /\ DOMAIN s = 1 .. n /\ DOMAIN a = 1 .. n + 1
      /\ \A i \in 1 .. n : a[i] = s[i]
      /\ a[n + 1] = t
  OBVIOUS
<1> HIDE DEF a, n
<1>2. PICK G : Adds(G, a, 1 .. n + 1)
  <2>1. IsFiniteSet(1 .. n + 1) /\ a \in [1 .. n + 1 -> Int]
    BY <1>1, FS_Interval
  <2> QED
    BY <2>1, AdderExists
<1>3. /\ G \in [SUBSET (1 .. n + 1) -> Int] /\ G[{}] = 0
      /\ \A u \in SUBSET (1 .. n + 1) : \A x \in u : G[u] = a[x] + G[u \ {x}]
  BY <1>2 DEF Adds
<1> DEFINE H == [u \in SUBSET (1 .. n) |-> G[u]]
           E == [u \in {{}} |-> 0]
<1>4. Adds(H, s, 1 .. n)
  <2>1. \A u \in SUBSET (1 .. n) : u \in SUBSET (1 .. n + 1)
    BY <1>1
  <2>2. H \in [SUBSET (1 .. n) -> Int] /\ H[{}] = 0
    BY <1>3, <2>1
  <2>3. ASSUME NEW u \in SUBSET (1 .. n), NEW x \in u PROVE H[u] = s[x] + H[u \ {x}]
    <3>1. H[u] = G[u] /\ H[u \ {x}] = G[u \ {x}] /\ x \in 1 .. n
      OBVIOUS
    <3>2. G[u] = a[x] + G[u \ {x}]
      BY <1>3, <2>1
    <3> QED
      BY <1>1, <3>1, <3>2
  <2> HIDE DEF H
  <2> QED
    BY <2>2, <2>3 DEF Adds
<1>5. M!Total(a) = G[1 .. n + 1]
  BY <1>1, <1>2, TotalIs
<1>6. M!Total(s) = G[1 .. n]
  <2>1. M!Total(s) = H[1 .. n]
    <3> HIDE DEF H
    <3> QED
      BY <1>1, <1>4, TotalIs
  <2> QED
    BY <2>1
<1>7. M!Total(<<>>) = 0
  <2>1. Adds(E, <<>>, {}) /\ E[{}] = 0
    BY DEF Adds
  <2>2. <<>> \in Seq(Int) /\ DOMAIN <<>> = {}
    OBVIOUS
  <2> HIDE DEF E
  <2> QED
    BY <2>1, <2>2, TotalIs
<1>8. G[1 .. n + 1] = t + G[1 .. n] /\ G[1 .. n] \in Int
  <2>1. n + 1 \in 1 .. n + 1 /\ (1 .. n + 1) \ {n + 1} = 1 .. n
        /\ 1 .. n \in SUBSET (1 .. n + 1)
    BY <1>1
  <2>2. G[1 .. n + 1] = a[n + 1] + G[(1 .. n + 1) \ {n + 1}]
    BY <1>3, <2>1
  <2> QED
    BY <1>1, <1>3, <2>1, <2>2
<1> QED
  BY <1>5, <1>6, <1>7, <1>8 DEF a

(* The last members of a sequence.                                           *)
LEMMA LastOfFields ==
  ASSUME NEW S, NEW s \in Seq(S), NEW n \in 0 .. Len(s)
  PROVE  /\ M!LastOf(s, n) \in Seq(S) /\ Len(M!LastOf(s, n)) = n
         /\ \A k \in 1 .. n : M!LastOf(s, n)[k] = s[Len(s) - n + k]
<1> DEFINE a == Len(s) - n + 1
<1>1. Len(s) \in Nat /\ a \in Nat /\ a >= 1 /\ Len(s) - a + 1 = n
  OBVIOUS
<1>2. \A k \in a .. Len(s) : s[k] \in S
  BY <1>1
<1>3. M!LastOf(s, n) = SubSeq(s, a, Len(s))
  BY DEF M!LastOf
<1>4. /\ SubSeq(s, a, Len(s)) \in Seq(S) /\ Len(SubSeq(s, a, Len(s))) = n
      /\ \A k \in 1 .. n : SubSeq(s, a, Len(s))[k] = s[a + k - 1]
  BY <1>1, <1>2
<1>5. \A k \in 1 .. n : a + k - 1 = Len(s) - n + k
  BY <1>1
<1> HIDE DEF a
<1> QED
  BY <1>3, <1>4, <1>5

(* The last of the last are the last.                                        *)
LEMMA LastOfLast ==
  ASSUME NEW S, NEW s \in Seq(S), NEW m \in 0 .. Len(s), NEW n \in 0 .. m
  PROVE  M!LastOf(M!LastOf(s, m), n) = M!LastOf(s, n)
<1> DEFINE a == M!LastOf(s, m)
           b == M!LastOf(a, n)
           c == M!LastOf(s, n)
<1>1. /\ a \in Seq(S) /\ Len(a) = m
      /\ \A k \in 1 .. m : a[k] = s[Len(s) - m + k]
  BY LastOfFields
<1> HIDE DEF a
<1>2. Len(s) \in Nat /\ m \in Nat /\ n \in Nat /\ n \in 0 .. Len(s) /\ n \in 0 .. Len(a)
  BY <1>1
<1>3. /\ b \in Seq(S) /\ Len(b) = n /\ \A k \in 1 .. n : b[k] = a[Len(a) - n + k]
  BY <1>1, <1>2, LastOfFields
<1>4. /\ c \in Seq(S) /\ Len(c) = n /\ \A k \in 1 .. n : c[k] = s[Len(s) - n + k]
  BY <1>2, LastOfFields
<1> HIDE DEF b, c
<1>5. ASSUME NEW k \in 1 .. n PROVE b[k] = c[k]
  <2>1. (m - n) + k \in 1 .. m /\ Len(s) - m + ((m - n) + k) = Len(s) - n + k
    BY <1>2
  <2>2. a[(m - n) + k] = s[Len(s) - n + k]
    BY <1>1, <2>1
  <2> QED
    BY <1>1, <1>3, <1>4, <2>2
<1> QED
  BY <1>3, <1>4, <1>5, SeqEqual DEF a, b, c

(* The last with one appended are the last of what it was appended to.       *)
LEMMA LastOfAppended ==
  ASSUME NEW S, NEW s \in Seq(S), NEW t \in S, NEW n \in 0 .. Len(s)
  PROVE  M!LastOf(Append(s, t), n + 1) = Append(M!LastOf(s, n), t)
<1> DEFINE a == Append(s, t)
           b == M!LastOf(a, n + 1)
           d == M!LastOf(s, n)
           c == Append(d, t)
<1>1. /\ a \in Seq(S) /\ Len(a) = Len(s) + 1 /\ a[Len(s) + 1] = t /\ Len(s) \in Nat
      /\ \A k \in 1 .. Len(s) : a[k] = s[k]
  OBVIOUS
<1> HIDE DEF a
<1>2. n \in Nat /\ n + 1 \in 0 .. Len(a)
  BY <1>1
<1>3. b \in Seq(S) /\ Len(b) = n + 1
      /\ \A k \in 1 .. n + 1 : b[k] = a[Len(a) - (n + 1) + k]
  BY <1>1, <1>2, LastOfFields
<1>4. d \in Seq(S) /\ Len(d) = n /\ \A k \in 1 .. n : d[k] = s[Len(s) - n + k]
  BY LastOfFields
<1> HIDE DEF b, d
<1>5. /\ c \in Seq(S) /\ Len(c) = n + 1 /\ c[n + 1] = t
      /\ \A k \in 1 .. n : c[k] = d[k]
  BY <1>2, <1>4
<1> HIDE DEF c
<1>6. ASSUME NEW k \in 1 .. n + 1 PROVE b[k] = c[k]
  <2>1. b[k] = a[Len(s) - n + k]
    <3>1. Len(a) - (n + 1) + k = Len(s) - n + k
      BY <1>1, <1>2
    <3> QED
      BY <1>3, <3>1
  <2>2. CASE k = n + 1
    <3>1. Len(s) - n + (n + 1) = Len(s) + 1
      BY <1>1, <1>2
    <3> QED
      BY <1>1, <1>5, <2>1, <2>2, <3>1
  <2>3. CASE k # n + 1
    <3>1. k \in 1 .. n /\ Len(s) - n + k \in 1 .. Len(s)
      BY <1>1, <1>2, <2>3
    <3> QED
      BY <1>1, <1>4, <1>5, <2>1, <3>1
  <2> QED
    BY <2>2, <2>3
<1> QED
  BY <1>3, <1>5, <1>6, SeqEqual DEF a, b, c, d

(* All the last are the sequence, and the last none is the empty one.        *)
LEMMA WholeAndNothing ==
  ASSUME NEW S, NEW s \in Seq(S)
  PROVE  M!LastOf(s, Len(s)) = s /\ M!LastOf(s, 0) = <<>>
<1>1. Len(s) \in Nat /\ Len(s) \in 0 .. Len(s) /\ 0 \in 0 .. Len(s)
  OBVIOUS
<1>2. M!LastOf(s, Len(s)) = s
  <2> DEFINE a == M!LastOf(s, Len(s))
  <2>1. /\ a \in Seq(S) /\ Len(a) = Len(s)
        /\ \A k \in 1 .. Len(s) : a[k] = s[Len(s) - Len(s) + k]
    BY <1>1, LastOfFields
  <2> HIDE DEF a
  <2>2. \A k \in 1 .. Len(s) : a[k] = s[k]
    BY <1>1, <2>1
  <2> QED
    BY <2>1, <2>2, SeqEqual DEF a
<1>3. M!LastOf(s, 0) = <<>>
  <2>1. M!LastOf(s, 0) \in Seq(S) /\ Len(M!LastOf(s, 0)) = 0
    BY <1>1, LastOfFields
  <2> QED
    BY <2>1
<1> QED
  BY <1>2, <1>3

\* The last k messages of s are within both limits.
Fits(s, k) == k <= MaxMessages /\ M!Total(M!LastOf(s, k)) <= MaxTokens

(* Rows are counted up to the first that exceeds a limit.                    *)
LEMMA CountedStops ==
  ASSUME NEW s \in Seq(Nat)
  PROVE  /\ M!Counted(s) \in 0 .. Len(s)
         /\ \A k \in 1 .. M!Counted(s) : Fits(s, k)
         /\ M!Counted(s) < Len(s) => ~Fits(s, M!Counted(s) + 1)
<1> DEFINE Stops(n) == /\ \A k \in 1 .. n : Fits(s, k)
                       /\ n < Len(s) => ~Fits(s, n + 1)
           T == {k \in 1 .. Len(s) + 1 : k = Len(s) + 1 \/ ~Fits(s, k)}
<1>1. Len(s) \in Nat /\ Len(s) + 1 \in T /\ T \in SUBSET Nat
  OBVIOUS
<1>2. PICK l \in T : \A m \in T : l <= m
  <2> HIDE DEF T
  <2> QED
    BY <1>1, LeastOfNaturals
<1>3. l \in 1 .. Len(s) + 1 /\ (l = Len(s) + 1 \/ ~Fits(s, l))
  BY <1>2
<1>4. \A k \in 1 .. l - 1 : Fits(s, k)
  <2>1. ASSUME NEW k \in 1 .. l - 1, ~Fits(s, k) PROVE FALSE
    <3>1. k \in T
      BY <1>1, <1>3, <2>1
    <3>2. l <= k /\ k <= l - 1 /\ l \in Nat /\ k \in Nat
      BY <1>1, <1>2, <1>3, <3>1
    <3> QED
      BY <3>2
  <2> QED
    BY <2>1
<1>5. l - 1 \in 0 .. Len(s) /\ (l - 1) + 1 = l /\ (l - 1 < Len(s) => l # Len(s) + 1)
  BY <1>1, <1>3
<1>6. l - 1 \in 0 .. Len(s) /\ Stops(l - 1)
  BY <1>3, <1>4, <1>5
<1> HIDE DEF T
<1>7. M!Counted(s) = CHOOSE n \in 0 .. Len(s) : Stops(n)
  BY DEF M!Counted, Fits
<1> QED
  BY <1>6, <1>7

\* What is kept of a session: rows are the longest run of the last things said in
\* it that respects the limits, and not empty unless nothing was said.
Recent(rs, sd) ==
  /\ rs \in Seq(Nat) /\ sd \in Seq(Nat)
  /\ Len(sd) <= MaxMessages /\ Len(rs) <= Len(sd)
  /\ rs = M!LastOf(sd, Len(rs))
  /\ \A k \in 0 .. Len(rs) : M!Total(M!LastOf(sd, k)) <= MaxTokens
  /\ Len(rs) < Len(sd) => Len(rs) > 0 /\ M!Total(M!LastOf(sd, Len(rs) + 1)) > MaxTokens

\* said, with what is older than MaxMessages forgotten.
Kept(s) == IF Len(s) > MaxMessages THEN M!LastOf(s, MaxMessages) ELSE s

(* What Kept keeps of a sequence, and its length.                            *)
LEMMA KeptFields ==
  ASSUME NEW S, NEW s \in Seq(S), M!MemoryConstants
  PROVE  /\ Kept(s) \in Seq(S) /\ Len(Kept(s)) <= MaxMessages /\ Len(Kept(s)) <= Len(s)
         /\ Kept(s) = M!LastOf(s, Len(Kept(s)))
         /\ Len(s) <= MaxMessages => Kept(s) = s
         /\ Len(s) > MaxMessages => Len(Kept(s)) = MaxMessages
         /\ \A k \in 0 .. Len(Kept(s)) : M!LastOf(Kept(s), k) = M!LastOf(s, k)
<1>1. MaxMessages \in Nat /\ Len(s) \in Nat
  BY DEF M!MemoryConstants
<1>2. CASE Len(s) > MaxMessages
  <2>1. MaxMessages \in 0 .. Len(s) /\ Kept(s) = M!LastOf(s, MaxMessages)
    BY <1>1, <1>2 DEF Kept
  <2>2. Kept(s) \in Seq(S) /\ Len(Kept(s)) = MaxMessages
    BY <2>1, LastOfFields
  <2>3. \A k \in 0 .. MaxMessages : M!LastOf(Kept(s), k) = M!LastOf(s, k)
    BY <2>1, LastOfLast
  <2> QED
    BY <1>1, <1>2, <2>1, <2>2, <2>3
<1>3. CASE ~(Len(s) > MaxMessages)
  <2>1. Kept(s) = s /\ M!LastOf(s, Len(s)) = s
    BY <1>3, WholeAndNothing DEF Kept
  <2> QED
    BY <1>1, <1>3, <2>1
<1> QED
  BY <1>2, <1>3

(* What is read of such a session is all that is kept.                       *)
LEMMA Recalled ==
  ASSUME M!MemoryConstants, NEW rs, NEW sd, Recent(rs, sd)
  PROVE  M!LastOf(rs, M!Counted(rs)) = rs
<1>1. /\ rs \in Seq(Nat) /\ sd \in Seq(Nat) /\ Len(rs) \in Nat /\ Len(sd) \in Nat
      /\ Len(sd) <= MaxMessages /\ Len(rs) <= Len(sd) /\ MaxMessages \in Nat
      /\ rs = M!LastOf(sd, Len(rs))
      /\ \A k \in 0 .. Len(rs) : M!Total(M!LastOf(sd, k)) <= MaxTokens
  BY DEF Recent, M!MemoryConstants
<1>2. ASSUME NEW k \in 0 .. Len(rs) PROVE Fits(rs, k)
  <2>1. Len(rs) \in 0 .. Len(sd)
    BY <1>1
  <2>2. M!LastOf(M!LastOf(sd, Len(rs)), k) = M!LastOf(sd, k)
    BY <1>1, <2>1, LastOfLast
  <2>3. M!LastOf(rs, k) = M!LastOf(sd, k)
    BY <1>1, <2>2
  <2>4. k <= MaxMessages
    BY <1>1
  <2> QED
    BY <1>1, <2>3, <2>4 DEF Fits
<1> DEFINE n == M!Counted(rs)
<1>3. n \in 0 .. Len(rs) /\ (n < Len(rs) => ~Fits(rs, n + 1))
  BY <1>1, CountedStops
<1> HIDE DEF n
<1>4. n = Len(rs)
  <2>1. n < Len(rs) => n + 1 \in 0 .. Len(rs)
    BY <1>1, <1>3
  <2> QED
    BY <1>1, <1>2, <1>3, <2>1
<1>5. M!LastOf(rs, n) = rs
  BY <1>1, <1>4, WholeAndNothing
<1> QED
  BY <1>5 DEF n

(* A message is appended and the rows are trimmed: what is kept is again the *)
(* longest recent run, with the message at its end.                          *)
LEMMA AppendKeepsRecent ==
  ASSUME M!MemoryConstants, NEW rs, NEW sd, Recent(rs, sd), NEW t \in Nat, t <= MaxTokens
  PROVE  Recent(M!Trimmed(Append(rs, t)), Kept(Append(sd, t)))
<1> DEFINE L == Len(rs)
           D == Len(sd)
           r == Append(rs, t)
           s == Append(sd, t)
           n == M!Counted(r)
           kept1 == Kept(s)
<1>1. /\ rs \in Seq(Nat) /\ sd \in Seq(Nat) /\ L \in Nat /\ D \in Nat /\ L <= D
      /\ MaxMessages \in Nat /\ MaxMessages >= 1 /\ MaxTokens \in Nat
      /\ rs = M!LastOf(sd, L)
      /\ \A k \in 0 .. L : M!Total(M!LastOf(sd, k)) <= MaxTokens
      /\ L < D => M!Total(M!LastOf(sd, L + 1)) > MaxTokens
  BY DEF Recent, M!MemoryConstants
<1>2. r \in Seq(Nat) /\ s \in Seq(Nat) /\ Len(r) = L + 1 /\ Len(s) = D + 1
  BY <1>1
<1>3. ASSUME NEW k \in 0 .. L + 1 PROVE M!LastOf(r, k) = M!LastOf(s, k)
  <2>1. CASE k = 0
    BY <1>2, <2>1, WholeAndNothing
  <2>2. CASE k # 0
    <3>1. k - 1 \in 0 .. L /\ k - 1 \in 0 .. D /\ L \in 0 .. D /\ (k - 1) + 1 = k
      BY <1>1, <2>2
    <3>2. M!LastOf(M!LastOf(sd, L), k - 1) = M!LastOf(sd, k - 1)
      BY <1>1, <3>1, LastOfLast
    <3>3. M!LastOf(rs, k - 1) = M!LastOf(sd, k - 1)
      BY <1>1, <3>2
    <3>4. M!LastOf(r, (k - 1) + 1) = Append(M!LastOf(rs, k - 1), t)
      BY <1>1, <3>1, LastOfAppended
    <3>5. M!LastOf(s, (k - 1) + 1) = Append(M!LastOf(sd, k - 1), t)
      BY <1>1, <3>1, LastOfAppended
    <3> HIDE DEF r, s
    <3> QED
      BY <3>1, <3>3, <3>4, <3>5
  <2> QED
    BY <2>1, <2>2
<1>4. \A x \in Seq(Nat) : M!Total(x) \in Int /\ M!Total(Append(x, t)) = M!Total(x) + t
  <2>1. \A x \in Seq(Nat) : x \in Seq(Int)
    OBVIOUS
  <2> QED
    BY <2>1, TotalOfAppended
<1>5. M!Total(<<>>) = 0
  <2>1. <<>> \in Seq(Int) /\ t \in Int
    OBVIOUS
  <2> QED
    BY <2>1, TotalOfAppended
<1>6. Fits(r, 1)
  <2>1. 0 \in 0 .. L /\ M!LastOf(rs, 0) = <<>> /\ 0 + 1 = 1
    BY <1>1, WholeAndNothing
  <2>2. M!LastOf(r, 0 + 1) = Append(M!LastOf(rs, 0), t)
    BY <1>1, <2>1, LastOfAppended
  <2>3. M!LastOf(r, 1) = Append(<<>>, t)
    BY <2>1, <2>2
  <2>4. M!Total(Append(<<>>, t)) = t
    <3>1. <<>> \in Seq(Nat)
      OBVIOUS
    <3>2. M!Total(Append(<<>>, t)) = M!Total(<<>>) + t
      BY <1>4, <3>1
    <3> QED
      BY <1>5, <3>2
  <2> QED
    BY <1>1, <2>3, <2>4 DEF Fits
<1>7. /\ n \in 0 .. L + 1
      /\ \A k \in 1 .. n : Fits(r, k)
      /\ n < L + 1 => ~Fits(r, n + 1)
  BY <1>2, CountedStops
<1> HIDE DEF L, D, n, r, s
<1>8. n # 0
  <2>1. n = 0 => n < L + 1 /\ n + 1 = 1
    BY <1>1
  <2> QED
    BY <1>6, <1>7, <2>1
<1>9. M!Trimmed(r) = M!LastOf(r, n)
  BY <1>8 DEF M!Trimmed, n
<1>10. /\ M!LastOf(r, n) \in Seq(Nat) /\ Len(M!LastOf(r, n)) = n
  BY <1>2, <1>7, LastOfFields
<1>11. /\ kept1 \in Seq(Nat) /\ Len(kept1) \in Nat
       /\ Len(kept1) <= MaxMessages /\ Len(kept1) <= D + 1
       /\ D + 1 <= MaxMessages => Len(kept1) = D + 1
       /\ D + 1 > MaxMessages => Len(kept1) = MaxMessages
       /\ \A k \in 0 .. Len(kept1) : M!LastOf(kept1, k) = M!LastOf(s, k)
  <2>1. /\ kept1 \in Seq(Nat) /\ Len(kept1) <= MaxMessages /\ Len(kept1) <= Len(s)
        /\ Len(s) <= MaxMessages => kept1 = s
        /\ Len(s) > MaxMessages => Len(kept1) = MaxMessages
        /\ \A k \in 0 .. Len(kept1) : M!LastOf(kept1, k) = M!LastOf(s, k)
    BY <1>2, KeptFields
  <2> HIDE DEF kept1
  <2> QED
    BY <1>1, <1>2, <2>1
<1> HIDE DEF kept1
<1>12. n <= MaxMessages /\ n <= Len(kept1) /\ n \in Nat
  <2>1. n \in 1 .. n /\ n \in Nat /\ n <= D + 1
    BY <1>1, <1>7, <1>8
  <2>2. n <= MaxMessages
    BY <1>7, <2>1 DEF Fits
  <2> QED
    BY <1>1, <1>11, <2>1, <2>2
<1>13. M!LastOf(r, n) = M!LastOf(kept1, n)
  <2>1. n \in 0 .. Len(kept1)
    BY <1>11, <1>12
  <2> QED
    BY <1>3, <1>7, <1>11, <2>1
<1>14. ASSUME NEW k \in 0 .. n PROVE M!Total(M!LastOf(kept1, k)) <= MaxTokens
  <2>1. k \in 0 .. Len(kept1) /\ k \in 0 .. L + 1
    BY <1>1, <1>7, <1>11, <1>12
  <2>2. M!LastOf(kept1, k) = M!LastOf(r, k)
    BY <1>3, <1>11, <2>1
  <2>3. CASE k = 0
    <3>1. M!LastOf(r, k) = <<>>
      BY <1>2, <2>3, WholeAndNothing
    <3> QED
      BY <1>1, <1>5, <2>2, <3>1
  <2>4. CASE k # 0
    <3>1. k \in 1 .. n
      BY <1>12, <2>4
    <3> QED
      BY <1>7, <2>2, <3>1 DEF Fits
  <2> QED
    BY <2>3, <2>4
<1>15. ASSUME n < Len(kept1) PROVE M!Total(M!LastOf(kept1, n + 1)) > MaxTokens
  <2>1. n + 1 \in 0 .. Len(kept1) /\ n + 1 <= MaxMessages /\ n + 1 <= D + 1
    BY <1>1, <1>11, <1>12, <1>15
  <2>2. M!LastOf(kept1, n + 1) = M!LastOf(s, n + 1)
    BY <1>11, <2>1
  <2>3. CASE n < L + 1
    <3>1. n + 1 \in 0 .. L + 1
      BY <1>1, <1>7, <2>3
    <3>2. M!LastOf(r, n + 1) \in Seq(Nat)
      BY <1>2, <3>1, LastOfFields
    <3>3. M!Total(M!LastOf(r, n + 1)) \in Int
      BY <1>4, <3>2
    <3>4. ~(M!Total(M!LastOf(r, n + 1)) <= MaxTokens)
      BY <1>7, <2>1, <2>3 DEF Fits
    <3>5. M!LastOf(r, n + 1) = M!LastOf(s, n + 1)
      BY <1>3, <3>1
    <3> QED
      BY <1>1, <2>2, <3>3, <3>4, <3>5
  <2>4. CASE n = L + 1
    <3>1. L < D /\ L + 1 \in 0 .. D
      BY <1>1, <2>1, <2>4
    <3>2. M!LastOf(s, (L + 1) + 1) = Append(M!LastOf(sd, L + 1), t)
      BY <1>1, <3>1, LastOfAppended DEF s, D
    <3>3. M!LastOf(sd, L + 1) \in Seq(Nat)
      BY <1>1, <3>1, LastOfFields DEF D
    <3>4. M!Total(M!LastOf(s, n + 1)) = M!Total(M!LastOf(sd, L + 1)) + t
      BY <1>4, <2>4, <3>2, <3>3
    <3>5. M!Total(M!LastOf(sd, L + 1)) > MaxTokens /\ M!Total(M!LastOf(sd, L + 1)) \in Int
      BY <1>1, <1>4, <3>1, <3>3
    <3> QED
      BY <1>1, <2>2, <3>4, <3>5
  <2> QED
    BY <1>1, <1>7, <2>3, <2>4
<1>16. Recent(M!LastOf(r, n), kept1)
  <2>1. n > 0
    BY <1>8, <1>12
  <2> HIDE DEF Recent
  <2> QED
    BY <1>10, <1>11, <1>12, <1>13, <1>14, <1>15, <2>1 DEF Recent
<1> QED
  BY <1>9, <1>16 DEF kept1, r, s

(* The proposals that stay when a chat is cleared: all or none of one.       *)
LEMMA OthersOfOne ==
  ASSUME NEW c, NEW p, proposals = <<p>>
  PROVE  M!OfOtherChats(c) \in {<<>>, <<p>>}
<1> DEFINE after(r) == IF p.chat = c THEN r ELSE Append(r, p)
           iter[u \in SUBSET {1}] ==
             IF u = {} THEN <<>>
             ELSE LET x == Max(u) IN
                  IF proposals[x].chat = c THEN iter[u \ {x}]
                  ELSE Append(iter[u \ {x}], proposals[x])
           h == [u \in SUBSET {1} |-> IF u = {} THEN <<>> ELSE after(<<>>)]
<1>1. DOMAIN proposals = {1}
  BY 1 .. 1 = {1}
<1>2. M!OfOtherChats(c) = iter[{1}]
  BY <1>1 DEF M!OfOtherChats, M!FoldLeft, M!MapThenFoldSet, M!Max, Max
<1>3. \A u \in SUBSET {1} : u = {} \/ (u = {1} /\ Max(u) = 1 /\ u \ {1} = {})
  <2>1. Max({1}) = 1
    BY DEF Max
  <2> QED
    BY <2>1
<1>4. iter = [u \in SUBSET {1} |->
                IF u = {} THEN <<>>
                ELSE LET x == Max(u) IN
                     IF proposals[x].chat = c THEN iter[u \ {x}]
                     ELSE Append(iter[u \ {x}], proposals[x])]
  <2>1. ASSUME NEW u \in SUBSET {1}
        PROVE  h[u] = IF u = {} THEN <<>>
                      ELSE LET x == Max(u) IN
                           IF proposals[x].chat = c THEN h[u \ {x}]
                           ELSE Append(h[u \ {x}], proposals[x])
    <3>1. CASE u = {}
      BY <3>1
    <3>2. CASE u = {1}
      <4>1. h[u] = after(<<>>) /\ h[{}] = <<>> /\ u # {}
        BY <3>2
      <4>2. proposals[1] = p
        OBVIOUS
      <4> HIDE DEF h
      <4> QED
        BY <1>3, <3>2, <4>1, <4>2
    <3> QED
      BY <1>3, <3>1, <3>2
  <2>2. h = [u \in SUBSET {1} |->
               IF u = {} THEN <<>>
               ELSE LET x == Max(u) IN
                    IF proposals[x].chat = c THEN h[u \ {x}]
                    ELSE Append(h[u \ {x}], proposals[x])]
    BY <2>1
  <2> QED
    BY <2>2
<1> HIDE DEF iter
<1>5. iter[{}] = <<>> /\ iter[{1}] = after(iter[{}])
  <2>1. iter[{}] = <<>>
    BY <1>4
  <2>2. iter[{1}] = IF proposals[1].chat = c THEN iter[{}] ELSE Append(iter[{}], proposals[1])
    <3>1. {1} \in SUBSET {1} /\ {1} # {} /\ Max({1}) = 1 /\ {1} \ {1} = {}
      BY <1>3
    <3> QED
      BY <1>4, <3>1
  <2> QED
    BY <2>1, <2>2
<1> QED
  BY <1>2, <1>5

(* And of none there is none.                                                *)
LEMMA OthersOfNone ==
  ASSUME NEW c, proposals = <<>>
  PROVE  M!OfOtherChats(c) = <<>>
<1> DEFINE iter[u \in SUBSET {}] ==
             IF u = {} THEN <<>>
             ELSE LET x == Max(u) IN
                  IF proposals[x].chat = c THEN iter[u \ {x}]
                  ELSE Append(iter[u \ {x}], proposals[x])
           h == [u \in SUBSET {} |-> <<>>]
<1>1. DOMAIN proposals = {}
  OBVIOUS
<1>2. M!OfOtherChats(c) = iter[{}]
  BY <1>1 DEF M!OfOtherChats, M!FoldLeft, M!MapThenFoldSet, M!Max, Max
<1>3. iter = [u \in SUBSET {} |->
                IF u = {} THEN <<>>
                ELSE LET x == Max(u) IN
                     IF proposals[x].chat = c THEN iter[u \ {x}]
                     ELSE Append(iter[u \ {x}], proposals[x])]
  <2>1. h = [u \in SUBSET {} |->
               IF u = {} THEN <<>>
               ELSE LET x == Max(u) IN
                    IF proposals[x].chat = c THEN h[u \ {x}]
                    ELSE Append(h[u \ {x}], proposals[x])]
    OBVIOUS
  <2> QED
    BY <2>1
<1> HIDE DEF iter
<1> QED
  BY <1>2, <1>3

\* What is kept of every session is what was said last in it.
HistoriesFit ==
  /\ rows \in [Chat -> Seq(Nat)] /\ said \in [Chat -> Seq(Nat)]
  /\ \A c \in Chat : Recent(rows[c], said[c])

MemoryInv ==
  /\ M!MemoryTypeOK
  /\ HistoriesFit
  /\ proposals \in {<<>>, <<offered>>}

(* Nothing was said yet.                                                     *)
LEMMA NothingIsRecent ==
  ASSUME M!MemoryConstants
  PROVE  Recent(<<>>, <<>>)
<1>1. <<>> \in Seq(Nat) /\ <<>> \in Seq(Int) /\ Len(<<>>) = 0 /\ 0 \in Int
      /\ MaxMessages \in Nat /\ MaxTokens \in Nat
  BY DEF M!MemoryConstants
<1>2. M!LastOf(<<>>, 0) = <<>> /\ M!Total(<<>>) = 0
  BY <1>1, WholeAndNothing, TotalOfAppended
<1>3. \A k \in 0 .. 0 : k = 0
  OBVIOUS
<1> QED
  BY <1>1, <1>2, <1>3 DEF Recent

(* What is forgotten after two messages is forgotten after the first or      *)
(* after the second.                                                         *)
LEMMA KeptTwice ==
  ASSUME M!MemoryConstants, NEW s \in Seq(Nat), Len(s) <= MaxMessages,
         NEW x \in Nat, NEW y \in Nat
  PROVE  Kept(Append(Kept(Append(s, x)), y)) = Kept(Append(Append(s, x), y))
<1> DEFINE s1 == Append(s, x)
           a == Append(s1, y)
           b == Append(Kept(s1), y)
<1>1. /\ MaxMessages \in Nat /\ Len(s) \in Nat
      /\ s1 \in Seq(Nat) /\ Len(s1) = Len(s) + 1
  BY DEF M!MemoryConstants
<1> HIDE DEF s1
<1>2. a \in Seq(Nat) /\ Len(a) = Len(s1) + 1
  BY <1>1
<1> HIDE DEF a, b
<1>3. CASE Len(s1) <= MaxMessages
  <2>1. Kept(s1) = s1
    BY <1>1, <1>3 DEF Kept
  <2> QED
    BY <2>1 DEF a, b, s1
<1>4. CASE Len(s1) = MaxMessages + 1
  <2>1. Kept(s1) = M!LastOf(s1, MaxMessages) /\ MaxMessages \in 0 .. Len(s1)
    BY <1>1, <1>4 DEF Kept
  <2>2. b = M!LastOf(a, MaxMessages + 1)
    BY <1>1, <2>1, LastOfAppended DEF a, b
  <2>3. MaxMessages + 1 \in 0 .. Len(a) /\ MaxMessages \in 0 .. MaxMessages + 1
    BY <1>1, <1>2, <1>4
  <2>4. Len(b) = MaxMessages + 1
    BY <1>2, <2>2, <2>3, LastOfFields
  <2>5. M!LastOf(b, MaxMessages) = M!LastOf(a, MaxMessages)
    BY <1>2, <2>2, <2>3, LastOfLast
  <2>6. Kept(b) = M!LastOf(b, MaxMessages)
    BY <1>1, <2>4 DEF Kept
  <2>7. Kept(a) = M!LastOf(a, MaxMessages)
    BY <1>1, <1>2, <1>4 DEF Kept
  <2> QED
    BY <2>5, <2>6, <2>7 DEF a, b, s1
<1> QED
  BY <1>1, <1>3, <1>4

(* Saying something keeps what is kept recent.                               *)
LEMMA SaysKeeps ==
  ASSUME M!MemoryConstants, HistoriesFit, NEW c \in Chat, M!Says(c)
  PROVE  HistoriesFit'
<1>1. /\ rows \in [Chat -> Seq(Nat)] /\ said \in [Chat -> Seq(Nat)]
      /\ \A d \in Chat : Recent(rows[d], said[d])
      /\ said[c] \in Seq(Nat) /\ Len(said[c]) <= MaxMessages
      /\ MaxTokens \in Nat /\ Size \subseteq Nat
  BY DEF HistoriesFit, Recent, M!MemoryConstants
<1>2. PICK sizes \in {<<>>} \cup {<<t>> : t \in Size} \cup (Size \X Size) :
        LET one == IF sizes = <<>> THEN rows[c]
                   ELSE M!Trimmed(Append(rows[c], M!Clipped(sizes[1])))
            both == IF Len(sizes) < 2 THEN one
                    ELSE M!Trimmed(Append(one, M!Clipped(sizes[2])))
            all == said[c] \o [i \in DOMAIN sizes |->
                                 IF sizes[i] > MaxTokens THEN MaxTokens ELSE sizes[i]]
        IN /\ rows' = [rows EXCEPT ![c] = both]
           /\ said' = [said EXCEPT ![c] =
                         IF Len(all) > MaxMessages THEN M!LastOf(all, MaxMessages) ELSE all]
  BY DEF M!Says
<1> DEFINE one == IF sizes = <<>> THEN rows[c]
                  ELSE M!Trimmed(Append(rows[c], M!Clipped(sizes[1])))
           both == IF Len(sizes) < 2 THEN one
                   ELSE M!Trimmed(Append(one, M!Clipped(sizes[2])))
           new == [i \in DOMAIN sizes |->
                     IF sizes[i] > MaxTokens THEN MaxTokens ELSE sizes[i]]
           all == said[c] \o new
<1>3. rows' = [rows EXCEPT ![c] = both] /\ said' = [said EXCEPT ![c] = Kept(all)]
  BY <1>2 DEF Kept
<1>4. \A t \in Size : /\ M!Clipped(t) \in Nat /\ M!Clipped(t) <= MaxTokens
                      /\ M!Clipped(t) = IF t > MaxTokens THEN MaxTokens ELSE t
  BY <1>1 DEF M!Clipped
<1>5. Recent(both, Kept(all))
  <2>1. CASE sizes = <<>>
    <3>1. new = <<>> /\ Len(sizes) < 2 /\ both = rows[c]
      BY <2>1
    <3> HIDE DEF new, both
    <3>2. all = said[c]
      BY <1>1, <3>1, ConcatEmptySeq
    <3>3. Kept(all) = said[c]
      BY <1>1, <3>2, KeptFields
    <3> QED
      BY <1>1, <3>1, <3>3
  <2>2. ASSUME NEW t \in Size, sizes = <<t>> PROVE Recent(both, Kept(all))
    <3>1. both = M!Trimmed(Append(rows[c], M!Clipped(t)))
      BY <2>2
    <3>2. new = <<M!Clipped(t)>>
      BY <1>4, <2>2
    <3> HIDE DEF new, both
    <3>3. all = Append(said[c], M!Clipped(t))
      BY <1>1, <1>4, <3>2
    <3> HIDE DEF all
    <3> QED
      BY <1>1, <1>4, <3>1, <3>3, AppendKeepsRecent
  <2>3. ASSUME NEW t \in Size, NEW u \in Size, sizes = <<t, u>>
        PROVE  Recent(both, Kept(all))
    <3>1. both = M!Trimmed(Append(M!Trimmed(Append(rows[c], M!Clipped(t))), M!Clipped(u)))
      BY <2>3
    <3>2. new = <<M!Clipped(t), M!Clipped(u)>>
      BY <1>4, <2>3
    <3> HIDE DEF new, both
    <3>3. all = Append(Append(said[c], M!Clipped(t)), M!Clipped(u))
      BY <1>1, <1>4, <3>2
    <3> HIDE DEF all
    <3>4. Recent(M!Trimmed(Append(rows[c], M!Clipped(t))),
                 Kept(Append(said[c], M!Clipped(t))))
      BY <1>1, <1>4, AppendKeepsRecent
    <3>5. Recent(both, Kept(Append(Kept(Append(said[c], M!Clipped(t))), M!Clipped(u))))
      BY <1>4, <3>1, <3>4, AppendKeepsRecent
    <3> QED
      BY <1>1, <1>4, <3>3, <3>5, KeptTwice
  <2> QED
    BY <2>1, <2>2, <2>3
<1>6. both \in Seq(Nat) /\ Kept(all) \in Seq(Nat)
  BY <1>5 DEF Recent
<1> HIDE DEF both, all
<1> QED
  BY <1>1, <1>3, <1>5, <1>6 DEF HistoriesFit

(* A session's end forgets it.                                               *)
LEMMA ForgetKeeps ==
  ASSUME M!MemoryConstants, HistoriesFit, NEW cs, M!Forget(cs)
  PROVE  HistoriesFit'
<1>1. /\ rows' = [c \in Chat |-> IF c \in cs THEN <<>> ELSE rows[c]]
      /\ said' = [c \in Chat |-> IF c \in cs THEN <<>> ELSE said[c]]
  BY DEF M!Forget
<1>2. Recent(<<>>, <<>>) /\ <<>> \in Seq(Nat)
  BY NothingIsRecent
<1>3. \A c \in Chat : Recent(rows'[c], said'[c])
  BY <1>1, <1>2 DEF HistoriesFit
<1> QED
  BY <1>1, <1>2, <1>3 DEF HistoriesFit

(* A history is no longer than the limit on messages.                        *)
LEMMA RecentFits ==
  ASSUME M!MemoryConstants, NEW rs, NEW sd, Recent(rs, sd)
  PROVE  Len(rs) <= MaxMessages /\ Len(sd) <= MaxMessages
<1>1. /\ rs \in Seq(Nat) /\ sd \in Seq(Nat)
      /\ Len(sd) <= MaxMessages /\ Len(rs) <= Len(sd)
  BY DEF Recent
<1>2. MaxMessages \in Nat /\ Len(rs) \in Nat /\ Len(sd) \in Nat
  BY <1>1 DEF M!MemoryConstants
<1> QED
  BY <1>1, <1>2

(* What the steps that leave the proposals and records alone keep.           *)
LEMMA TalksKeep ==
  ASSUME MemoryInv, M!MemoryConstants, HistoriesFit', M!MembersTypeOK',
         talkIn' \in [Chat -> 0 .. MaxSession], started' \in 0 .. MaxSession,
         proposals' \in {<<>>, proposals}, offered' = offered,
         kept' \in M!Record
  PROVE  MemoryInv'
<1>1. \A c \in Chat : Len(rows'[c]) <= MaxMessages /\ Len(said'[c]) <= MaxMessages
  BY RecentFits DEF HistoriesFit
<1>2. /\ proposals' \in {<<>>, <<offered'>>}
      /\ \A i \in DOMAIN proposals' : proposals'[i] \in M!Proposal
      /\ offered' \in M!Proposal \cup {Nothing}
  BY DEF MemoryInv, M!MemoryTypeOK
<1> QED
  BY <1>1, <1>2 DEF MemoryInv, M!MemoryTypeOK

(* The members stay what they are.                                           *)
LEMMA MembersStay ==
  ASSUME M!MembersTypeOK, UNCHANGED M!memberVars
  PROVE  M!MembersTypeOK'
BY DEF M!MembersTypeOK, M!memberVars, M!MemberRole, M!Assignable

(* Sessions begin and end.                                                   *)
LEMMA SessionsKeep ==
  ASSUME MemoryInv, M!MemoryConstants,
         M!Switch \/ \E c \in Chat : M!Greet(c) \/ M!NewSession(c) \/ M!Clear(c)
  PROVE  MemoryInv' /\ kept' = kept
<1>1. /\ talkIn \in [Chat -> 0 .. MaxSession] /\ started \in 0 .. MaxSession
      /\ MaxSession \in Nat /\ M!MembersTypeOK /\ HistoriesFit /\ kept \in M!Record
  BY DEF MemoryInv, M!MemoryTypeOK, M!MemoryConstants
<1>2. \A c \in Chat : M!Begin(c) => /\ talkIn' \in [Chat -> 0 .. MaxSession]
                                    /\ started' \in 0 .. MaxSession
  BY <1>1 DEF M!Begin
<1>3. ASSUME NEW c \in Chat, M!Greet(c) PROVE MemoryInv' /\ kept' = kept
  <2>1. HistoriesFit'
    BY <1>1, <1>3 DEF M!Greet, HistoriesFit
  <2>2. M!MembersTypeOK'
    BY <1>1, <1>3, MembersStay DEF M!Greet
  <2> QED
    BY <1>1, <1>2, <1>3, <2>1, <2>2, TalksKeep DEF M!Greet
<1>4. ASSUME NEW c \in Chat, M!NewSession(c) PROVE MemoryInv' /\ kept' = kept
  <2>1. HistoriesFit'
    BY <1>1, <1>4, ForgetKeeps DEF M!NewSession
  <2>2. M!MembersTypeOK'
    BY <1>1, <1>4, MembersStay DEF M!NewSession
  <2>3. talkIn' \in [Chat -> 0 .. MaxSession] /\ started' \in 0 .. MaxSession
    BY <1>1, <1>2, <1>4 DEF M!NewSession
  <2> QED
    BY <1>1, <1>4, <2>1, <2>2, <2>3, TalksKeep DEF M!NewSession
<1>5. ASSUME NEW c \in Chat, M!Clear(c) PROVE MemoryInv' /\ kept' = kept
  <2>1. HistoriesFit'
    BY <1>1, <1>5, ForgetKeeps DEF M!Clear
  <2>2. M!MembersTypeOK'
    BY <1>1, <1>5, MembersStay DEF M!Clear
  <2>3. talkIn' \in [Chat -> 0 .. MaxSession] /\ started' \in 0 .. MaxSession
    BY <1>1, <1>5 DEF M!Clear
  <2>4. proposals' \in {<<>>, proposals}
    BY <1>5, OthersOfOne, OthersOfNone DEF M!Clear, MemoryInv
  <2> QED
    BY <1>1, <1>5, <2>1, <2>2, <2>3, <2>4, TalksKeep DEF M!Clear
<1>6. ASSUME M!Switch PROVE MemoryInv' /\ kept' = kept
  <2>1. HistoriesFit'
    BY <1>1, <1>6, ForgetKeeps DEF M!Switch
  <2>2. M!MembersTypeOK'
    <3>1. MembersTypeOK'
      BY <1>1, <1>6, SameMembers, SameMemberSteps, MemberStepsTyped DEF M!Switch
    <3> QED
      BY <3>1 DEF M!MembersTypeOK, MembersTypeOK, M!MemberRole, MemberRole, M!Assignable,
         Assignable
  <2>3. talkIn' \in [Chat -> 0 .. MaxSession] /\ started' \in 0 .. MaxSession
    BY <1>1, <1>6 DEF M!Switch
  <2> QED
    BY <1>1, <1>6, <2>1, <2>2, <2>3, TalksKeep DEF M!Switch
<1> QED
  BY <1>3, <1>4, <1>5, <1>6

(* Messages, and records that change without a proposal.                     *)
LEMMA MessagesKeep ==
  ASSUME MemoryInv, M!MemoryConstants,
         \/ \E c \in Chat : M!Talk(c)
         \/ M!SetPreference \/ M!OthersSave \/ M!RoleChange
  PROVE  MemoryInv' /\ proposals' = proposals
<1>1. /\ talkIn \in [Chat -> 0 .. MaxSession] /\ started \in 0 .. MaxSession
      /\ M!MembersTypeOK /\ HistoriesFit /\ kept \in M!Record
  BY DEF MemoryInv, M!MemoryTypeOK
<1>2. ASSUME NEW c \in Chat, M!Talk(c) PROVE MemoryInv' /\ proposals' = proposals
  <2>1. HistoriesFit'
    BY <1>1, <1>2, SaysKeeps DEF M!Talk
  <2>2. M!MembersTypeOK'
    BY <1>1, <1>2, MembersStay DEF M!Talk
  <2> QED
    BY <1>1, <1>2, <2>1, <2>2, TalksKeep DEF M!Talk
<1>3. ASSUME M!SetPreference \/ M!OthersSave PROVE MemoryInv' /\ proposals' = proposals
  <2>1. UNCHANGED <<M!memberVars, talkIn, started, rows, said, proposals, offered>>
    BY <1>3 DEF M!SetPreference, M!OthersSave, M!talkVars
  <2>2. kept' \in M!Record
    BY <1>1, <1>3 DEF M!SetPreference, M!OthersSave, M!Record, M!Subject
  <2>3. HistoriesFit' /\ M!MembersTypeOK'
    BY <1>1, <2>1, MembersStay DEF HistoriesFit
  <2> QED
    BY <1>1, <2>1, <2>2, <2>3, TalksKeep
<1>4. ASSUME M!RoleChange PROVE MemoryInv' /\ proposals' = proposals
  <2>1. UNCHANGED <<talkIn, started, rows, said, proposals, offered, kept>>
    BY <1>4 DEF M!RoleChange, M!talkVars
  <2>2. M!MembersTypeOK'
    <3>1. MembersTypeOK'
      BY <1>1, <1>4, SameMembers, SameMemberSteps, MemberStepsTyped DEF M!RoleChange
    <3> QED
      BY <3>1 DEF M!MembersTypeOK, MembersTypeOK, M!MemberRole, MemberRole, M!Assignable,
         Assignable
  <2>3. HistoriesFit'
    BY <1>1, <2>1 DEF HistoriesFit
  <2> QED
    BY <1>1, <2>1, <2>2, <2>3, TalksKeep
<1> QED
  BY <1>2, <1>3, <1>4

(* A proposal is put in the place of the earlier one.                        *)
LEMMA ProposeKeeps ==
  ASSUME MemoryInv, M!MemoryConstants, NEW c \in Chat, M!Propose(c)
  PROVE  MemoryInv' /\ kept' = kept
<1>1. /\ talkIn \in [Chat -> 0 .. MaxSession] /\ started \in 0 .. MaxSession
      /\ M!MembersTypeOK /\ HistoriesFit /\ kept \in M!Record /\ MaxSession \in Nat
  BY DEF MemoryInv, M!MemoryTypeOK, M!MemoryConstants
<1>2. PICK what \in M!Candidate :
        /\ LET p == [chat |-> c, session |-> talkIn[c], what |-> what]
           IN proposals' = M!Replaced(p) /\ offered' = p
        /\ IF what.value = Nothing THEN UNCHANGED <<rows, said>> ELSE M!Says(c)
  BY DEF M!Propose
<1> DEFINE p == [chat |-> c, session |-> talkIn[c], what |-> what]
<1>3. proposals' = <<p>> /\ offered' = p
  BY <1>2 DEF M!Replaced
<1>4. UNCHANGED <<M!memberVars, talkIn, started, kept>> /\ talkIn[c] # 0
  BY DEF M!Propose, M!InSession
<1>5. p \in M!Proposal
  <2>1. talkIn[c] \in 1 .. MaxSession
    BY <1>1, <1>4
  <2> QED
    BY <1>2, <2>1 DEF M!Proposal
<1> HIDE DEF p
<1>6. HistoriesFit'
  <2>1. CASE UNCHANGED <<rows, said>>
    BY <1>1, <2>1 DEF HistoriesFit
  <2>2. CASE M!Says(c)
    BY <1>1, <2>2, SaysKeeps
  <2> QED
    BY <1>2, <2>1, <2>2
<1>7. \A d \in Chat : Len(rows'[d]) <= MaxMessages /\ Len(said'[d]) <= MaxMessages
  BY <1>6, RecentFits DEF HistoriesFit
<1>8. M!MembersTypeOK'
  BY <1>1, <1>4, MembersStay
<1>9. /\ proposals' \in {<<>>, <<offered'>>}
      /\ \A i \in DOMAIN proposals' : proposals'[i] \in M!Proposal
      /\ offered' \in M!Proposal \cup {Nothing}
  BY <1>3, <1>5
<1> QED
  BY <1>1, <1>4, <1>6, <1>7, <1>8, <1>9 DEF MemoryInv, M!MemoryTypeOK

(* The one proposal is taken away.                                           *)
LEMMA OneIsTaken ==
  ASSUME proposals \in {<<>>, <<offered>>}, NEW i \in DOMAIN proposals
  PROVE  proposals = <<offered>> /\ proposals[i] = offered
         /\ M!RemoveAt(proposals, i) = <<>>
<1>1. proposals = <<offered>> /\ DOMAIN proposals = 1 .. 1 /\ i = 1
      /\ proposals[i] = offered
  OBVIOUS
<1>2. proposals \in Seq({offered}) /\ Len(proposals) = 1
  BY <1>1
<1>3. M!RemoveAt(proposals, i) = RemoveAt(proposals, i)
  BY DEF M!RemoveAt, RemoveAt
<1>4. RemoveAt(proposals, i) \in Seq({offered}) /\ Len(RemoveAt(proposals, i)) = 0
  <2>1. i \in 1 .. Len(proposals)
    BY <1>1, <1>2
  <2>2. /\ RemoveAt(proposals, i) \in Seq({offered})
        /\ Len(RemoveAt(proposals, i)) = Len(proposals) - 1
    BY <1>2, <2>1, RemoveAtFields
  <2> QED
    BY <1>2, <2>2
<1> QED
  BY <1>1, <1>3, <1>4

(* The proposal that is taken is the one that was put last, in this chat and *)
(* session.                                                                  *)
LEMMA TakesTheOne ==
  ASSUME proposals \in {<<>>, <<offered>>}, NEW c \in Chat, M!Takes(c)
  PROVE  /\ proposals = <<offered>> /\ proposals' = <<>> /\ offered' = Nothing
         /\ proposals[M!Newest(c)] = offered
         /\ offered.chat = c /\ offered.session = talkIn[c] /\ M!Authorized(Me)
<1> DEFINE own == {i \in DOMAIN proposals : proposals[i].chat = c}
           n == M!Newest(c)
<1>1. /\ n # 0 /\ proposals[n].session = talkIn[c] /\ M!Authorized(Me)
      /\ proposals' = M!RemoveAt(proposals, n) /\ offered' = Nothing
  BY DEF M!Takes, M!InSession
<1>2. n = IF own = {} THEN 0 ELSE CHOOSE i \in own : \A j \in own : j <= i
  BY DEF M!Newest
<1> HIDE DEF n
<1>3. own # {}
  BY <1>1, <1>2
<1>4. DOMAIN proposals = {1} /\ own = {1}
  <2>1. proposals = <<offered>>
    BY <1>3
  <2>2. DOMAIN proposals = 1 .. 1 /\ 1 .. 1 = {1}
    BY <2>1
  <2> QED
    BY <1>3, <2>2
<1>5. n = 1
  <2>1. \E i \in own : \A j \in own : j <= i
    BY <1>4
  <2> HIDE DEF own
  <2>2. n \in own
    BY <1>2, <1>3, <2>1
  <2> QED
    BY <1>4, <2>2
<1>6. n \in DOMAIN proposals /\ n \in own
  BY <1>4, <1>5
<1>7. /\ proposals = <<offered>> /\ proposals[n] = offered
      /\ M!RemoveAt(proposals, n) = <<>>
  BY <1>6, OneIsTaken
<1> QED
  BY <1>1, <1>6, <1>7 DEF n

(* A proposal is answered or expires.                                        *)
LEMMA AnswersEnd ==
  ASSUME MemoryInv, M!MemoryConstants,
         M!Expire \/ \E c \in Chat : M!Confirm(c) \/ M!Cancel(c)
  PROVE  MemoryInv' /\ (kept' # kept => M!SavesAsProposed)
<1>1. /\ talkIn \in [Chat -> 0 .. MaxSession] /\ started \in 0 .. MaxSession
      /\ M!MembersTypeOK /\ HistoriesFit /\ kept \in M!Record
      /\ proposals \in {<<>>, <<offered>>}
      /\ \A i \in DOMAIN proposals : proposals[i] \in M!Proposal
      /\ \A c \in Chat : Len(rows[c]) <= MaxMessages /\ Len(said[c]) <= MaxMessages
      /\ offered \in M!Proposal \cup {Nothing} /\ Nothing \notin M!Proposal
  BY DEF MemoryInv, M!MemoryTypeOK, M!MemoryConstants
<1>2. UNCHANGED <<M!memberVars, talkIn, started, rows, said>>
  BY DEF M!Expire, M!Confirm, M!Cancel, M!talkVars
<1>3. M!MembersTypeOK' /\ HistoriesFit'
  BY <1>1, <1>2, MembersStay DEF HistoriesFit
<1>4. ASSUME proposals' = <<>>, offered' \in {offered, Nothing}, kept' \in M!Record
      PROVE  MemoryInv'
  <2>1. \A i \in DOMAIN proposals' : proposals'[i] \in M!Proposal
    BY <1>4
  <2>2. offered' \in M!Proposal \cup {Nothing} /\ proposals' \in {<<>>, <<offered'>>}
    BY <1>1, <1>4
  <2> QED
    BY <1>1, <1>2, <1>3, <1>4, <2>1, <2>2 DEF MemoryInv, M!MemoryTypeOK
<1>5. ASSUME M!Expire PROVE MemoryInv' /\ kept' = kept
  <2>1. PICK i \in DOMAIN proposals :
          /\ proposals' = M!RemoveAt(proposals, i)
          /\ offered' = IF offered = proposals[i] THEN Nothing ELSE offered
    BY <1>5 DEF M!Expire
  <2>2. M!RemoveAt(proposals, i) = <<>>
    BY <1>1, OneIsTaken
  <2> QED
    BY <1>1, <1>4, <1>5, <2>1, <2>2 DEF M!Expire
<1>6. ASSUME NEW c \in Chat, M!Cancel(c) PROVE MemoryInv' /\ kept' = kept
  <2>1. M!Takes(c) /\ kept' = kept
    BY <1>6 DEF M!Cancel
  <2>2. proposals' = <<>> /\ offered' = Nothing
    BY <1>1, <2>1, TakesTheOne
  <2> QED
    BY <1>1, <1>4, <2>1, <2>2
<1>7. ASSUME NEW c \in Chat, M!Confirm(c)
      PROVE  MemoryInv' /\ (kept' # kept => M!SavesAsProposed)
  <2> DEFINE what == proposals[M!Newest(c)].what
  <2>1. /\ M!Takes(c)
        /\ M!Saves(what) \/ M!SwitchesOff(what) \/ M!ForgetPreference(what)
           \/ UNCHANGED kept
    BY <1>7 DEF M!Confirm
  <2>2. /\ proposals = <<offered>> /\ proposals' = <<>> /\ offered' = Nothing
        /\ what = offered.what /\ offered.chat = c /\ offered.session = talkIn[c]
        /\ M!Authorized(Me)
    BY <1>1, <2>1, TakesTheOne
  <2>3. offered \in M!Proposal /\ offered # Nothing
    <3>1. 1 \in DOMAIN proposals /\ proposals[1] = offered
      BY <2>2
    <3> QED
      BY <1>1, <3>1
  <2> HIDE DEF what
  <2>4. what \in M!Candidate
    BY <2>2, <2>3 DEF M!Proposal
  <2>5. what.of \in M!Subject /\ what.value \in Value \cup {Nothing}
    BY <2>4 DEF M!Candidate
  <2>6. kept' # kept =>
          /\ M!Can(Me, M!Needs(what))
          /\ kept' = [kept EXCEPT ![what.of] = what.value]
    <3>1. M!Saves(what) => /\ M!Can(Me, M!Needs(what))
                           /\ kept' = [kept EXCEPT ![what.of] = what.value]
      BY DEF M!Saves
    <3>2. M!SwitchesOff(what) => /\ M!Can(Me, M!Needs(what))
                                 /\ kept' = [kept EXCEPT ![what.of] = what.value]
      <4>1. M!SwitchesOff(what) => /\ what = [of |-> "rule", value |-> Nothing]
                                   /\ M!Can(Me, M!Needs(what))
                                   /\ kept' = [kept EXCEPT !["rule"] = Nothing]
        BY DEF M!SwitchesOff
      <4>2. what = [of |-> "rule", value |-> Nothing] =>
              what.of = "rule" /\ what.value = Nothing
        OBVIOUS
      <4> QED
        BY <4>1, <4>2
    <3>3. M!ForgetPreference(what) => /\ M!Can(Me, M!Needs(what))
                                      /\ kept' = [kept EXCEPT ![what.of] = what.value]
      <4>1. M!ForgetPreference(what) =>
              /\ what = [of |-> "preference", value |-> Nothing]
              /\ kept' = [kept EXCEPT !["preference"] = Nothing]
        BY DEF M!ForgetPreference
      <4>2. what = [of |-> "preference", value |-> Nothing] =>
              what.of = "preference" /\ what.value = Nothing
        OBVIOUS
      <4>3. what.of = "preference" => M!Needs(what) = "workshop.read"
        BY DEF M!Needs
      <4>4. M!Can(Me, "workshop.read")
        BY <2>2 DEF M!Authorized
      <4> QED
        BY <4>1, <4>2, <4>3, <4>4
    <3> QED
      BY <2>1, <3>1, <3>2, <3>3
  <2>7. kept' \in M!Record
    BY <1>1, <2>5, <2>6 DEF M!Record
  <2>8. kept' # kept => M!SavesAsProposed
    BY <2>2, <2>3, <2>6 DEF M!SavesAsProposed
  <2> QED
    BY <1>4, <2>2, <2>7, <2>8
<1> QED
  BY <1>5, <1>6, <1>7

(* Every step of the memory keeps its invariant, and a record changes with   *)
(* the proposals only as proposed.                                           *)
LEMMA MemoryKept ==
  ASSUME M!MemoryConstants, MemoryInv, [M!MemoryNext]_(M!memoryVars)
  PROVE  MemoryInv' /\ [M!SavesAsProposed]_kept
<1>1. CASE M!Switch \/ \E c \in Chat : M!Greet(c) \/ M!NewSession(c) \/ M!Clear(c)
  BY <1>1, SessionsKeep
<1>2. CASE \/ \E c \in Chat : M!Talk(c)
           \/ M!SetPreference \/ M!OthersSave \/ M!RoleChange
  <2>1. MemoryInv' /\ proposals' = proposals
    BY <1>2, MessagesKeep
  <2> QED
    BY <2>1 DEF M!SavesAsProposed
<1>3. CASE \E c \in Chat : M!Propose(c)
  BY <1>3, ProposeKeeps
<1>4. CASE M!Expire \/ \E c \in Chat : M!Confirm(c) \/ M!Cancel(c)
  BY <1>4, AnswersEnd
<1>5. CASE UNCHANGED M!memoryVars
  BY <1>5 DEF M!memoryVars, M!memberVars, M!talkVars, MemoryInv, M!MemoryTypeOK,
     M!MembersTypeOK, HistoriesFit
<1> QED
  BY <1>1, <1>2, <1>3, <1>4, <1>5 DEF M!MemoryNext

(* The memory begins empty.                                                  *)
LEMMA MemoryBegins ==
  ASSUME M!MemoryConstants, M!MemoryInit
  PROVE  MemoryInv
<1>1. M!MembersTypeOK
  <2>1. MembersTypeOK
    BY SameMembers, SameMemberSteps, FirstMembersTyped DEF M!MemoryInit
  <2> QED
    BY <2>1, SameMembers
<1>2. /\ talkIn = [c \in Chat |-> 0] /\ started = 0
      /\ rows = [c \in Chat |-> <<>>] /\ said = [c \in Chat |-> <<>>]
      /\ proposals = <<>> /\ offered = Nothing
      /\ kept = [s \in M!Subject |-> Nothing] /\ MaxSession \in Nat /\ MaxMessages \in Nat
  BY DEF M!MemoryInit, M!MemoryConstants
<1>3. HistoriesFit
  <2>1. Recent(<<>>, <<>>) /\ <<>> \in Seq(Nat)
    BY NothingIsRecent
  <2> QED
    BY <1>2, <2>1 DEF HistoriesFit
<1>4. \A c \in Chat : Len(rows[c]) <= MaxMessages /\ Len(said[c]) <= MaxMessages
  BY <1>2
<1>5. kept \in M!Record
  BY <1>2 DEF M!Record
<1>6. \A i \in DOMAIN proposals : proposals[i] \in M!Proposal
  BY <1>2
<1> QED
  BY <1>1, <1>2, <1>3, <1>4, <1>5, <1>6 DEF MemoryInv, M!MemoryTypeOK

(* The invariant of the memory: its types, at most the one proposal that was *)
(* put last, and of every session the rows that say what was said last in it *)
(* (Propose, TakeProposal, AppendShortTerm).                                 *)
THEOREM MemoryInvariance ==
  ASSUME M!MemoryConstants
  PROVE  M!MemorySpec => []MemoryInv
<1>1. M!MemoryInit => MemoryInv
  BY MemoryBegins
<1>2. MemoryInv /\ [M!MemoryNext]_(M!memoryVars) => MemoryInv'
  BY MemoryKept
<1> QED
  BY <1>1, <1>2, PTL DEF M!MemorySpec

(* What is read of a session is the longest run of its last messages within  *)
(* both limits, and the newest is always part of it (AppendShortTerm,        *)
(* ShortTerm).                                                               *)
LEMMA HistoriesFollow ==
  ASSUME M!MemoryConstants, MemoryInv
  PROVE  M!HistoriesAgree
<1>1. M!HistoryIsRecent
  <2> SUFFICES ASSUME NEW c \in Chat
               PROVE  \E n \in 0 .. Len(said[c]) :
                        /\ M!ShortTerm(c) = M!LastOf(said[c], n)
                        /\ M!Total(M!LastOf(said[c], n)) <= MaxTokens
                        /\ n < Len(said[c]) =>
                             n > 0 /\ ~(M!Total(M!LastOf(said[c], n + 1)) <= MaxTokens)
    BY DEF M!HistoryIsRecent
  <2> DEFINE rs == rows[c]
             sd == said[c]
             n == Len(rs)
  <2>1. Recent(rs, sd)
    BY DEF MemoryInv, HistoriesFit
  <2>2. M!ShortTerm(c) = rs
    BY <2>1, Recalled DEF M!ShortTerm
  <2> HIDE DEF rs, sd
  <2>3. /\ n \in Nat /\ Len(sd) \in Nat /\ n <= Len(sd) /\ MaxTokens \in Nat
        /\ rs = M!LastOf(sd, n)
        /\ \A k \in 0 .. n : M!Total(M!LastOf(sd, k)) <= MaxTokens
        /\ n < Len(sd) => n > 0 /\ M!Total(M!LastOf(sd, n + 1)) > MaxTokens
    BY <2>1 DEF Recent, M!MemoryConstants
  <2> HIDE DEF n
  <2>4. n \in 0 .. Len(sd) /\ n \in 0 .. n
    BY <2>3
  <2>5. n < Len(sd) => ~(M!Total(M!LastOf(sd, n + 1)) <= MaxTokens)
    <3>1. ASSUME n < Len(sd) PROVE M!Total(M!LastOf(sd, n + 1)) \in Int
      <4>1. sd \in Seq(Nat) /\ n + 1 \in 0 .. Len(sd)
        BY <2>1, <2>3, <3>1 DEF Recent
      <4>2. M!LastOf(sd, n + 1) \in Seq(Nat)
        BY <4>1, LastOfFields
      <4>3. M!LastOf(sd, n + 1) \in Seq(Int) /\ 0 \in Int
        BY <4>2
      <4> QED
        BY <4>3, TotalOfAppended
    <3> QED
      BY <2>3, <3>1
  <2> QED
    BY <2>2, <2>3, <2>4, <2>5 DEF rs, sd
<1> QED
  BY <1>1 DEF MemoryInv, M!HistoriesAgree

-----------------------------------------------------------------------------
(* Forms.                                                                    *)

\* What a composition button would write.
Composed(c) == IF c.action = "remove" THEN 0 ELSE Base(c.unit, c.n)

\* What a button of a screen will do is what the screen says.
ChoiceFits(b, fr) ==
  \/ /\ b[1] = "material_unit_confirm" /\ b[2] \in Unit
     /\ fr.state.kind = "material_unit" /\ fr.state.stage = 1
  \/ /\ b[1] = "material_unit_save" /\ b[2] \in Unit
     /\ fr.state.kind = "material_unit" /\ fr.state.stage = 2
  \/ /\ b[1] = "product_edit_save" /\ fr.state.kind = "product_edit"
     /\ LET e == fr.state.edit IN fr.says = Edits(e.expected, Adjusted(e.how, e.expected, e.n))
  \/ /\ b[1] = "product_edit_bom_save" /\ fr.state.kind = "product_edit"
     /\ LET c == fr.state.composition
        IN /\ c \in Composition /\ Composed(c) \in Amount
           /\ fr.says = Composes(c.version[1], Composed(c))
  \/ /\ b[1] = "product_edit_bom" /\ b[2] \in {"add", "update", "remove"}
     /\ fr.state.kind = "product_edit" /\ fr.state.composition \in Composition
  \/ /\ b[1] = "product_edit_type" /\ b[2] \in Typed
     /\ fr.state.kind = "product_edit"
  \/ /\ b[1] \in {"product_edit_back", "product_edit_field", "product_edit_bom_open",
                  "product_edit_bom_back"}
     /\ fr.state.kind = "product_edit"

FrameFits(fr) ==
  /\ fr.state \in Form
  /\ \A b \in fr.choices : ChoiceFits(b, fr)
  /\ fr.state.kind = "material_stock" =>
       /\ fr.state.stage \in {0, 1}
       /\ fr.says = Prompt \/ (fr.state.stage = 1 /\ fr.says = Counts(fr.state.unit))

\* A step that "Back" may return to is not the last one of a creation, nor the
\* confirmation of a unit.
LeftFits(fr, kind) ==
  /\ FrameFits(fr)
  /\ fr.state.kind = kind
  /\ kind \in {"material", "product"} => fr.state.stage # 5
  /\ kind = "material_unit" => fr.state.stage # 2

IsSeq(s) == \E S : s \in Seq(S)
Navigation == {"form_cancel", "form_home", "form_back", "form_continue", "form_task"}

NavFits ==
  /\ nav.current.state = form /\ FrameFits(nav.current)
  /\ IsSeq(nav.back)
  /\ \A i \in 1 .. Len(nav.back) : LeftFits(nav.back[i], form.kind)
  /\ \A b \in live : b \in nav.current.choices \/ b[1] \in Navigation
  /\ nav.back = <<>> => <<"form_back">> \notin live

\* The amounts of a stock are asked and asked again: the steps alternate, and
\* the one that "Back" leads to asks in the unit that was shown last.
StockFits(f, back, s) ==
  /\ f.stage = 1 => s = Counts(f.unit)
  /\ back # <<>> =>
       LET left == back[Len(back)].state
       IN left.stage # f.stage /\ (left.stage = 1 => s = Counts(left.unit))
  /\ \A i \in 1 .. Len(back) - 1 : back[i].state.stage # back[i + 1].state.stage

\* The last proposal is the one of the step on the screen.
SeenFits ==
  /\ nav.current.says # Prompt => seen = nav.current.says
  /\ form.kind \in {"material", "product"} /\ form.stage = 5 => seen = Creates(form.draft)
  /\ \A b \in nav.current.choices : b[1] = "material_unit_save" => seen = Displays(b[2])
  /\ form.kind = "material_stock" => StockFits(form, nav.back, seen)

ScreenFits ==
  /\ form \in Form \cup {NoForm}
  /\ lapsed \subseteq {"time", "session"}
  /\ form # NoForm => NavFits /\ SeenFits

StoreTypeOK ==
  store \in [field : Amount, composed : Amount, stock : Amount, unit : Unit,
             saved : Draft \cup {NoDraft}]

FormInv == MembersTypeOK /\ StoreTypeOK /\ ScreenFits

(* A step is added to the steps left behind, and the last is taken again.    *)
LEMMA Stacked ==
  ASSUME NEW s, NEW x, IsSeq(s)
  PROVE  /\ IsSeq(Append(s, x)) /\ Len(s) \in Nat
         /\ Len(Append(s, x)) = Len(s) + 1
         /\ Append(s, x)[Len(s) + 1] = x
         /\ \A i \in 1 .. Len(s) : Append(s, x)[i] = s[i]
         /\ Append(s, x) # <<>>
<1>1. PICK S : s \in Seq(S)
  BY DEF IsSeq
<1> DEFINE T == S \cup {x}
           t == Append(s, x)
<1>2. s \in Seq(T)
  BY <1>1
<1>3. t \in Seq(T) /\ Len(t) = Len(s) + 1 /\ t[Len(s) + 1] = x /\ Len(s) \in Nat
  BY <1>2
<1>4. \A i \in 1 .. Len(s) : t[i] = s[i]
  BY <1>2
<1>5. t # <<>>
  BY <1>3
<1> QED
  BY <1>3, <1>4, <1>5 DEF IsSeq

(* The steps before the last are left as they were.                          *)
LEMMA Unstacked ==
  ASSUME NEW s, IsSeq(s), s # <<>>
  PROVE  LET t == SubSeq(s, 1, Len(s) - 1)
         IN /\ IsSeq(t) /\ Len(s) \in Nat \ {0}
            /\ Len(t) = Len(s) - 1
            /\ \A i \in 1 .. Len(t) : t[i] = s[i]
<1>1. PICK S : s \in Seq(S)
  BY DEF IsSeq
<1> DEFINE t == SubSeq(s, 1, Len(s) - 1)
<1>2. Len(s) \in Nat \ {0}
  BY <1>1
<1>3. ASSUME NEW i \in 1 .. Len(s)
      PROVE  LET u == SubSeq(s, 1, i - 1)
             IN u \in Seq(S) /\ Len(u) = i - 1 /\ \A k \in 1 .. i - 1 : u[k] = s[k]
  <2>1. \A k \in 1 .. i - 1 : s[k] \in S
    BY <1>1, <1>2
  <2>2. Len(s) \in Nat /\ i \in Nat /\ i >= 1 /\ i <= Len(s)
    BY <1>2
  <2> QED
    BY <1>1, <2>1, <2>2
<1>4. Len(s) \in 1 .. Len(s)
  BY <1>2
<1>5. t \in Seq(S) /\ Len(t) = Len(s) - 1 /\ \A i \in 1 .. Len(s) - 1 : t[i] = s[i]
  BY <1>3, <1>4
<1> HIDE DEF t
<1>6. IsSeq(t) /\ \A i \in 1 .. Len(t) : t[i] = s[i]
  BY <1>5 DEF IsSeq
<1> QED
  BY <1>2, <1>5, <1>6 DEF t

\* What a new screen of a form has to respect.
Proceeds(f, says, choices) ==
  /\ f.kind = form.kind
  /\ f.kind # "product_edit" => f.composition = form.composition
  /\ f.kind \in {"material", "product"} =>
       /\ form.stage = 5 => f.stage = 5
       /\ f.stage = 5 => says = Creates(f.draft)
  /\ f.kind = "material_unit" =>
       /\ form.stage = 2 => f.stage = 2
       /\ \A b \in choices : b[1] = "material_unit_save" => says = Displays(b[2])
  /\ f.kind = "material_stock" => f.stage = 0 \/ says = Counts(f.unit)

(* A new screen: the step it leaves, if it leaves one, may be gone back to.  *)
LEMMA NextScreen ==
  ASSUME ScreenFits, form # NoForm, NEW f \in Form, NEW says, NEW choices,
         FrameFits([state |-> f, says |-> says, choices |-> choices]),
         Proceeds(f, says, choices), Screen(f, says, choices)
  PROVE  ScreenFits'
<1> DEFINE fr == [state |-> f, says |-> says, choices |-> choices]
           cur == nav.current
           old == nav.back
           new == nav'.back
           s == seen'
<1>1. NavFits /\ SeenFits /\ form \in Form
  BY DEF ScreenFits
<1>2. /\ form' = f /\ nav'.current = fr /\ lapsed' = lapsed
      /\ live' = choices \cup {<<"form_cancel">>, <<"form_home">>}
                   \cup (IF new = <<>> THEN {} ELSE {<<"form_back">>})
      /\ s = IF says = Prompt /\ ~Root(f) THEN seen ELSE says
      /\ \/ Root(f) /\ new = <<>>
         \/ ~Root(f) /\ Step(cur.state) = Step(f) /\ new = old
         \/ ~Root(f) /\ Step(cur.state) # Step(f) /\ new = Append(old, cur)
  BY DEF Screen, ScreenOf
<1>3. FrameFits(fr) /\ fr.state = f /\ fr.says = says /\ fr.choices = choices
  OBVIOUS
<1>4. LeftFits(cur, f.kind) \/ new # Append(old, cur) \/ Step(cur.state) = Step(f)
  <2>1. CASE Step(cur.state) # Step(f)
    <3>1. cur.state = form /\ FrameFits(cur) /\ form.kind = f.kind
      BY <1>1 DEF NavFits, Proceeds
    <3>2. f.kind \in {"material", "product", "material_unit"} => form.stage # f.stage
      BY <2>1, <3>1 DEF Step, Proceeds
    <3> QED
      BY <3>1, <3>2 DEF LeftFits, Proceeds
  <2> QED
    BY <2>1
<1>5. IsSeq(new) /\ \A i \in 1 .. Len(new) : LeftFits(new[i], f.kind)
  <2>1. IsSeq(old) /\ \A i \in 1 .. Len(old) : LeftFits(old[i], f.kind)
    BY <1>1 DEF NavFits, Proceeds
  <2>2. CASE new = <<>>
    <3>1. IsSeq(<<>>) /\ Len(<<>>) = 0
      BY <<>> \in Seq({}) DEF IsSeq
    <3> QED
      BY <2>2, <3>1
  <2>3. CASE new = old
    BY <2>1, <2>3
  <2>4. CASE Step(cur.state) # Step(f) /\ new = Append(old, cur)
    <3>1. LeftFits(cur, f.kind)
      BY <1>4, <2>4
    <3>2. IsSeq(Append(old, cur)) /\ Len(Append(old, cur)) = Len(old) + 1 /\ Len(old) \in Nat
          /\ Append(old, cur)[Len(old) + 1] = cur
          /\ \A i \in 1 .. Len(old) : Append(old, cur)[i] = old[i]
      BY <2>1, Stacked
    <3> HIDE DEF old, cur, new
    <3>3. ASSUME NEW i \in 1 .. Len(new) PROVE LeftFits(new[i], f.kind)
      <4>1. i \in 1 .. Len(old) \/ i = Len(old) + 1
        BY <2>4, <3>2
      <4> QED
        BY <2>1, <2>4, <3>1, <3>2, <4>1
    <3> QED
      BY <2>4, <3>2, <3>3
  <2> QED
    BY <1>2, <2>2, <2>3, <2>4
<1>6. \A b \in live' : b \in choices \/ b[1] \in Navigation
  BY <1>2 DEF Navigation
<1>7. new = <<>> => <<"form_back">> \notin live'
  <2>1. <<"form_back">> \notin choices
    <3>1. ~ChoiceFits(<<"form_back">>, fr)
      BY DEF ChoiceFits
    <3> QED
      BY <1>3, <3>1 DEF FrameFits
  <2> QED
    BY <1>2, <2>1
<1>8. NavFits'
  BY <1>2, <1>3, <1>5, <1>6, <1>7 DEF NavFits
<1>9. says # Prompt => s = says
  BY <1>2
<1>10. f.kind \in {"material", "product"} /\ f.stage = 5 => s = Creates(f.draft)
  <2>1. Creates(f.draft) # Prompt
    BY DEF Creates, Prompt
  <2> QED
    BY <1>9, <2>1 DEF Proceeds
<1>11. \A b \in choices : b[1] = "material_unit_save" => s = Displays(b[2])
  <2> SUFFICES ASSUME NEW b \in choices, b[1] = "material_unit_save"
               PROVE  s = Displays(b[2])
    OBVIOUS
  <2>1. f.kind = "material_unit"
    BY <1>3 DEF FrameFits, ChoiceFits
  <2>2. says = Displays(b[2]) /\ Displays(b[2]) # Prompt
    BY <2>1 DEF Proceeds, Displays, Prompt
  <2> QED
    BY <1>9, <2>2
<1>12. ASSUME f.kind = "material_stock" PROVE StockFits(f, new, s)
  <2>1. /\ ~Root(f) /\ form.kind = f.kind /\ f.composition = form.composition
        /\ cur.state = form /\ FrameFits(cur)
    BY <1>1, <1>12 DEF Root, Proceeds, NavFits
  <2>2. f.stage \in {0, 1} /\ form.stage \in {0, 1}
    BY <1>3, <1>12, <2>1 DEF FrameFits
  <2>3. Step(cur.state) = Step(f) <=> form.stage = f.stage
    BY <2>1 DEF Step
  <2>4. StockFits(form, old, seen)
    BY <1>1, <1>12, <2>1 DEF SeenFits
  <2>5. f.stage = 1 => s = Counts(f.unit)
    <3>1. Counts(f.unit) # Prompt
      BY DEF Counts, Prompt
    <3> QED
      BY <1>9, <1>12, <3>1 DEF Proceeds
  <2>6. f.stage = 0 => s = seen
    <3>1. f.stage = 0 => says = Prompt
      BY <1>3, <1>12 DEF FrameFits
    <3> QED
      BY <1>2, <2>1, <3>1
  <2> HIDE DEF s
  <2>7. CASE form.stage = f.stage /\ new = old
    <3>1. ASSUME old # <<>>
          PROVE  LET left == old[Len(old)].state
                 IN left.stage # f.stage /\ (left.stage = 1 => s = Counts(left.unit))
      <4>1. /\ old[Len(old)].state.stage # form.stage
            /\ old[Len(old)].state.stage = 1 => seen = Counts(old[Len(old)].state.unit)
        BY <2>4, <3>1 DEF StockFits
      <4> QED
        BY <2>2, <2>6, <2>7, <4>1
    <3>2. \A i \in 1 .. Len(old) - 1 : old[i].state.stage # old[i + 1].state.stage
      BY <2>4 DEF StockFits
    <3> QED
      BY <2>5, <2>7, <3>1, <3>2 DEF StockFits
  <2>8. CASE form.stage # f.stage /\ new = Append(old, cur)
    <3>1. IsSeq(old)
      BY <1>1 DEF NavFits
    <3>2. Len(Append(old, cur)) = Len(old) + 1 /\ Len(old) \in Nat
          /\ Append(old, cur)[Len(old) + 1] = cur
          /\ \A i \in 1 .. Len(old) : Append(old, cur)[i] = old[i]
      BY <3>1, Stacked
    <3>3. /\ old # <<>> => old[Len(old)].state.stage # form.stage
          /\ \A i \in 1 .. Len(old) - 1 : old[i].state.stage # old[i + 1].state.stage
          /\ form.stage = 1 => seen = Counts(form.unit)
      BY <2>4 DEF StockFits
    <3>4. Len(old) # 0 => old # <<>>
      BY DEF NavFits
    <3> HIDE DEF old, cur, new
    <3>5. Len(new) = Len(old) + 1 /\ new[Len(new)] = cur
      BY <2>8, <3>2
    <3>6. new[Len(new)].state.stage # f.stage
          /\ (new[Len(new)].state.stage = 1 => s = Counts(new[Len(new)].state.unit))
      BY <2>1, <2>2, <2>6, <2>8, <3>3, <3>5
    <3>7. ASSUME NEW i \in 1 .. Len(new) - 1
          PROVE  new[i].state.stage # new[i + 1].state.stage
      <4>1. i \in Nat /\ 1 <= i /\ i <= Len(old)
        BY <3>2, <3>5
      <4>2. CASE i < Len(old)
        <5>1. i \in 1 .. Len(old) - 1 /\ i \in 1 .. Len(old) /\ i + 1 \in 1 .. Len(old)
          BY <3>2, <4>1, <4>2
        <5> QED
          BY <2>8, <3>2, <3>3, <5>1
      <4>3. CASE i = Len(old)
        <5>1. new[i] = old[i] /\ new[i + 1] = cur
          BY <2>8, <3>2, <4>1, <4>3
        <5> QED
          BY <2>1, <3>3, <3>4, <4>1, <4>3, <5>1
      <4> QED
        BY <3>2, <4>1, <4>2, <4>3
    <3> QED
      BY <2>5, <3>6, <3>7 DEF StockFits
  <2> QED
    BY <1>2, <2>1, <2>3, <2>7, <2>8
<1>13. SeenFits'
  BY <1>2, <1>3, <1>9, <1>10, <1>11, <1>12 DEF SeenFits
<1> QED
  BY <1>2, <1>8, <1>13 DEF ScreenFits
(* Showing the screen again, with its buttons or without.                    *)
LEMMA SameScreen ==
  ASSUME ScreenFits, form # NoForm, NEW says, NEW choices,
         says \in {Prompt, nav.current.says}, choices \in {{}, nav.current.choices},
         \/ choices = {} \/ says = nav.current.says \/ form.kind = "material_unit",
         Screen(form, says, choices)
  PROVE  ScreenFits'
<1> DEFINE fr == [state |-> form, says |-> says, choices |-> choices]
           cur == nav.current
           old == nav.back
<1>1. NavFits /\ SeenFits /\ form \in Form
  BY DEF ScreenFits
<1>2. cur.state = form /\ FrameFits(cur)
  BY <1>1 DEF NavFits
<1>3. /\ form' = form /\ nav'.current = fr /\ lapsed' = lapsed
      /\ live' = choices \cup {<<"form_cancel">>, <<"form_home">>}
                   \cup (IF nav'.back = <<>> THEN {} ELSE {<<"form_back">>})
      /\ seen' = IF says = Prompt /\ ~Root(form) THEN seen ELSE says
      /\ nav'.back = IF Root(form) THEN <<>> ELSE old
  BY <1>2 DEF Screen, ScreenOf
<1>4. FrameFits(fr)
  <2>1. ASSUME NEW b \in choices PROVE ChoiceFits(b, fr)
    <3>1. b \in cur.choices /\ ChoiceFits(b, cur)
      BY <1>2, <2>1 DEF FrameFits
    <3>2. CASE says = cur.says
      BY <1>2, <3>1, <3>2 DEF ChoiceFits
    <3>3. CASE form.kind = "material_unit"
      BY <1>2, <3>1, <3>3 DEF ChoiceFits
    <3> QED
      BY <2>1, <3>2, <3>3
  <2> QED
    BY <1>1, <1>2, <2>1 DEF FrameFits
<1>5. seen' = seen \/ form.kind = "product_edit"
  <2>1. Root(form) => form.kind = "product_edit"
    BY DEF Root
  <2>2. says # Prompt => seen = says
    BY <1>1 DEF SeenFits
  <2> QED
    BY <1>3, <2>1, <2>2
<1>6. nav'.back = old \/ nav'.back = <<>>
  BY <1>3
<1>7. IsSeq(nav'.back) /\ \A i \in 1 .. Len(nav'.back) : LeftFits(nav'.back[i], form.kind)
  <2>1. IsSeq(<<>>) /\ Len(<<>>) = 0
    BY <<>> \in Seq({}) DEF IsSeq
  <2> QED
    BY <1>1, <1>6, <2>1 DEF NavFits
<1>8. \A b \in live' : b \in choices \/ b[1] \in Navigation
  BY <1>3 DEF Navigation
<1>9. nav'.back = <<>> => <<"form_back">> \notin live'
  <2>1. ~ChoiceFits(<<"form_back">>, fr)
    BY DEF ChoiceFits
  <2>2. <<"form_back">> \notin choices
    BY <1>4, <2>1 DEF FrameFits
  <2> QED
    BY <1>3, <2>2
<1>10. NavFits'
  BY <1>3, <1>4, <1>7, <1>8, <1>9 DEF NavFits
<1>11. SeenFits'
  <2>1. says # Prompt => seen' = says
    BY <1>3
  <2>2. CASE form.kind = "product_edit"
    <3>1. \A b \in choices : b[1] # "material_unit_save"
      BY <1>4, <2>2 DEF FrameFits, ChoiceFits
    <3> QED
      BY <1>3, <2>1, <2>2, <3>1 DEF SeenFits
  <2>3. CASE form.kind # "product_edit"
    <3>1. seen' = seen /\ nav'.back = old
      BY <1>3, <1>5, <2>3 DEF Root
    <3>2. \A b \in choices : b[1] = "material_unit_save" => seen = Displays(b[2])
      BY <1>1 DEF SeenFits
    <3> QED
      BY <1>1, <1>3, <2>1, <3>1, <3>2 DEF SeenFits
  <2> QED
    BY <2>2, <2>3
<1> QED
  BY <1>1, <1>3, <1>10, <1>11 DEF ScreenFits

(* A text without a question of its own leaves the form as it is.            *)
LEMMA SayKeeps ==
  ASSUME ScreenFits, form # NoForm, Say(form)
  PROVE  ScreenFits'
BY SameScreen DEF Say

(* A form is left, or another one opened in its place.                       *)
LEMMA ClearAndStart ==
  ASSUME ClearSetup \/ \E kind \in FormKind : StartSetup(kind)
  PROVE  ScreenFits'
<1>1. CASE ClearSetup
  BY <1>1 DEF ClearSetup, ScreenFits
<1>2. ASSUME NEW kind \in FormKind, StartSetup(kind) PROVE ScreenFits'
  <2> DEFINE f == [kind |-> kind, stage |-> 0, draft |-> NoDraft, unit |-> NoDraft,
                   edit |-> NoEdit, composition |-> NoFrame]
             fr == [state |-> f, says |-> Prompt, choices |-> {}]
  <2>1. /\ form' = f /\ nav' = [current |-> fr, back |-> <<>>]
        /\ live' = {<<"form_cancel">>, <<"form_home">>}
        /\ seen' = Prompt /\ lapsed' = {}
    BY <1>2 DEF StartSetup
  <2>2. f \in Form
    <3>1. NoEdit \in Edit
      BY FormAssumption DEF NoEdit, Edit, Amount
    <3> QED
      BY <3>1 DEF Form
  <2>3. f.kind = kind /\ f.stage = 0
    OBVIOUS
  <2> HIDE DEF f
  <2>4. FrameFits(fr)
    BY <2>2, <2>3 DEF FrameFits
  <2>5. IsSeq(<<>>) /\ Len(<<>>) = 0
    BY <<>> \in Seq({}) DEF IsSeq
  <2>6. \A b \in live' : b[1] \in Navigation /\ b # <<"form_back">>
    BY <2>1 DEF Navigation
  <2>7. NavFits'
    BY <2>1, <2>4, <2>5, <2>6 DEF NavFits
  <2>8. StockFits(f, <<>>, Prompt)
    BY <2>3, <2>5 DEF StockFits
  <2>9. SeenFits'
    BY <2>1, <2>3, <2>8 DEF SeenFits
  <2> QED
    BY <2>1, <2>2, <2>7, <2>9 DEF ScreenFits
<1> QED
  BY <1>1, <1>2

(* Going back shows the step as it was left.                                 *)
LEMMA BackKeeps ==
  ASSUME ScreenFits, form # NoForm, nav.back # <<>>,
         NEW prev, prev = nav.back[Len(nav.back)],
         ~(prev.state.kind \in {"material_stock", "material_unit"} /\ prev.state.stage = 0),
         ScreenOf([current |-> prev, back |-> SubSeq(nav.back, 1, Len(nav.back) - 1)],
                  prev.state, prev.says, prev.choices)
  PROVE  ScreenFits'
<1> DEFINE old == nav.back
           rest == SubSeq(old, 1, Len(old) - 1)
           f == prev.state
           fr == [state |-> f, says |-> prev.says, choices |-> prev.choices]
           new == nav'.back
<1>1. NavFits /\ SeenFits /\ form \in Form
  BY DEF ScreenFits
<1>2. IsSeq(old) /\ \A i \in 1 .. Len(old) : LeftFits(old[i], form.kind)
  BY <1>1 DEF NavFits
<1>3. /\ IsSeq(rest) /\ Len(old) \in Nat \ {0} /\ Len(rest) = Len(old) - 1
      /\ \A i \in 1 .. Len(rest) : rest[i] = old[i]
  BY <1>2, Unstacked
<1>4. LeftFits(prev, form.kind)
  BY <1>2, <1>3
<1>5. /\ form' = f /\ nav'.current = fr /\ lapsed' = lapsed
      /\ live' = prev.choices \cup {<<"form_cancel">>, <<"form_home">>}
                   \cup (IF new = <<>> THEN {} ELSE {<<"form_back">>})
      /\ seen' = IF prev.says = Prompt /\ ~Root(f) THEN seen ELSE prev.says
      /\ new = IF Root(f) THEN <<>> ELSE rest
  BY DEF ScreenOf
<1>6. f \in Form /\ f.kind = form.kind /\ FrameFits(prev)
  BY <1>4 DEF LeftFits, FrameFits
<1>7. FrameFits(fr)
  BY <1>6 DEF FrameFits, ChoiceFits
<1>8. IsSeq(new) /\ \A i \in 1 .. Len(new) : LeftFits(new[i], f.kind)
  <2>1. IsSeq(<<>>) /\ Len(<<>>) = 0
    BY <<>> \in Seq({}) DEF IsSeq
  <2>2. \A i \in 1 .. Len(rest) : LeftFits(rest[i], f.kind)
    <3> HIDE DEF old, rest
    <3> QED
      BY <1>2, <1>3, <1>6
  <2> QED
    BY <1>3, <1>5, <2>1, <2>2
<1>9. \A b \in live' : b \in prev.choices \/ b[1] \in Navigation
  BY <1>5 DEF Navigation
<1>10. new = <<>> => <<"form_back">> \notin live'
  <2>1. ~ChoiceFits(<<"form_back">>, prev)
    BY DEF ChoiceFits
  <2>2. <<"form_back">> \notin prev.choices
    BY <1>6, <2>1 DEF FrameFits
  <2> QED
    BY <1>5, <2>2
<1>11. NavFits'
  <2>1. nav'.current = fr /\ fr.state = f /\ fr.choices = prev.choices /\ form' = f
    BY <1>5
  <2> HIDE DEF f, fr, new
  <2>2. nav'.current.state = form' /\ FrameFits(nav'.current) /\ IsSeq(nav'.back)
    BY <1>7, <1>8, <2>1 DEF new
  <2>3. \A i \in 1 .. Len(nav'.back) : LeftFits(nav'.back[i], form'.kind)
    BY <1>8, <2>1 DEF new
  <2>4. \A b \in live' : b \in nav'.current.choices \/ b[1] \in Navigation
    BY <1>9, <2>1
  <2>5. nav'.back = <<>> => <<"form_back">> \notin live'
    BY <1>10 DEF new
  <2> QED
    BY <2>2, <2>3, <2>4, <2>5 DEF NavFits
<1>12. ~(f.kind \in {"material", "product"} /\ f.stage = 5)
  BY <1>4, <1>6 DEF LeftFits
<1>13. \A b \in prev.choices : b[1] # "material_unit_save"
  <2>1. f.kind = "material_unit" => f.stage # 2
    BY <1>4, <1>6 DEF LeftFits
  <2> QED
    BY <1>6, <2>1 DEF FrameFits, ChoiceFits
<1>14. ASSUME f.kind = "material_stock" PROVE StockFits(f, new, seen')
  <2>1. f.stage = 1 /\ (prev.says = Prompt \/ prev.says = Counts(f.unit))
    BY <1>6, <1>14 DEF FrameFits
  <2>2. StockFits(form, old, seen)
    BY <1>1, <1>6, <1>14 DEF SeenFits
  <2>3. seen = Counts(f.unit)
    BY <2>1, <2>2 DEF StockFits
  <2>4. new = rest /\ seen' = Counts(f.unit)
    BY <1>5, <1>14, <2>1, <2>3 DEF Root
  <2>5. \A i \in 1 .. Len(old) - 1 : old[i].state.stage # old[i + 1].state.stage
    BY <2>2 DEF StockFits
  <2>6. prev = old[Len(old)]
    OBVIOUS
  <2> HIDE DEF old, rest
  <2>7. ASSUME rest # <<>> PROVE rest[Len(rest)].state.stage # f.stage
    <3>1. Len(rest) # 0
      BY <1>3, <2>7 DEF IsSeq
    <3>2. Len(rest) \in 1 .. Len(old) - 1 /\ Len(rest) \in 1 .. Len(rest)
          /\ Len(rest) + 1 = Len(old)
      BY <1>3, <3>1
    <3> QED
      BY <1>3, <2>5, <2>6, <3>2
  <2>8. ASSUME NEW i \in 1 .. Len(rest) - 1
        PROVE  rest[i].state.stage # rest[i + 1].state.stage
    <3>1. i \in 1 .. Len(old) - 1 /\ i \in 1 .. Len(rest) /\ i + 1 \in 1 .. Len(rest)
      BY <1>3
    <3> QED
      BY <1>3, <2>5, <3>1
  <2> QED
    BY <2>1, <2>4, <2>7, <2>8 DEF StockFits
<1>15. SeenFits'
  BY <1>5, <1>12, <1>13, <1>14 DEF SeenFits
<1> QED
  BY <1>5, <1>6, <1>11, <1>15, <1>1 DEF ScreenFits
\* What every step of a form does: its screens fit again, and what it saves is
\* what they said.
Keeps == /\ ScreenFits' /\ StoreTypeOK'
         /\ store' = store \/ (Authorized(Me) /\ AsShown)

(* A screen that writes nothing keeps what it has to.                        *)
LEMMA Unsaved ==
  ASSUME StoreTypeOK, ScreenFits', Unwritten
  PROVE  Keeps
BY DEF Keeps, StoreTypeOK, Unwritten

(* A screen of a product.                                                    *)
LEMMA EditScreen ==
  ASSUME ScreenFits, form # NoForm, form.kind = "product_edit",
         NEW f \in Form, f.kind = "product_edit", NEW says, NEW choices,
         \A b \in choices : ChoiceFits(b, [state |-> f, says |-> says, choices |-> choices]),
         Screen(f, says, choices)
  PROVE  ScreenFits'
<1>1. FrameFits([state |-> f, says |-> says, choices |-> choices])
  BY DEF FrameFits
<1>2. Proceeds(f, says, choices)
  BY DEF Proceeds
<1> QED
  BY <1>1, <1>2, NextScreen

(* The card of a product.                                                    *)
LEMMA CardKeeps ==
  ASSUME ScreenFits, form # NoForm, form.kind = "product_edit",
         NEW f \in Form, f.kind = "product_edit", ProductCard(f)
  PROVE  ScreenFits'
<1> DEFINE g == [f EXCEPT !.stage = 1, !.composition = NoFrame, !.edit = NoEdit]
           choices == {<<"product_edit_back">>}
             \cup (IF Can(Me, "products.write") THEN {<<"product_edit_field">>} ELSE {})
             \cup (IF Can(Me, "bom.read") THEN {<<"product_edit_bom_open">>} ELSE {})
<1>1. NoEdit \in Edit
  BY FormAssumption DEF NoEdit, Edit, Amount
<1>2. g \in Form /\ g.kind = "product_edit"
  <2> DEFINE g1 == [f EXCEPT !.stage = 1]
             g2 == [g1 EXCEPT !.composition = NoFrame]
  <2>1. g1 \in Form /\ g1.kind = "product_edit"
    BY DEF Form
  <2>2. g = [g2 EXCEPT !.edit = NoEdit]
    BY DEF Form
  <2> HIDE DEF g, g1
  <2>3. g2 \in Form /\ g2.kind = "product_edit"
    BY <2>1 DEF Form
  <2> HIDE DEF g2
  <2> QED
    BY <1>1, <2>2, <2>3 DEF Form
<1>3. \A b \in choices : b[1] \in {"product_edit_back", "product_edit_field",
                                   "product_edit_bom_open"}
  OBVIOUS
<1>4. Screen(g, Prompt, choices)
  BY DEF ProductCard
<1> HIDE DEF g, choices
<1>5. \A b \in choices : ChoiceFits(b, [state |-> g, says |-> Prompt, choices |-> choices])
  BY <1>2, <1>3 DEF ChoiceFits
<1> QED
  BY <1>2, <1>4, <1>5, EditScreen

(* A text on a screen of a product.                                          *)
LEMMA EditSays ==
  ASSUME ScreenFits, form # NoForm, form.kind = "product_edit",
         NEW f \in Form, f.kind = "product_edit", Say(f)
  PROVE  ScreenFits'
<1> DEFINE choices == {}
<1>1. Screen(f, Prompt, choices)
  BY DEF Say
<1>2. \A b \in choices : ChoiceFits(b, [state |-> f, says |-> Prompt, choices |-> choices])
  OBVIOUS
<1> HIDE DEF choices
<1> QED
  BY <1>1, <1>2, EditScreen

(* The preview of an edit says what stands there and what would.             *)
LEMMA PreviewKeeps ==
  ASSUME ScreenFits, StoreTypeOK, form # NoForm, form.kind = "product_edit",
         NEW f \in Form, f.kind = "product_edit", EditPreview(f)
  PROVE  ScreenFits'
<1>1. CASE EditValue(f.edit) \notin Amount
  <2>1. [f EXCEPT !.stage = 2] \in Form /\ [f EXCEPT !.stage = 2].kind = "product_edit"
    BY DEF Form
  <2>2. Say([f EXCEPT !.stage = 2])
    BY <1>1 DEF EditPreview
  <2> QED
    BY <2>1, <2>2, EditSays
<1>2. CASE EditValue(f.edit) \in Amount
  <2> DEFINE g == [f EXCEPT !.stage = 3, !.edit.expected = store.field]
             says == Edits(store.field, EditValue(f.edit))
             choices == {<<"product_edit_save">>}
  <2>1. Screen(g, says, choices)
    BY <1>2 DEF EditPreview
  <2>2. f.edit \in Edit /\ store.field \in Amount
    BY DEF Form, StoreTypeOK
  <2>3. g.edit = [f.edit EXCEPT !.expected = store.field] /\ g.edit \in Edit
    BY <2>2 DEF Form, Edit
  <2>4. g \in Form /\ g.kind = "product_edit"
    <3> DEFINE e == [f.edit EXCEPT !.expected = store.field]
    <3>1. e \in Edit
      BY <2>2 DEF Edit
    <3>2. g = [[f EXCEPT !.stage = 3] EXCEPT !.edit = e]
      BY DEF Form
    <3>3. [f EXCEPT !.stage = 3] \in Form
      BY DEF Form
    <3> HIDE DEF e, g
    <3> QED
      BY <3>1, <3>2, <3>3 DEF Form
  <2>5. g.edit.expected = store.field /\ g.edit.how = f.edit.how /\ g.edit.n = f.edit.n
    BY <2>2, <2>3 DEF Edit
  <2>6. says = Edits(g.edit.expected, Adjusted(g.edit.how, g.edit.expected, g.edit.n))
    BY <2>5 DEF EditValue
  <2> HIDE DEF g, says
  <2>7. \A b \in choices : ChoiceFits(b, [state |-> g, says |-> says, choices |-> choices])
    BY <2>4, <2>6 DEF ChoiceFits
  <2> QED
    BY <2>1, <2>4, <2>7, EditScreen
<1> QED
  BY <1>1, <1>2

(* The menu of a composition.                                                *)
LEMMA MenuKeeps ==
  ASSUME ScreenFits, StoreTypeOK, form # NoForm, form.kind = "product_edit",
         NEW f \in Form, f.kind = "product_edit", CompositionMenu(f)
  PROVE  ScreenFits'
<1> DEFINE c == [stage |-> "menu", action |-> "none", n |-> 0, unit |-> NoDraft,
                 version |-> Snapshot]
           g == [f EXCEPT !.composition = c]
           choices ==
             {<<"product_edit_bom_back">>} \cup
             IF ~Can(Me, "bom.write") THEN {}
             ELSE {<<"product_edit_bom", "add">>} \cup
                  IF store.composed = 0 THEN {}
                  ELSE {<<"product_edit_bom", "update">>, <<"product_edit_bom", "remove">>}
<1>1. Snapshot \in Amount \X Unit /\ 0 \in Amount
  BY FormAssumption DEF Snapshot, StoreTypeOK, Amount
<1>2. c \in Composition
  BY <1>1 DEF Composition
<1>3. g \in Form /\ g.kind = "product_edit" /\ g.composition = c
  BY <1>2 DEF Form
<1>4. Screen(g, Prompt, choices)
  BY DEF CompositionMenu
<1>5. \A b \in choices : \/ b[1] = "product_edit_bom_back"
                         \/ /\ b[1] = "product_edit_bom"
                            /\ b[2] \in {"add", "update", "remove"}
  OBVIOUS
<1> HIDE DEF c, g, choices
<1>6. \A b \in choices : ChoiceFits(b, [state |-> g, says |-> Prompt, choices |-> choices])
  BY <1>2, <1>3, <1>5 DEF ChoiceFits
<1> QED
  BY <1>3, <1>4, <1>6, EditScreen

(* The question how much.                                                    *)
LEMMA QuantityKeeps ==
  ASSUME ScreenFits, StoreTypeOK, form # NoForm, form.kind = "product_edit",
         NEW f \in Form, f.kind = "product_edit", f.composition \in Composition,
         QuantityPrompt(f)
  PROVE  ScreenFits'
<1>1. CASE Selected(f.composition.action)
  <2> DEFINE c == [f.composition EXCEPT !.stage = "quantity", !.unit = store.unit,
                                        !.version = Snapshot, !.n = 0]
             g == [f EXCEPT !.composition.stage = "quantity",
                            !.composition.unit = store.unit,
                            !.composition.version = Snapshot, !.composition.n = 0]
  <2>1. Snapshot \in Amount \X Unit /\ 0 \in Amount /\ store.unit \in Unit
    BY FormAssumption DEF Snapshot, StoreTypeOK, Amount
  <2>2. c \in Composition
    BY <2>1 DEF Composition
  <2>3. g = [f EXCEPT !.composition = c]
    BY DEF Form
  <2>4. g \in Form /\ g.kind = "product_edit"
    BY <2>2, <2>3 DEF Form
  <2>5. Say(g)
    BY <1>1 DEF QuantityPrompt
  <2> HIDE DEF g
  <2> QED
    BY <2>4, <2>5, EditSays
<1>2. CASE ~Selected(f.composition.action)
  BY <1>2, MenuKeeps DEF QuantityPrompt
<1> QED
  BY <1>1, <1>2

(* The preview of a composition says what stands there and what would.       *)
LEMMA CompositionKeeps ==
  ASSUME ScreenFits, StoreTypeOK, form # NoForm, form.kind = "product_edit",
         NEW f \in Form, f.kind = "product_edit", f.composition \in Composition,
         CompositionPreview(f)
  PROVE  ScreenFits'
<1> DEFINE c == f.composition
           amount == IF c.action = "remove" THEN 0 ELSE Base(c.unit, c.n)
<1>1. CASE ~Selected(c.action)
  <2>1. CompositionMenu(f)
    BY <1>1 DEF CompositionPreview
  <2> QED
    BY <2>1, MenuKeeps
<1>2. CASE Selected(c.action) /\ c.action # "remove" /\ c.unit # store.unit
  <2>1. QuantityPrompt(f)
    BY <1>2 DEF CompositionPreview
  <2> QED
    BY <2>1, QuantityKeeps
<1>3. CASE /\ Selected(c.action) /\ c.action # "remove" /\ c.unit = store.unit
           /\ amount \notin Amount \ {0}
  <2> DEFINE d == [c EXCEPT !.stage = "quantity"]
             g == [f EXCEPT !.composition.stage = "quantity"]
  <2>1. Say(g)
    BY <1>3 DEF CompositionPreview
  <2>2. d \in Composition
    BY DEF Composition
  <2>3. g = [f EXCEPT !.composition = d]
    BY DEF Form
  <2>4. g \in Form /\ g.kind = "product_edit"
    BY <2>2, <2>3 DEF Form
  <2> HIDE DEF g
  <2> QED
    BY <2>1, <2>4, EditSays
<1>4. CASE /\ Selected(c.action)
           /\ c.action = "remove" \/ (c.unit = store.unit /\ amount \in Amount \ {0})
  <2> DEFINE d == [c EXCEPT !.stage = "confirm", !.version = Snapshot]
             g == [f EXCEPT !.composition.stage = "confirm",
                            !.composition.version = Snapshot]
             says == Composes(store.composed, amount)
             choices == {<<"product_edit_bom_save">>}
  <2>1. Screen(g, says, choices)
    BY <1>4 DEF CompositionPreview
  <2>2. Snapshot \in Amount \X Unit /\ Snapshot[1] = store.composed /\ amount \in Amount
    BY <1>4, FormAssumption DEF Snapshot, StoreTypeOK, Amount
  <2>3. d \in Composition /\ d.action = c.action /\ d.unit = c.unit /\ d.n = c.n
        /\ d.version = Snapshot
    BY <2>2 DEF Composition
  <2>4. g = [f EXCEPT !.composition = d]
    BY DEF Form
  <2>5. g \in Form /\ g.kind = "product_edit" /\ g.composition = d
    BY <2>3, <2>4 DEF Form
  <2>6. Composed(d) = amount
    BY <2>3 DEF Composed
  <2>7. says = Composes(d.version[1], Composed(d)) /\ Composed(d) \in Amount
    BY <2>2, <2>3, <2>6
  <2> HIDE DEF g, d, says
  <2>8. \A b \in choices : ChoiceFits(b, [state |-> g, says |-> says, choices |-> choices])
    BY <2>3, <2>5, <2>7 DEF ChoiceFits
  <2> QED
    BY <2>1, <2>5, <2>8, EditScreen
<1> QED
  BY <1>1, <1>2, <1>3, <1>4
(* Where only the time or the session of a form changes, its screens fit.    *)
LEMMA Untouched ==
  ASSUME ScreenFits, UNCHANGED <<form, nav, live, seen>>, lapsed' \subseteq {"time", "session"}
  PROVE  ScreenFits'
BY DEF ScreenFits, NavFits, SeenFits

(* Opening a form, leaving it, selecting a workshop, old buttons.            *)
LEMMA ComingsKeep ==
  ASSUME FormInv,
         \/ \E kind \in FormKind : Open(kind) \/ OpenRefused(kind)
         \/ Leave \/ Reselect \/ PressOld
  PROVE  Keeps
<1>1. ScreenFits /\ StoreTypeOK
  BY DEF FormInv
<1>2. ASSUME NEW kind \in FormKind, Open(kind) PROVE Keeps
  BY <1>1, <1>2, ClearAndStart, Unsaved DEF Open, Unwritten
<1>3. ASSUME NEW kind \in FormKind, OpenRefused(kind) PROVE Keeps
  BY <1>1, <1>3, ClearAndStart, SayKeeps, Unsaved DEF OpenRefused
<1>4. CASE Leave
  BY <1>1, <1>4, ClearAndStart, Unsaved DEF Leave
<1>5. CASE Reselect
  <2>1. CASE ClearSetup
    BY <1>1, <1>5, <2>1, ClearAndStart, Unsaved DEF Reselect
  <2>2. CASE /\ lapsed' = IF form = NoForm THEN {} ELSE lapsed \cup {"session"}
             /\ UNCHANGED <<form, nav, live, seen>>
    <3>1. lapsed' \subseteq {"time", "session"}
      BY <1>1, <2>2 DEF ScreenFits
    <3> QED
      BY <1>1, <1>5, <2>2, <3>1, Untouched, Unsaved DEF Reselect
  <2> QED
    BY <1>5, <2>1, <2>2 DEF Reselect
<1>6. CASE PressOld
  BY <1>1, <1>6, SayKeeps, Unsaved DEF PressOld, Unwritten
<1> QED
  BY <1>2, <1>3, <1>4, <1>5, <1>6

(* The question whether to leave the form for a task.                        *)
LEMMA TaskCommandKeeps ==
  ASSUME FormInv, TaskCommand
  PROVE  Keeps
<1>1. ScreenFits /\ StoreTypeOK /\ form # NoForm
  BY DEF FormInv, TaskCommand, Message
<1>2. CASE ClearSetup /\ Unwritten
  BY <1>1, <1>2, ClearAndStart, Unsaved
<1>3. CASE /\ live' = {<<"form_continue">>, <<"form_task">>, <<"form_cancel">>,
                       <<"form_home">>}
                        \cup (IF nav.back = <<>> THEN {} ELSE {<<"form_back">>})
           /\ UNCHANGED <<form, nav, seen, lapsed>> /\ Unwritten
  <2>1. NavFits /\ SeenFits
    BY <1>1 DEF ScreenFits
  <2>2. \A b \in live' : b[1] \in Navigation
    BY <1>3 DEF Navigation
  <2>3. nav.back = <<>> => <<"form_back">> \notin live'
    BY <1>3
  <2>4. NavFits' /\ SeenFits'
    BY <1>3, <2>1, <2>2, <2>3 DEF NavFits, SeenFits
  <2> QED
    BY <1>1, <1>3, <2>4, Unsaved DEF ScreenFits
<1> QED
  BY <1>2, <1>3 DEF TaskCommand, Message

(* The unit of the material, or the draft, is entered into the form.         *)
LEMMA Entered ==
  ASSUME NEW g \in Form
  PROVE  /\ \A u \in Unit :
              LET f == [g EXCEPT !.stage = 1, !.unit = u]
              IN /\ f \in Form /\ f.kind = g.kind /\ f.composition = g.composition
                 /\ f.stage = 1 /\ f.unit = u
         /\ \A d \in Draft :
              LET f == [g EXCEPT !.stage = 1, !.draft = d]
              IN /\ f \in Form /\ f.kind = g.kind /\ f.composition = g.composition
                 /\ f.stage = 1
<1> DEFINE g1 == [g EXCEPT !.stage = 1]
<1>1. g1 \in Form /\ g1.kind = g.kind /\ g1.composition = g.composition /\ g1.stage = 1
  BY DEF Form
<1>2. \A x : [g EXCEPT !.stage = 1, !.unit = x] = [g1 EXCEPT !.unit = x]
  BY DEF Form
<1>3. \A x : [g EXCEPT !.stage = 1, !.draft = x] = [g1 EXCEPT !.draft = x]
  BY DEF Form
<1> HIDE DEF g1
<1>4. ASSUME NEW u \in Unit
      PROVE  LET f == [g1 EXCEPT !.unit = u]
             IN /\ f \in Form /\ f.kind = g.kind /\ f.composition = g.composition
                /\ f.stage = 1 /\ f.unit = u
  BY <1>1 DEF Form
<1>5. ASSUME NEW d \in Draft
      PROVE  LET f == [g1 EXCEPT !.draft = d]
             IN /\ f \in Form /\ f.kind = g.kind /\ f.composition = g.composition
                /\ f.stage = 1
  BY <1>1 DEF Form
<1>6. ASSUME NEW u \in Unit
      PROVE  LET f == [g EXCEPT !.stage = 1, !.unit = u]
             IN /\ f \in Form /\ f.kind = g.kind /\ f.composition = g.composition
                /\ f.stage = 1 /\ f.unit = u
  <2> DEFINE f == [g EXCEPT !.stage = 1, !.unit = u]
             h == [g1 EXCEPT !.unit = u]
  <2>1. f = h
    BY <1>2
  <2>2. h \in Form /\ h.kind = g.kind /\ h.composition = g.composition
        /\ h.stage = 1 /\ h.unit = u
    BY <1>4
  <2> HIDE DEF f, h
  <2>3. f \in Form /\ f.kind = g.kind /\ f.composition = g.composition
        /\ f.stage = 1 /\ f.unit = u
    BY <2>1, <2>2
  <2> QED
    BY <2>3 DEF f
<1>7. ASSUME NEW d \in Draft
      PROVE  LET f == [g EXCEPT !.stage = 1, !.draft = d]
             IN /\ f \in Form /\ f.kind = g.kind /\ f.composition = g.composition
                /\ f.stage = 1
  <2> DEFINE f == [g EXCEPT !.stage = 1, !.draft = d]
             h == [g1 EXCEPT !.draft = d]
  <2>1. f = h
    BY <1>3
  <2>2. h \in Form /\ h.kind = g.kind /\ h.composition = g.composition
        /\ h.stage = 1
    BY <1>5
  <2> HIDE DEF f, h
  <2>3. f \in Form /\ f.kind = g.kind /\ f.composition = g.composition
        /\ f.stage = 1
    BY <2>1, <2>2
  <2> QED
    BY <2>3 DEF f
<1> QED
  BY <1>6, <1>7

(* A material or a product that is created is the draft that was summed up.  *)
LEMMA CreateKeeps ==
  ASSUME FormInv, CreateStep
  PROVE  Keeps
<1>1. /\ ScreenFits /\ StoreTypeOK /\ form # NoForm /\ form \in Form /\ SeenFits
      /\ form.kind \in {"material", "product"}
  BY DEF FormInv, CreateStep, ScreenFits
<1>2. CASE ClearSetup /\ Unwritten
  BY <1>1, <1>2, ClearAndStart, Unsaved
<1>3. CASE Say(form) /\ Unwritten
  BY <1>1, <1>3, SayKeeps, Unsaved
<1>4. ASSUME NEW f \in Form, f.kind = form.kind, f.composition = form.composition,
             NEW says, f.stage = 5 => says = Creates(f.draft), form.stage # 5,
             Screen(f, says, {}), Unwritten
      PROVE  Keeps
  <2> DEFINE choices == {}
  <2>1. FrameFits([state |-> f, says |-> says, choices |-> choices])
    BY <1>1, <1>4 DEF FrameFits
  <2>2. Proceeds(f, says, choices)
    BY <1>1, <1>4 DEF Proceeds
  <2>3. Screen(f, says, choices)
    BY <1>4
  <2> HIDE DEF choices
  <2>4. ScreenFits'
    BY <1>1, <2>1, <2>2, <2>3, NextScreen
  <2> QED
    BY <1>1, <1>4, <2>4, Unsaved
<1>5. ASSUME form.stage = 0, NEW d \in Draft,
             Say([form EXCEPT !.stage = 1, !.draft = d]), Unwritten
      PROVE  Keeps
  <2> DEFINE f == [form EXCEPT !.stage = 1, !.draft = d]
  <2>1. f \in Form /\ f.kind = form.kind /\ f.composition = form.composition
        /\ f.stage = 1
    BY <1>1, Entered
  <2>2. Screen(f, Prompt, {})
    BY <1>5 DEF Say
  <2> HIDE DEF f
  <2> QED
    BY <1>4, <1>5, <2>1, <2>2
<1>6. ASSUME form.stage \in 1 .. 3, Say([form EXCEPT !.stage = @ + 1]), Unwritten
      PROVE  Keeps
  <2> DEFINE f == [form EXCEPT !.stage = @ + 1]
  <2>1. f \in Form /\ f.kind = form.kind /\ f.composition = form.composition
        /\ f.stage \in 2 .. 4
    BY <1>1, <1>6 DEF Form
  <2>2. Screen(f, Prompt, {})
    BY <1>6 DEF Say
  <2> HIDE DEF f
  <2> QED
    BY <1>4, <1>6, <2>1, <2>2
<1>7. ASSUME form.stage = 4, Screen([form EXCEPT !.stage = 5], Creates(form.draft), {}),
             Unwritten
      PROVE  Keeps
  <2> DEFINE f == [form EXCEPT !.stage = 5]
  <2>1. f \in Form /\ f.kind = form.kind /\ f.composition = form.composition
        /\ f.stage = 5 /\ f.draft = form.draft
    BY <1>1 DEF Form
  <2>2. Screen(f, Creates(f.draft), {})
    BY <1>7, <2>1
  <2> HIDE DEF f
  <2> QED
    BY <1>4, <1>7, <2>1, <2>2
<1>8. CASE /\ form.stage = 5 /\ store' = [store EXCEPT !.saved = form.draft]
           /\ ClearSetup /\ Authorized(Me)
  <2>1. seen = Creates(form.draft)
    BY <1>1, <1>8 DEF SeenFits
  <2>2. AsShown
    BY <1>8, <2>1 DEF AsShown, Creates
  <2>3. StoreTypeOK'
    BY <1>1, <1>8 DEF StoreTypeOK, Form
  <2> QED
    BY <1>8, <2>2, <2>3, ClearAndStart DEF Keeps
<1> QED
  BY <1>2, <1>3, <1>5, <1>6, <1>7, <1>8 DEF CreateStep, Message

(* A stock changes in the unit in which its amount was asked.                *)
LEMMA StockKeeps ==
  ASSUME FormInv, StockStep
  PROVE  Keeps
<1>1. /\ ScreenFits /\ StoreTypeOK /\ form # NoForm /\ form \in Form /\ SeenFits
      /\ form.kind = "material_stock" /\ NavFits
  BY DEF FormInv, StockStep, ScreenFits
<1>2. CASE ClearSetup /\ Unwritten
  BY <1>1, <1>2, ClearAndStart, Unsaved
<1>3. CASE Say(form) /\ Unwritten
  BY <1>1, <1>3, SayKeeps, Unsaved
<1>4. CASE /\ form.stage = 0 /\ Unwritten
           /\ Screen([form EXCEPT !.stage = 1, !.unit = store.unit], Counts(store.unit), {})
  <2> DEFINE f == [form EXCEPT !.stage = 1, !.unit = store.unit]
             choices == {}
             says == Counts(store.unit)
  <2>1. store.unit \in Unit
    BY <1>1 DEF StoreTypeOK
  <2>2. /\ f \in Form /\ f.kind = form.kind /\ f.composition = form.composition
        /\ f.stage = 1 /\ f.unit = store.unit
    BY <1>1, <2>1, Entered
  <2>3. Screen(f, says, choices)
    BY <1>4
  <2> HIDE DEF f
  <2>4. says = Counts(f.unit)
    BY <2>2
  <2> HIDE DEF says
  <2>5. FrameFits([state |-> f, says |-> says, choices |-> choices])
    BY <2>2, <2>4 DEF FrameFits
  <2>6. Proceeds(f, says, choices)
    BY <1>1, <2>2, <2>4 DEF Proceeds
  <2> HIDE DEF choices
  <2>7. ScreenFits'
    BY <1>1, <2>2, <2>3, <2>5, <2>6, NextScreen
  <2> QED
    BY <1>1, <1>4, <2>7, Unsaved
<1>5. CASE form.stage = 1 /\ Say([form EXCEPT !.stage = 0]) /\ Unwritten
  <2> DEFINE f == [form EXCEPT !.stage = 0]
             choices == {}
  <2>1. /\ f \in Form /\ f.kind = form.kind /\ f.composition = form.composition
        /\ f.stage = 0
    BY <1>1 DEF Form
  <2>2. Screen(f, Prompt, choices)
    BY <1>5 DEF Say
  <2> HIDE DEF f
  <2>3. FrameFits([state |-> f, says |-> Prompt, choices |-> choices])
    BY <2>1 DEF FrameFits
  <2>4. Proceeds(f, Prompt, choices)
    BY <1>1, <2>1 DEF Proceeds
  <2> HIDE DEF choices
  <2>5. ScreenFits'
    BY <1>1, <2>1, <2>2, <2>3, <2>4, NextScreen
  <2> QED
    BY <1>1, <1>5, <2>5, Unsaved
<1>6. ASSUME form.stage = 1, NEW n \in Typed, NEW how \in How, ClearSetup, Authorized(Me),
             form.unit = store.unit,
             Adjusted(how, store.stock, Base(form.unit, n)) <= MaxAmount,
             ~(Adjusted(how, store.stock, Base(form.unit, n)) < 0),
             store' = [store EXCEPT !.stock = Adjusted(how, store.stock, Base(form.unit, n))]
      PROVE  Keeps
  <2> DEFINE after == Adjusted(how, store.stock, Base(form.unit, n))
  <2>1. StockFits(form, nav.back, seen)
    BY <1>1 DEF SeenFits
  <2>2. seen = Counts(form.unit)
    BY <1>6, <2>1 DEF StockFits
  <2>3. AsShown
    BY <1>6, <2>2 DEF AsShown, Counts
  <2>4. after \in Amount
    <3>1. store.stock \in Nat /\ n \in Nat /\ MaxAmount \in Nat
      BY <1>1, FormAssumption DEF StoreTypeOK, Amount
    <3>2. Base(form.unit, n) \in Nat
      BY <3>1 DEF Base
    <3>3. how \in {"set", "add", "take"}
      BY FormAssumption
    <3>4. after \in Int
      BY <3>1, <3>2, <3>3 DEF Adjusted
    <3> QED
      BY <1>6, <3>1, <3>4 DEF Amount
  <2>5. StoreTypeOK'
    BY <1>1, <1>6, <2>4 DEF StoreTypeOK
  <2> QED
    BY <1>6, <2>3, <2>5, ClearAndStart DEF Keeps
<1>7. ASSUME Authorized(Me), form.stage = 1, NEW n \in Typed, NEW how \in How,
             LET after == Adjusted(how, store.stock, Base(form.unit, n))
             IN /\ after <= MaxAmount
                /\ CASE how # "set" /\ n = 0 -> Say(form) /\ Unwritten
                     [] (how = "set" \/ n # 0) /\ form.unit # store.unit ->
                          Say([form EXCEPT !.stage = 0]) /\ Unwritten
                     [] (how = "set" \/ n # 0) /\ form.unit = store.unit
                          /\ after < 0 -> Say(form) /\ Unwritten
                     [] OTHER -> store' = [store EXCEPT !.stock = after] /\ ClearSetup
      PROVE  Keeps
  <2> DEFINE after == Adjusted(how, store.stock, Base(form.unit, n))
  <2>1. CASE how # "set" /\ n = 0
    BY <1>3, <1>7, <2>1
  <2>2. CASE (how = "set" \/ n # 0) /\ form.unit # store.unit
    BY <1>5, <1>7, <2>2
  <2>3. CASE (how = "set" \/ n # 0) /\ form.unit = store.unit /\ after < 0
    BY <1>3, <1>7, <2>3
  <2>4. CASE (how = "set" \/ n # 0) /\ form.unit = store.unit /\ ~(after < 0)
    BY <1>6, <1>7, <2>4
  <2> QED
    BY <2>1, <2>2, <2>3, <2>4
<1> QED
  BY <1>2, <1>3, <1>4, <1>7 DEF StockStep, Message

(* A unit is chosen on a screen of its own.                                  *)
LEMMA UnitKeeps ==
  ASSUME FormInv, UnitStep
  PROVE  Keeps
<1>1. /\ ScreenFits /\ StoreTypeOK /\ form # NoForm /\ form \in Form /\ SeenFits
      /\ form.kind = "material_unit" /\ NavFits
  BY DEF FormInv, UnitStep, ScreenFits
<1>2. CASE ClearSetup /\ Unwritten
  BY <1>1, <1>2, ClearAndStart, Unsaved
<1>3. CASE Say(form) /\ Unwritten
  BY <1>1, <1>3, SayKeeps, Unsaved
<1>4. CASE /\ form.stage = 0 /\ Unwritten
           /\ Screen([form EXCEPT !.stage = 1, !.unit = store.unit], Prompt,
                     {<<"material_unit_confirm", u>> : u \in Unit})
  <2> DEFINE f == [form EXCEPT !.stage = 1, !.unit = store.unit]
             choices == {<<"material_unit_confirm", u>> : u \in Unit}
  <2>1. store.unit \in Unit
    BY <1>1 DEF StoreTypeOK
  <2>2. /\ f \in Form /\ f.kind = form.kind /\ f.composition = form.composition
        /\ f.stage = 1
    BY <1>1, <2>1, Entered
  <2>3. Screen(f, Prompt, choices)
    BY <1>4
  <2>4. \A b \in choices : b[1] = "material_unit_confirm" /\ b[2] \in Unit
    OBVIOUS
  <2> HIDE DEF f, choices
  <2>5. FrameFits([state |-> f, says |-> Prompt, choices |-> choices])
    BY <1>1, <2>2, <2>4 DEF FrameFits, ChoiceFits
  <2>6. Proceeds(f, Prompt, choices)
    BY <1>1, <1>4, <2>2, <2>4 DEF Proceeds
  <2>7. ScreenFits'
    BY <1>1, <2>2, <2>3, <2>5, <2>6, NextScreen
  <2> QED
    BY <1>1, <1>4, <2>7, Unsaved
<1>5. CASE Screen(form, Prompt, nav.current.choices) /\ Unwritten
  <2>1. ScreenFits'
    BY <1>1, <1>5, SameScreen
  <2> QED
    BY <1>1, <1>5, <2>1, Unsaved
<1> QED
  BY <1>2, <1>3, <1>4, <1>5 DEF UnitStep, Message
(* An answer to a question about a product.                                  *)
LEMMA EditKeeps ==
  ASSUME FormInv, ProductEditStep
  PROVE  Keeps
<1>1. /\ ScreenFits /\ StoreTypeOK /\ form # NoForm /\ form \in Form
      /\ form.kind = "product_edit"
  BY DEF FormInv, ProductEditStep, ScreenFits
<1> DEFINE c == form.composition
<1>2. Unwritten \/ ClearSetup
  BY DEF ProductEditStep, Message
<1>3. Unwritten
  BY DEF ProductEditStep, Message
<1>4. ASSUME ScreenFits' PROVE Keeps
  BY <1>1, <1>3, <1>4, Unsaved
<1>5. CASE ClearSetup
  BY <1>4, <1>5, ClearAndStart
<1>6. CASE Say(form)
  BY <1>1, <1>4, <1>6, SayKeeps
<1>7. CASE ProductCard(form)
  BY <1>1, <1>4, <1>7, CardKeeps
<1>8. ASSUME NEW n \in Typed, NEW how \in How,
             EditPreview([form EXCEPT !.edit.how = how, !.edit.n = n])
      PROVE  Keeps
  <2> DEFINE e == [form.edit EXCEPT !.how = how, !.n = n]
             f == [form EXCEPT !.edit.how = how, !.edit.n = n]
  <2>1. form.edit \in Edit /\ n \in Amount
    BY <1>1, FormAssumption DEF Form, Amount
  <2>2. e \in Edit
    BY <2>1 DEF Edit
  <2>3. f = [form EXCEPT !.edit = e]
    BY <1>1 DEF Form
  <2> HIDE DEF e
  <2>4. f \in Form /\ f.kind = "product_edit"
    BY <1>1, <2>2, <2>3 DEF Form
  <2> HIDE DEF f
  <2>5. EditPreview(f)
    BY <1>8 DEF f
  <2> QED
    BY <1>1, <1>4, <2>4, <2>5, PreviewKeeps
<1>9. CASE c # NoFrame /\ QuantityPrompt(form)
  <2>1. form.composition \in Composition
    BY <1>1, <1>9 DEF Form
  <2> QED
    BY <1>1, <1>4, <1>9, <2>1, QuantityKeeps
<1>10. CASE c # NoFrame /\ CompositionPreview(form)
  <2>1. form.composition \in Composition
    BY <1>1, <1>10 DEF Form
  <2> QED
    BY <1>1, <1>4, <1>10, <2>1, CompositionKeeps
<1>11. ASSUME c # NoFrame, NEW n \in Typed,
              CompositionPreview([form EXCEPT !.composition.n = n])
       PROVE  Keeps
  <2> DEFINE d == [form.composition EXCEPT !.n = n]
             f == [form EXCEPT !.composition.n = n]
  <2>1. form.composition \in Composition /\ n \in Amount
    BY <1>1, <1>11, FormAssumption DEF Form, Amount
  <2>2. d \in Composition
    BY <2>1 DEF Composition
  <2>3. f = [form EXCEPT !.composition = d]
    BY <1>1 DEF Form
  <2> HIDE DEF d
  <2>4. f \in Form /\ f.kind = "product_edit" /\ f.composition \in Composition
    BY <1>1, <2>2, <2>3 DEF Form
  <2> HIDE DEF f
  <2>5. CompositionPreview(f)
    BY <1>11 DEF f
  <2> QED
    BY <1>1, <1>4, <2>4, <2>5, CompositionKeeps
<1> HIDE DEF c
<1>12. CASE Authorized(Me)
  <2> DEFINE needs == IF c.stage = "menu" THEN "bom.read" ELSE "bom.write"
             answers ==
               \/ Say(form)
               \/ form.stage = 0 /\ ProductCard(form)
               \/ /\ form.stage = 2 /\ Can(Me, "products.write")
                  /\ \E n \in Typed, how \in How :
                       EditPreview([form EXCEPT !.edit.how = how, !.edit.n = n])
               \/ /\ c # NoFrame /\ c.stage = "material"
                  /\ QuantityPrompt(form)
               \/ /\ c # NoFrame /\ c.stage = "row"
                  /\ IF c.action = "remove" THEN CompositionPreview(form)
                     ELSE QuantityPrompt(form)
               \/ /\ c # NoFrame /\ c.stage = "quantity"
                  /\ \E n \in Typed :
                       CompositionPreview([form EXCEPT !.composition.n = n])
  <2>1. \/ Expired /\ ClearSetup
        \/ Say(form)
        \/ answers
    BY <1>12 DEF ProductEditStep, Message, c
  <2>2. answers => Keeps
    BY <1>6, <1>7, <1>8, <1>9, <1>10, <1>11
  <2> HIDE DEF answers, needs
  <2> QED
    BY <1>5, <1>6, <2>1, <2>2
<1>13. CASE ~Authorized(Me)
  BY <1>5, <1>13 DEF ProductEditStep, Message
<1> QED
  BY <1>12, <1>13

(* The buttons that every form has.                                          *)
LEMMA FormButtonsKeep ==
  ASSUME FormInv, NEW b, Exit(b) \/ Continue(b) \/ Back(b)
  PROVE  Keeps
<1>1. ScreenFits /\ StoreTypeOK /\ form # NoForm /\ NavFits /\ SeenFits
      /\ b \in live /\ Unwritten
  BY DEF FormInv, ScreenFits, Exit, Continue, Back, FormButton
<1>2. ASSUME ScreenFits' PROVE Keeps
  BY <1>1, <1>2, Unsaved
<1>3. CASE Say(form) \/ ClearSetup
  BY <1>1, <1>2, <1>3, SayKeeps, ClearAndStart
<1>4. CASE Exit(b)
  BY <1>3, <1>4 DEF Exit, FormButton
<1>5. CASE Screen(form, nav.current.says, nav.current.choices)
  BY <1>1, <1>2, <1>5, SameScreen
<1>6. CASE Continue(b)
  BY <1>3, <1>5, <1>6 DEF Continue, FormButton
<1>7. CASE Back(b)
  <2> DEFINE last == Len(nav.back)
             prev == nav.back[last]
             kind == prev.state.kind
  <2>1. b = <<"form_back">> /\ nav.back # <<>>
    BY <1>1, <1>7 DEF Back, NavFits
  <2>2. kind \in FormKind
    <3>1. IsSeq(nav.back)
      BY <1>1 DEF NavFits
    <3>2. last \in 1 .. last
      BY <2>1, <3>1, Unstacked
    <3>3. LeftFits(prev, form.kind)
      BY <1>1, <3>2 DEF NavFits
    <3> QED
      BY <3>3 DEF LeftFits, FrameFits, Form
  <2>3. \/ Say(form) \/ ClearSetup
        \/ StartSetup(kind)
        \/ /\ ~(kind \in {"material_stock", "material_unit"} /\ prev.state.stage = 0)
           /\ ScreenOf([current |-> prev, back |-> SubSeq(nav.back, 1, last - 1)],
                       prev.state, prev.says, prev.choices)
    BY <1>7 DEF Back, FormButton
  <2>4. CASE StartSetup(kind)
    BY <1>2, <2>2, <2>4, ClearAndStart
  <2>5. CASE /\ ~(kind \in {"material_stock", "material_unit"} /\ prev.state.stage = 0)
             /\ ScreenOf([current |-> prev, back |-> SubSeq(nav.back, 1, last - 1)],
                         prev.state, prev.says, prev.choices)
    <3>1. prev = nav.back[Len(nav.back)]
      OBVIOUS
    <3>2. ~(prev.state.kind \in {"material_stock", "material_unit"} /\ prev.state.stage = 0)
      BY <2>5
    <3>3. ScreenOf([current |-> prev, back |-> SubSeq(nav.back, 1, Len(nav.back) - 1)],
                   prev.state, prev.says, prev.choices)
      BY <2>5
    <3> HIDE DEF prev
    <3>4. ScreenFits'
      BY <1>1, <2>1, <3>1, <3>2, <3>3, BackKeeps
    <3> QED
      BY <1>2, <3>4
  <2> QED
    BY <1>3, <2>3, <2>4, <2>5
<1> QED
  BY <1>4, <1>6, <1>7

(* The unit that is saved is the one that was confirmed.                     *)
LEMMA UnitButtonKeeps ==
  ASSUME FormInv, NEW b, UnitButton(b)
  PROVE  Keeps
<1>1. /\ ScreenFits /\ StoreTypeOK /\ form # NoForm /\ form \in Form
      /\ NavFits /\ SeenFits /\ b \in live
      /\ b[1] \in {"material_unit_confirm", "material_unit_save"}
  BY DEF FormInv, ScreenFits, UnitButton, Button
<1>2. b \in nav.current.choices
  BY <1>1 DEF NavFits, Navigation
<1>3. ChoiceFits(b, nav.current) /\ nav.current.state = form
  BY <1>1, <1>2 DEF NavFits, FrameFits
<1>4. /\ form.kind = "material_unit" /\ b[2] \in Unit
      /\ b[1] = "material_unit_confirm" => form.stage = 1
  BY <1>1, <1>3 DEF ChoiceFits
<1>5. CASE Say(form) /\ Unwritten
  BY <1>1, <1>5, SayKeeps, Unsaved
<1>6. CASE /\ b[1] = "material_unit_confirm" /\ Unwritten
           /\ Screen([form EXCEPT !.stage = 2], Displays(b[2]),
                     {<<"material_unit_save", b[2]>>})
  <2> DEFINE f == [form EXCEPT !.stage = 2]
             says == Displays(b[2])
             choices == {<<"material_unit_save", b[2]>>}
  <2>1. /\ f \in Form /\ f.kind = "material_unit" /\ f.composition = form.composition
        /\ f.stage = 2
    BY <1>1, <1>4 DEF Form
  <2>2. Screen(f, says, choices)
    BY <1>6
  <2>3. \A x \in choices : x[1] = "material_unit_save" /\ x[2] = b[2]
    OBVIOUS
  <2> HIDE DEF f, choices
  <2>4. FrameFits([state |-> f, says |-> says, choices |-> choices])
    BY <1>4, <2>1, <2>3 DEF FrameFits, ChoiceFits
  <2>5. Proceeds(f, says, choices)
    BY <1>4, <1>6, <2>1, <2>3 DEF Proceeds
  <2>6. ScreenFits'
    BY <1>1, <2>1, <2>2, <2>4, <2>5, NextScreen
  <2> QED
    BY <1>1, <1>6, <2>6, Unsaved
<1>7. CASE /\ b[1] = "material_unit_save" /\ Authorized(Me) /\ ClearSetup
           /\ store' = [store EXCEPT !.unit = b[2]]
  <2>1. seen = Displays(b[2])
    BY <1>1, <1>2, <1>7 DEF SeenFits
  <2>2. AsShown
    BY <1>7, <2>1 DEF AsShown, Displays
  <2>3. StoreTypeOK'
    BY <1>1, <1>4, <1>7 DEF StoreTypeOK
  <2> QED
    BY <1>7, <2>2, <2>3, ClearAndStart DEF Keeps
<1> QED
  BY <1>1, <1>5, <1>6, <1>7 DEF UnitButton, Button
(* An edit writes over the value its preview showed.                         *)
LEMMA ApplyEditKeeps ==
  ASSUME FormInv, form # NoForm, <<"product_edit_save">> \in nav.current.choices,
         Authorized(Me), ApplyEdit
  PROVE  Keeps
<1>1. ScreenFits /\ StoreTypeOK /\ NavFits /\ SeenFits /\ form \in Form
  BY DEF FormInv, ScreenFits
<1> DEFINE b == <<"product_edit_save">>
           e == form.edit
<1>2. ChoiceFits(b, nav.current) /\ nav.current.state = form
  BY <1>1 DEF NavFits, FrameFits
<1>3. /\ form.kind = "product_edit"
      /\ nav.current.says = Edits(e.expected, Adjusted(e.how, e.expected, e.n))
  BY <1>2 DEF ChoiceFits
<1>4. seen = Edits(e.expected, Adjusted(e.how, e.expected, e.n))
  <2>1. Edits(e.expected, Adjusted(e.how, e.expected, e.n)) # Prompt
    BY DEF Edits, Prompt
  <2> QED
    BY <1>1, <1>3, <2>1 DEF SeenFits
<1>5. CASE ~EditCurrent
  <2>1. EditPreview(form) /\ Unwritten
    BY <1>5 DEF ApplyEdit
  <2> QED
    BY <1>1, <1>3, <2>1, PreviewKeeps, Unsaved
<1>6. CASE EditCurrent /\ EditValue(e) \notin Amount
  <2>1. Say(form) /\ Unwritten
    BY <1>6 DEF ApplyEdit
  <2> QED
    BY <1>1, <2>1, SayKeeps, Unsaved
<1>7. CASE EditCurrent /\ EditValue(e) \in Amount
  <2>1. store' = [store EXCEPT !.field = EditValue(e)] /\ ProductCard(form)
    BY <1>7 DEF ApplyEdit
  <2>2. e.expected = store.field
    BY <1>7 DEF EditCurrent
  <2>3. seen = Edits(store.field, EditValue(e))
    BY <1>4, <2>2 DEF EditValue
  <2>4. AsShown
    BY <2>1, <2>3 DEF AsShown, Edits
  <2>5. StoreTypeOK'
    BY <1>1, <1>7, <2>1 DEF StoreTypeOK
  <2>6. ScreenFits'
    BY <1>1, <1>3, <2>1, CardKeeps
  <2> QED
    BY <2>4, <2>5, <2>6 DEF Keeps
<1> QED
  BY <1>5, <1>6, <1>7

(* A composition is written over the rows its preview showed.                *)
LEMMA ApplyBOMKeeps ==
  ASSUME FormInv, form # NoForm, <<"product_edit_bom_save">> \in nav.current.choices,
         Authorized(Me), ApplyBOMChange
  PROVE  Keeps
<1>1. ScreenFits /\ StoreTypeOK /\ NavFits /\ SeenFits /\ form \in Form
  BY DEF FormInv, ScreenFits
<1> DEFINE b == <<"product_edit_bom_save">>
           c == form.composition
           amount == IF c.action = "remove" THEN 0 ELSE Base(c.unit, c.n)
           found == c.action = "add" \/ store.composed # 0
           fits == c.action = "remove" \/ c.unit = store.unit
<1>2. ChoiceFits(b, nav.current) /\ nav.current.state = form
  BY <1>1 DEF NavFits, FrameFits
<1>3. /\ form.kind = "product_edit" /\ c \in Composition /\ Composed(c) \in Amount
      /\ nav.current.says = Composes(c.version[1], Composed(c))
  BY <1>2 DEF ChoiceFits
<1>4. amount = Composed(c)
  BY DEF Composed
<1>5. seen = Composes(c.version[1], amount)
  <2>1. Composes(c.version[1], amount) # Prompt
    BY DEF Composes, Prompt
  <2> QED
    BY <1>1, <1>3, <1>4, <2>1 DEF SeenFits
<1>6. CASE CompositionPreview(form) /\ Unwritten
  BY <1>1, <1>3, <1>6, CompositionKeeps, Unsaved
<1>7. CASE QuantityPrompt(form) /\ Unwritten
  BY <1>1, <1>3, <1>7, QuantityKeeps, Unsaved
<1>8. CASE ~found
  BY <1>6, <1>8 DEF ApplyBOMChange
<1>9. CASE found /\ ~fits
  BY <1>7, <1>9 DEF ApplyBOMChange
<1>10. CASE found /\ fits /\ c.version # Snapshot
  BY <1>6, <1>10 DEF ApplyBOMChange
<1>11. CASE found /\ fits /\ c.version = Snapshot
  <2>1. store' = [store EXCEPT !.composed = amount] /\ CompositionMenu(form)
    BY <1>11 DEF ApplyBOMChange
  <2>2. seen = Composes(store.composed, amount)
    BY <1>5, <1>11 DEF Snapshot
  <2> HIDE DEF amount
  <2>3. AsShown
    BY <2>1, <2>2 DEF AsShown, Composes
  <2>4. StoreTypeOK'
    BY <1>1, <1>3, <1>4, <2>1 DEF StoreTypeOK
  <2>5. ScreenFits'
    BY <1>1, <1>3, <2>1, MenuKeeps
  <2> QED
    BY <2>3, <2>4, <2>5 DEF Keeps
<1> QED
  BY <1>8, <1>9, <1>10, <1>11

(* The buttons of a product.                                                 *)
LEMMA EditButtonKeeps ==
  ASSUME FormInv, NEW b, EditButton(b)
  PROVE  Keeps
<1>1. ScreenFits /\ StoreTypeOK /\ form # NoForm /\ form \in Form /\ NavFits /\ b \in live
  BY DEF FormInv, ScreenFits, EditButton, Button
<1>2. ASSUME b[1] \notin Navigation
      PROVE  b \in nav.current.choices /\ ChoiceFits(b, nav.current)
             /\ nav.current.state = form
  BY <1>1, <1>2 DEF NavFits, FrameFits
<1>3. CASE ClearSetup /\ Unwritten
  BY <1>1, <1>3, ClearAndStart, Unsaved
<1>4. CASE Say(form) /\ Unwritten
  BY <1>1, <1>4, SayKeeps, Unsaved
<1>5. ASSUME b[1] \in {"product_edit_field", "product_edit_type", "product_edit_save",
                       "product_edit_bom", "product_edit_bom_save",
                       "product_edit_bom_open", "product_edit_bom_back"}
      PROVE  b \in nav.current.choices /\ ChoiceFits(b, nav.current)
             /\ nav.current.state = form /\ form.kind = "product_edit"
  <2>1. b[1] \notin Navigation
    BY <1>5 DEF Navigation
  <2> QED
    BY <1>2, <1>5, <2>1 DEF ChoiceFits
<1>6. ASSUME b = <<"product_edit_field">>, Unwritten,
             \/ Say([form EXCEPT !.stage = 2, !.edit = NoEdit])
             \/ Screen([form EXCEPT !.stage = 4, !.edit = NoEdit], Prompt,
                       {<<"product_edit_type", n>> : n \in Typed})
      PROVE  Keeps
  <2> DEFINE f == [form EXCEPT !.stage = 2, !.edit = NoEdit]
             g == [form EXCEPT !.stage = 4, !.edit = NoEdit]
             choices == {<<"product_edit_type", n>> : n \in Typed}
  <2>1. form.kind = "product_edit"
    BY <1>5, <1>6
  <2>2. NoEdit \in Edit
    BY FormAssumption DEF NoEdit, Edit, Amount
  <2>3. f \in Form /\ f.kind = "product_edit" /\ g \in Form /\ g.kind = "product_edit"
    <3> DEFINE h == [form EXCEPT !.edit = NoEdit]
    <3>1. h \in Form /\ h.kind = "product_edit"
      BY <1>1, <2>1, <2>2 DEF Form
    <3>2. f = [h EXCEPT !.stage = 2] /\ g = [h EXCEPT !.stage = 4]
      BY <1>1 DEF Form
    <3> HIDE DEF f, g, h
    <3> QED
      BY <3>1, <3>2 DEF Form
  <2>4. \A x \in choices : x[1] = "product_edit_type" /\ x[2] \in Typed
    OBVIOUS
  <2>5. CASE Say(f)
    <3> HIDE DEF f
    <3> QED
      BY <1>1, <1>6, <2>1, <2>3, <2>5, EditSays, Unsaved
  <2>6. CASE Screen(g, Prompt, choices)
    <3> HIDE DEF g, choices
    <3>1. \A x \in choices :
            ChoiceFits(x, [state |-> g, says |-> Prompt, choices |-> choices])
      BY <2>3, <2>4 DEF ChoiceFits
    <3>2. ScreenFits'
      BY <1>1, <2>1, <2>3, <2>6, <3>1, EditScreen
    <3> QED
      BY <1>1, <1>6, <3>2, Unsaved
  <2> QED
    BY <1>6, <2>5, <2>6
<1>7. ASSUME b[1] = "product_edit_type", EditPreview([form EXCEPT !.edit.n = b[2]]), Unwritten
      PROVE  Keeps
  <2> DEFINE e == [form.edit EXCEPT !.n = b[2]]
             f == [form EXCEPT !.edit.n = b[2]]
  <2>1. form.kind = "product_edit" /\ b[2] \in Typed
    BY <1>5, <1>7 DEF ChoiceFits
  <2>2. form.edit \in Edit /\ b[2] \in Amount
    BY <1>1, <2>1, FormAssumption DEF Form, Amount
  <2>3. e \in Edit
    BY <2>2 DEF Edit
  <2>4. f = [form EXCEPT !.edit = e]
    BY <1>1 DEF Form
  <2> HIDE DEF e
  <2>5. f \in Form /\ f.kind = "product_edit"
    BY <1>1, <2>1, <2>3, <2>4 DEF Form
  <2> HIDE DEF f
  <2>6. EditPreview(f)
    BY <1>7 DEF f
  <2> QED
    BY <1>1, <1>7, <2>1, <2>5, <2>6, PreviewKeeps, Unsaved
<1>8. ASSUME b[1] = "product_edit_bom_open", CompositionMenu(form), Unwritten
      PROVE  Keeps
  <2>1. form.kind = "product_edit"
    BY <1>5, <1>8
  <2> QED
    BY <1>1, <1>8, <2>1, MenuKeeps, Unsaved
<1>9. ASSUME b[1] = "product_edit_bom_back", ProductCard(form), Unwritten
      PROVE  Keeps
  <2>1. form.kind = "product_edit"
    BY <1>5, <1>9
  <2> QED
    BY <1>1, <1>9, <2>1, CardKeeps, Unsaved
<1>10. ASSUME b[1] = "product_edit_bom", NEW stage \in {"material", "row"}, Unwritten,
              Say([form EXCEPT !.composition.stage = stage, !.composition.action = b[2]])
       PROVE  Keeps
  <2> DEFINE d == [form.composition EXCEPT !.stage = stage, !.action = b[2]]
             f == [form EXCEPT !.composition.stage = stage, !.composition.action = b[2]]
  <2>1. /\ form.kind = "product_edit" /\ b[2] \in {"add", "update", "remove"}
        /\ form.composition \in Composition
    BY <1>5, <1>10 DEF ChoiceFits
  <2>2. d \in Composition
    BY <2>1 DEF Composition
  <2>3. f = [form EXCEPT !.composition = d]
    BY <1>1 DEF Form
  <2> HIDE DEF d
  <2>4. f \in Form /\ f.kind = "product_edit"
    BY <1>1, <2>1, <2>2, <2>3 DEF Form
  <2> HIDE DEF f
  <2>5. Say(f)
    BY <1>10 DEF f
  <2> QED
    BY <1>1, <1>10, <2>1, <2>4, <2>5, EditSays, Unsaved
<1>11. ASSUME b = <<"product_edit_save">>, ApplyEdit, Authorized(Me) PROVE Keeps
  BY <1>1, <1>5, <1>11, ApplyEditKeeps
<1>12. ASSUME b = <<"product_edit_bom_save">>, ApplyBOMChange, Authorized(Me) PROVE Keeps
  BY <1>1, <1>5, <1>12, ApplyBOMKeeps
<1> DEFINE composes(stage) == Say([form EXCEPT !.composition.stage = stage,
                                               !.composition.action = b[2]]) /\ Unwritten
<1>13. \/ ClearSetup /\ Unwritten
       \/ Say(form) /\ Unwritten
       \/ /\ Authorized(Me)
          /\ \/ /\ b = <<"product_edit_field">> /\ form.stage = 1
                /\ \/ Say([form EXCEPT !.stage = 2, !.edit = NoEdit])
                   \/ Screen([form EXCEPT !.stage = 4, !.edit = NoEdit], Prompt,
                             {<<"product_edit_type", n>> : n \in Typed})
                /\ Unwritten
             \/ /\ b[1] = "product_edit_type" /\ form.stage = 4
                /\ EditPreview([form EXCEPT !.edit.n = b[2]]) /\ Unwritten
             \/ b = <<"product_edit_save">> /\ form.stage = 3 /\ ApplyEdit
             \/ b = <<"product_edit_bom_open">> /\ CompositionMenu(form) /\ Unwritten
             \/ b = <<"product_edit_bom_back">> /\ ProductCard(form) /\ Unwritten
             \/ b = <<"product_edit_bom", "add">> /\ composes("material")
             \/ b \in {<<"product_edit_bom", "update">>, <<"product_edit_bom", "remove">>}
                  /\ composes("row")
             \/ b = <<"product_edit_bom_save">> /\ ApplyBOMChange
  BY DEF EditButton, Button
<1>14. CASE b = <<"product_edit_bom", "add">> /\ composes("material")
  BY <1>10, <1>14
<1>15. CASE b \in {<<"product_edit_bom", "update">>, <<"product_edit_bom", "remove">>}
            /\ composes("row")
  BY <1>10, <1>15
<1>16. CASE b = <<"product_edit_bom_open">> /\ CompositionMenu(form) /\ Unwritten
  BY <1>8, <1>16
<1>17. CASE b = <<"product_edit_bom_back">> /\ ProductCard(form) /\ Unwritten
  BY <1>9, <1>17
<1> HIDE DEF composes
<1> QED
  BY <1>3, <1>4, <1>6, <1>7, <1>11, <1>12, <1>13, <1>14, <1>15, <1>16, <1>17

(* What happens around a form.                                               *)
LEMMA AroundKeeps ==
  ASSUME FormInv, OthersChange \/ Expire \/ RoleChange
  PROVE  /\ ScreenFits' /\ StoreTypeOK'
         /\ store' = store \/ formVars' = formVars
<1>1. ScreenFits /\ StoreTypeOK
  BY DEF FormInv
<1>2. CASE OthersChange
  <2>1. StoreTypeOK' /\ UNCHANGED formVars
    BY <1>1, <1>2 DEF OthersChange, StoreTypeOK
  <2>2. lapsed' \subseteq {"time", "session"} /\ UNCHANGED <<form, nav, live, seen>>
    BY <1>1, <2>1 DEF formVars, ScreenFits
  <2> QED
    BY <1>1, <2>1, <2>2, Untouched
<1>3. CASE Expire
  <2>1. lapsed' \subseteq {"time", "session"} /\ UNCHANGED <<form, nav, live, seen>>
    BY <1>1, <1>3 DEF Expire, ScreenFits
  <2>2. store' = store
    BY <1>3 DEF Expire
  <2> QED
    BY <1>1, <2>1, <2>2, Untouched DEF StoreTypeOK
<1>4. CASE RoleChange
  <2>1. lapsed' \subseteq {"time", "session"} /\ UNCHANGED <<form, nav, live, seen>>
    BY <1>1, <1>4 DEF RoleChange, formVars, ScreenFits
  <2>2. store' = store
    BY <1>4 DEF RoleChange
  <2> QED
    BY <1>1, <2>1, <2>2, Untouched DEF StoreTypeOK
<1> QED
  BY <1>2, <1>3, <1>4

(* Every step of a form keeps the invariant, and what it writes was shown.   *)
LEMMA FormKept ==
  ASSUME FormInv, [FormNext]_vars
  PROVE  /\ FormInv'
         /\ store' = store \/ formVars' = formVars \/ (Authorized(Me) /\ AsShown)
<1>1. MembersTypeOK'
  <2>1. MembersTypeOK
    BY DEF FormInv
  <2>2. \/ MemberStep \/ SelectHere(Me) \/ SelectElsewhere(Me) \/ ActiveWorkshop
        \/ UNCHANGED memberVars
    BY DEF FormNext, vars, Open, OpenRefused, Leave, Reselect, PressOld, TaskCommand,
       CreateStep, StockStep, UnitStep, ProductEditStep, Message, Exit, Continue, Back,
       FormButton, UnitButton, EditButton, Button, OthersChange, Expire, RoleChange
  <2> QED
    BY <2>1, <2>2, MemberStepsTyped
<1>2. CASE \/ \E kind \in FormKind : Open(kind) \/ OpenRefused(kind)
           \/ Leave \/ Reselect \/ PressOld
  BY <1>1, <1>2, ComingsKeep DEF Keeps, FormInv
<1>3. CASE TaskCommand
  BY <1>1, <1>3, TaskCommandKeeps DEF Keeps, FormInv
<1>4. CASE CreateStep
  BY <1>1, <1>4, CreateKeeps DEF Keeps, FormInv
<1>5. CASE StockStep
  BY <1>1, <1>5, StockKeeps DEF Keeps, FormInv
<1>6. CASE UnitStep
  BY <1>1, <1>6, UnitKeeps DEF Keeps, FormInv
<1>7. CASE ProductEditStep
  BY <1>1, <1>7, EditKeeps DEF Keeps, FormInv
<1>8. ASSUME NEW b, Exit(b) \/ Continue(b) \/ Back(b)
      PROVE  FormInv' /\ (store' = store \/ (Authorized(Me) /\ AsShown))
  BY <1>1, <1>8, FormButtonsKeep DEF Keeps, FormInv
<1>9. ASSUME NEW b, UnitButton(b)
      PROVE  FormInv' /\ (store' = store \/ (Authorized(Me) /\ AsShown))
  BY <1>1, <1>9, UnitButtonKeeps DEF Keeps, FormInv
<1>10. ASSUME NEW b, EditButton(b)
       PROVE  FormInv' /\ (store' = store \/ (Authorized(Me) /\ AsShown))
  BY <1>1, <1>10, EditButtonKeeps DEF Keeps, FormInv
<1>11. CASE OthersChange \/ Expire \/ RoleChange
  BY <1>1, <1>11, AroundKeeps DEF FormInv
<1>12. CASE UNCHANGED vars
  <2>1. UNCHANGED formVars /\ store' = store
    BY <1>12 DEF vars
  <2>2. ScreenFits'
    BY <2>1, Untouched DEF formVars, FormInv, ScreenFits
  <2> QED
    BY <1>1, <2>1, <2>2 DEF FormInv, StoreTypeOK
<1> QED
  BY <1>2, <1>3, <1>4, <1>5, <1>6, <1>7, <1>8, <1>9, <1>10, <1>11, <1>12 DEF FormNext

(* No form is open at first.                                                 *)
LEMMA FormsBegin ==
  ASSUME FormInit
  PROVE  FormInv
<1>1. MembersTypeOK
  BY FirstMembersTyped DEF FormInit
<1> QED
  BY <1>1 DEF FormInit, FormInv, StoreTypeOK, ScreenFits

-----------------------------------------------------------------------------
(* The scenes.                                                               *)

SceneInv ==
  /\ scene = "forms" => FormInv
  /\ scene = "talk" => TalkInv
  /\ scene = "memory" => MemoryInv

(* Every step of a scene is one of its component's, or leaves it alone.      *)
LEMMA SceneKept ==
  ASSUME SceneInv, [SceneNext]_dialogVars
  PROVE  /\ SceneInv'
         /\ [C!SendsAsWritten]_call /\ [C!ChangesAsProposed]_changed
         /\ [M!SavesAsProposed]_kept
         /\ [formVars' = formVars \/ (Authorized(Me) /\ AsShown)]_store
<1>1. CASE scene = "forms" /\ FormNext /\ UNCHANGED <<talkVars, memoryVars>> /\ scene' = scene
  <2>1. FormInv' /\ [formVars' = formVars \/ (Authorized(Me) /\ AsShown)]_store
    BY <1>1, FormKept DEF SceneInv
  <2> QED
    BY <1>1, <2>1 DEF SceneInv, talkVars, memoryVars
<1>2. CASE /\ scene = "talk" /\ C!ConversationNext /\ scene' = scene
           /\ UNCHANGED <<store, formVars, memoryVars>>
  <2>1. TalkInv' /\ [C!SendsAsWritten]_call /\ [C!ChangesAsProposed]_changed
    BY <1>2, TalkKept, DialogsAssumption DEF SceneInv
  <2> QED
    BY <1>2, <2>1 DEF SceneInv, memoryVars
<1>3. CASE /\ scene = "memory" /\ M!MemoryNext /\ scene' = scene
           /\ UNCHANGED <<store, formVars, talkVars>>
  <2>1. MemoryInv' /\ [M!SavesAsProposed]_kept
    BY <1>3, MemoryKept, DialogsAssumption DEF SceneInv
  <2> QED
    BY <1>3, <2>1 DEF SceneInv, talkVars
<1>4. CASE UNCHANGED dialogVars
  <2>1. scene' = scene /\ UNCHANGED talkVars /\ UNCHANGED memoryVars /\ UNCHANGED memberVars
    BY <1>4 DEF dialogVars, vars
  <2>2. UNCHANGED C!conversationVars /\ UNCHANGED M!memoryVars
    BY <2>1 DEF talkVars, memoryVars, memberVars, C!conversationVars, C!memberVars,
       C!sessionVars, C!chatVars, M!memoryVars, M!memberVars, M!talkVars
  <2>3. scene = "talk" => TalkInv'
    BY <2>2, TalkKept, DialogsAssumption DEF SceneInv
  <2>4. scene = "memory" => MemoryInv'
    BY <2>2, MemoryKept, DialogsAssumption DEF SceneInv
  <2>5. scene = "forms" => FormInv'
    <3>1. UNCHANGED vars
      BY <1>4 DEF dialogVars
    <3> QED
      BY <3>1, FormKept DEF SceneInv
  <2>6. store' = store
    BY <1>4 DEF dialogVars, vars
  <2> QED
    BY <2>1, <2>3, <2>4, <2>5, <2>6 DEF SceneInv, talkVars, memoryVars
<1> QED
  BY <1>1, <1>2, <1>3, <1>4 DEF SceneNext

(* The invariant of the dialogues: in each scene its component's.            *)
THEOREM SceneInvariance == SceneSpec => []SceneInv
<1>1. SceneInit => SceneInv
  BY FormsBegin, TalkBegins, MemoryBegins, DialogsAssumption DEF SceneInit, SceneInv
<1>2. SceneInv /\ [SceneNext]_dialogVars => SceneInv'
  BY SceneKept
<1> QED
  BY <1>1, <1>2, PTL DEF SceneSpec

(* Whatever a form writes is what the last proposal on its screens said, for *)
(* the same object and from the value it has, by a member in the workshop    *)
(* the person has selected (ApplyEdit, ApplyBOMChange, ChangeDisplayedStock, *)
(* form_navigation.go).                                                      *)
THEOREM SavedAsShownHolds == SceneSpec => SavedAsShown
<1> DEFINE A == formVars' = formVars \/ (Authorized(Me) /\ AsShown)
<1>1. SceneInv /\ [SceneNext]_dialogVars => [A]_store
  BY SceneKept
<1>2. SavedAsShown <=> [][A]_store
  BY DEF SavedAsShown
<1> HIDE DEF A
<1> QED
  BY <1>1, <1>2, SceneInvariance, PTL DEF SceneSpec

(* A payload goes to the cloud only in a mode that has one, in the workshop, *)
(* session and role its message was written in (hybridButton, Yield).        *)
THEOREM SentAsWrittenHolds == SceneSpec => SentAsWritten
<1> DEFINE A == C!SendsAsWritten
<1>1. SceneInv /\ [SceneNext]_dialogVars => [A]_call
  BY SceneKept
<1>2. SentAsWritten <=> [][A]_call
  BY DEF SentAsWritten
<1> HIDE DEF A
<1> QED
  BY <1>1, <1>2, SceneInvariance, PTL DEF SceneSpec

(* A stock changes only by the last proposal put to the person, once, in its *)
(* session and unit, by somebody who may (semantic_stock_confirm).           *)
THEOREM StockAsProposedHolds == SceneSpec => StockAsProposed
<1> DEFINE A == C!ChangesAsProposed
<1>1. SceneInv /\ [SceneNext]_dialogVars => [A]_changed
  BY SceneKept
<1>2. StockAsProposed <=> [][A]_changed
  BY DEF StockAsProposed
<1> HIDE DEF A
<1> QED
  BY <1>1, <1>2, SceneInvariance, PTL DEF SceneSpec

(* A record changes by a confirmation only as the last proposal put to the   *)
(* person says, once, in its session, by somebody who may at that moment     *)
(* (Propose, TakeProposal, SaveLongTermMemory).                              *)
THEOREM SavedAsProposedHolds == SceneSpec => SavedAsProposed
<1> DEFINE A == M!SavesAsProposed
<1>1. SceneInv /\ [SceneNext]_dialogVars => [A]_kept
  BY SceneKept
<1>2. SavedAsProposed <=> [][A]_kept
  BY DEF SavedAsProposed
<1> HIDE DEF A
<1> QED
  BY <1>1, <1>2, SceneInvariance, PTL DEF SceneSpec

(* While a command waits to be understood, "the first" and "it" mean what    *)
(* they meant when it was written (processMessage, currentList).             *)
THEOREM ReferencesCorrect == SceneSpec => []ReferencesAgree
<1>1. SceneInv => ReferencesAgree
  BY DEF SceneInv, TalkInv, ReferencesAgree, C!ReferencesAgree, FormInv, FormTypeOK,
     StoreTypeOK, ScreenFits
<1> QED
  BY <1>1, SceneInvariance, PTL

(* What is read of a session is the longest run of its last messages within  *)
(* both limits, and the newest is always part of it (AppendShortTerm,        *)
(* ShortTerm).                                                               *)
THEOREM HistoriesCorrect == SceneSpec => []HistoriesAgree
<1>1. SceneInv => HistoriesAgree
  BY HistoriesFollow, DialogsAssumption DEF SceneInv, HistoriesAgree
<1> QED
  BY <1>1, SceneInvariance, PTL
=============================================================================
