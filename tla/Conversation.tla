---------------------------- MODULE Conversation ----------------------------
(***************************************************************************)
(* Free conversation with the bot (internal/telegram: hybrid.go,           *)
(* semantic.go, material_reference.go; internal/llm: hybrid.go, router.go, *)
(* semantic.go) for one person's one chat.  A message is routed and        *)
(* understood by model calls, each of which releases the application lock; *)
(* what a model understood is executed against the list last shown in the  *)
(* chat; a payload goes to the cloud only when its button is pressed; and  *)
(* a stock change is a proposal whose button is pressed later.  Between    *)
(* these steps other members act, time passes and the process restarts.    *)
(* The person's own requests are served one at a time (Admission), so      *)
(* nothing else of theirs happens while a call is awaited.                 *)
(***************************************************************************)
EXTENDS Members, Naturals

CONSTANTS
  Me,          \* whose chat this is
  Material,    \* the materials of the workshop
  None,        \* no call, pending payload, list, material or proposal
  MaxSession   \* bound of the instance on the conversation sessions

VARIABLES
  mode,      \* Hybrid.Policy.Mode; AUTO and CLOUD_ONLY with a cloud configured
  session,   \* the last conversation_sessions row of the chat
  open,      \* and whether it is active
  list,      \* materialLists: what "the first" and "it" refer to
  pending,   \* hybridPending: the payload a button of the chat would send
  call,      \* the model call the person's request waits for
  confirms,  \* the live semantic_stock_confirm buttons
  shown,     \* the last stock change put to the person and not yet made
  unit,      \* the working unit of each material
  changed    \* changed[m]: parity of the stock changes made in this chat

chatVars == <<list, pending, call, confirms, shown, changed>>
sessionVars == <<session, open>>
conversationVars == <<memberVars, sessionVars, chatVars, mode, unit>>

Mode == {"LOCAL_ONLY", "AUTO", "CLOUD_ONLY"}
Unit == {"g", "kg"}
Session == 1 .. MaxSession
List == [session : Session, first : Material \cup {None}, last : Material \cup {None}]
Proposal == [material : Material, session : Session, unit : Unit]

ConversationConstants ==
  /\ Me \in User
  /\ None \notin Material \cup Proposal
  /\ MaxSession \in Nat

\* What a request was written under.
Written == [role : MemberRole, session : Session, list : List \cup {None}]
Kind == {"command", "answer"}
Pending == [stage : {"consent", "recheck"}, kind : Kind, role : MemberRole,
            written : Written]
Call == [at : {"route", "interpret", "cloud"}, kind : Kind, role : MemberRole,
         written : Written]

-----------------------------------------------------------------------------
\* EnsureSession: the active session of the chat, or a new one.
Ensured == IF open THEN session ELSE session + 1
EnsureSession ==
  /\ Ensured <= MaxSession
  /\ session' = Ensured /\ open' = TRUE

\* currentList: a list of an earlier session is dropped.
CurrentList == IF list # None /\ open /\ list.session = session THEN list ELSE None

\* resolveSemantic: a position in the list, the last material, or a name.
Reference == {"list_position", "last"} \cup Material
Resolve(r) ==
  CASE r \in Material -> r
    [] r = "last" -> IF CurrentList = None THEN None ELSE CurrentList.last
    [] r = "list_position" -> IF CurrentList = None THEN None ELSE CurrentList.first

Referred == {Resolve(r) : r \in Reference} \ {None}

\* selectMaterial, rememberMaterialList.
Selected(m) ==
  [session |-> Ensured, last |-> m,
   first |-> IF CurrentList = None THEN None ELSE CurrentList.first]
Listed(m) == [session |-> Ensured, last |-> None, first |-> m]

\* invalidateSemantic.
InvalidateSemantic == confirms' = {}

\* Variant TLC must refute: the earlier proposals keep their buttons.
ProposeChangeBeside ==
  /\ UNCHANGED changed
  /\ Can(Me, "inventory.write")
  /\ \E m \in Referred :
       LET p == [material |-> m, session |-> session, unit |-> unit[m]]
       IN list' = Selected(m) /\ confirms' = confirms \cup {p} /\ shown' = p

\* change_material_stock: the earlier proposals are withdrawn, whatever follows.
ProposeChange ==
  /\ UNCHANGED changed
  /\ \/ InvalidateSemantic /\ UNCHANGED <<list, shown>>
     \/ /\ Can(Me, "inventory.write")
        /\ \E m \in Referred :
             LET p == [material |-> m, session |-> session, unit |-> unit[m]]
             IN /\ list' = Selected(m)
                /\ \/ InvalidateSemantic /\ UNCHANGED shown
                   \/ confirms' = {p} /\ shown' = p

\* executeSemantic.
Execute ==
  \/ UNCHANGED <<list, confirms, shown, changed>>
  \/ Authorized(Me) /\ ProposeChange
  \/ /\ Authorized(Me)
     /\ \/ \E m \in Material : list' = Listed(m)
        \/ \E m \in Referred : list' = Selected(m)
     /\ UNCHANGED <<confirms, shown, changed>>

-----------------------------------------------------------------------------
\* processMessage: a text takes the pending payload of the chat away.
Text ==
  /\ call = None /\ Authorized(Me)
  /\ pending' = None
  /\ UNCHANGED <<memberVars, mode, unit>>

\* A free text is put to the router.
Write ==
  /\ Text /\ EnsureSession
  /\ call' = [at |-> "route", kind |-> "command", role |-> role[Me],
              written |-> [role |-> role[Me], session |-> Ensured, list |-> list]]
  /\ UNCHANGED <<list, confirms, shown, changed>>

\* A command, a text of a form: no model call.  /materials, /stock, /setup.
Command ==
  /\ Text /\ EnsureSession
  /\ \/ UNCHANGED list
     \/ list' = None
     \/ \E m \in Material : list' \in {Listed(m), Selected(m)}
  /\ UNCHANGED <<call, confirms, shown, changed>>

\* /session new.
NewSession ==
  /\ Text
  /\ session < MaxSession /\ session' = session + 1 /\ open' = TRUE
  /\ list' = None /\ InvalidateSemantic
  /\ UNCHANGED <<call, shown, changed>>

\* Variant TLC must refute: the request resumes whatever happened meanwhile.
ResumesAnyway == call.role \in MemberRole

\* The check of Yield's resume, and hybridButton's after the cloud.
Undisturbed == Authorized(Me) /\ role[Me] = call.role

\* The payload that holds a question and its answer refers to no list.
Payload(stage, kind) ==
  [stage |-> stage, kind |-> kind, role |-> role[Me],
   written |-> IF kind = "command" THEN call.written
               ELSE [call.written EXCEPT !.list = None]]

\* keepHybrid behind consentScreen: the payload waits for its button.
Ask(kind) ==
  /\ mode # "LOCAL_ONLY"
  /\ pending' = Payload("consent", kind)
  /\ call' = None

\* hybridRecheckButton under an answer.
OfferRecheck ==
  /\ pending' = IF mode = "LOCAL_ONLY" THEN None ELSE Payload("recheck", "answer")
  /\ call' = None

\* The request ends in an error: cancelled, refused, beyond a limit, invalid.
Abandoned ==
  /\ call' = None
  /\ UNCHANGED <<pending, list, confirms, shown, changed>>

Still == UNCHANGED <<memberVars, sessionVars, mode, unit>>

\* MessageRouter.Route returns; a failed routing is a workshop request.
Routed ==
  /\ call # None /\ call.at = "route" /\ Still
  /\ \/ Abandoned
     \/ Undisturbed /\ Ask("answer") /\ UNCHANGED <<list, confirms, shown, changed>>
     \/ Undisturbed /\ mode # "CLOUD_ONLY" /\ OfferRecheck
          /\ UNCHANGED <<list, confirms, shown, changed>>
     \/ Undisturbed /\ Execute /\ OfferRecheck
     \/ Undisturbed /\ Ask("command") /\ UNCHANGED <<list, confirms, shown, changed>>
     \/ /\ Undisturbed /\ mode # "CLOUD_ONLY"
        /\ call' = [call EXCEPT !.at = "interpret", !.role = role[Me]]
        /\ UNCHANGED <<pending, list, confirms, shown, changed>>

\* HybridClient.Interpret returns; AUTO asks the cloud after a local failure.
Interpreted ==
  /\ call # None /\ call.at = "interpret" /\ Still
  /\ \/ Abandoned
     \/ Undisturbed /\ Execute /\ OfferRecheck
     \/ Undisturbed /\ mode = "AUTO" /\ Ask("command")
          /\ UNCHANGED <<list, confirms, shown, changed>>

-----------------------------------------------------------------------------
\* hybridButton, behind executeButton's own check of the workshop.
MayResume ==
  /\ Authorized(Me)
  /\ role[Me] = pending.role
  /\ open /\ session = pending.written.session
  /\ mode # "LOCAL_ONLY"

PressHybrid ==
  /\ call = None /\ pending # None /\ Still
  /\ UNCHANGED <<list, confirms, shown, changed>>

\* hybrid_consent.
Consent ==
  /\ PressHybrid /\ pending.stage = "consent" /\ MayResume
  /\ pending' = None
  /\ call' = [at |-> "cloud", kind |-> pending.kind, role |-> role[Me],
              written |-> pending.written]

\* hybrid_recheck: the question what would be sent, for the same role.
Recheck ==
  /\ PressHybrid /\ pending.stage = "recheck" /\ MayResume
  /\ pending' = [pending EXCEPT !.stage = "consent"]
  /\ UNCHANGED call

\* hybrid_cancel, a refused press, expiry, and eviction beyond 256 payloads.
DropPending ==
  /\ PressHybrid
  /\ pending' = None
  /\ UNCHANGED call

\* HybridClient.Resume returns: only a first interpretation is executed.
Answered ==
  /\ call # None /\ call.at = "cloud" /\ Still
  /\ \/ Abandoned
     \/ /\ Undisturbed
        /\ IF call.kind = "command" THEN Execute
           ELSE UNCHANGED <<list, confirms, shown, changed>>
        /\ call' = None /\ UNCHANGED pending

\* Variant TLC must refute: other buttons leave the payload pending.
KeepsPending == UNCHANGED pending
\* handleConfirmation: every button but the hybrid ones drops the payload.
OtherButton == pending' = None

\* semantic_stock_confirm: the session, the unit on the screen, the right and
\* the balance are read again; the button and its rivals are gone in any case.
Unchanged(p) ==
  /\ Authorized(Me) /\ Can(Me, "inventory.write")
  /\ open /\ session = p.session
  /\ unit[p.material] = p.unit

PressConfirm ==
  /\ call = None /\ OtherButton
  /\ \E p \in confirms :
       IF ~Authorized(Me)
       THEN confirms' = confirms \ {p} /\ UNCHANGED <<list, shown, changed>>
       ELSE /\ InvalidateSemantic
            /\ \/ UNCHANGED <<list, shown, changed>>
               \/ /\ Unchanged(p)
                  /\ changed' = [changed EXCEPT ![p.material] = 1 - @]
                  /\ list' = Selected(p.material)
                  /\ shown' = None
  /\ UNCHANGED call /\ Still

\* The other buttons: a menu, another list, semantic_cancel.
PressMenu ==
  /\ call = None /\ Authorized(Me) /\ OtherButton
  /\ \/ UNCHANGED <<list, confirms>> /\ UNCHANGED sessionVars
     \/ InvalidateSemantic /\ UNCHANGED list /\ UNCHANGED sessionVars
     \/ /\ EnsureSession
        /\ \E m \in Material : list' = Listed(m)
        /\ UNCHANGED confirms
  /\ UNCHANGED <<memberVars, mode, unit, call, shown, changed>>

\* clear_execute.
Clear ==
  /\ call = None /\ OtherButton
  /\ open' = FALSE
  /\ list' = None /\ InvalidateSemantic
  /\ UNCHANGED <<memberVars, session, mode, unit, call, shown, changed>>

\* switch_to here or in another chat: SetActiveWorkshop closes every session.
Switch ==
  /\ call = None
  /\ SelectElsewhere(Me) \/ SelectHere(Me)
  /\ open' = FALSE
  /\ \/ OtherButton /\ list' = None
     \/ UNCHANGED <<pending, list>>
  /\ UNCHANGED <<session, mode, unit, call, confirms, shown, changed>>

-----------------------------------------------------------------------------
\* Fifteen minutes pass for the list or for a button.
Expire ==
  /\ \/ list # None /\ list' = None /\ UNCHANGED confirms
     \/ \E p \in confirms : confirms' = confirms \ {p} /\ UNCHANGED list
  /\ UNCHANGED <<pending, call, shown, changed>> /\ Still

\* The process restarts, perhaps with another mode: sessions are stored.
Restart ==
  /\ mode' \in Mode
  /\ list' = None /\ pending' = None /\ call' = None /\ confirms' = {}
  /\ UNCHANGED <<memberVars, sessionVars, unit, shown, changed>>

\* SetDisplayUnit, by whoever may: in this chat only between its requests.
UnitChange ==
  /\ \E u \in User, m \in Material, v \in Unit :
       /\ Can(u, "inventory.write")
       /\ u = Me => call = None
       /\ unit' = [unit EXCEPT ![m] = v]
  /\ UNCHANGED <<memberVars, sessionVars, mode>> /\ UNCHANGED chatVars

RoleChange ==
  /\ MemberStep \/ (call = None /\ LoseContext(Me))
  /\ UNCHANGED <<sessionVars, mode, unit>> /\ UNCHANGED chatVars

ConversationInit ==
  /\ \E owner \in User \ {Me} : MembersInit(owner)
  /\ mode \in Mode
  /\ session = 0 /\ open = FALSE
  /\ list = None /\ pending = None /\ call = None /\ confirms = {} /\ shown = None
  /\ unit = [m \in Material |-> "g"]
  /\ changed = [m \in Material |-> 0]

ConversationNext ==
  \/ Write \/ Command \/ NewSession
  \/ Routed \/ Interpreted \/ Answered
  \/ Consent \/ Recheck \/ DropPending
  \/ PressConfirm \/ PressMenu \/ Clear \/ Switch
  \/ Expire \/ Restart \/ UnitChange \/ RoleChange

ConversationSpec == ConversationInit /\ [][ConversationNext]_conversationVars

-----------------------------------------------------------------------------
ConversationTypeOK ==
  /\ MembersTypeOK
  /\ mode \in Mode /\ session \in 0 .. MaxSession /\ open \in BOOLEAN
  /\ list \in List \cup {None}
  /\ pending \in Pending \cup {None}
  /\ call \in Call \cup {None}
  /\ confirms \subseteq Proposal /\ shown \in Proposal \cup {None}
  /\ unit \in [Material -> Unit] /\ changed \in [Material -> {0, 1}]

SendsAsWritten ==
  call' # None /\ call'.at = "cloud" =>
    /\ mode # "LOCAL_ONLY" /\ Authorized(Me)
    /\ role[Me] = call'.written.role
    /\ open /\ session = call'.written.session

(* A payload goes to the cloud only in a mode that has one, in the workshop,  *)
(* the session and the role in which its message was written: whatever came   *)
(* between the message, the calls that failed to answer it, the question      *)
(* whether to send it and the press (hybridButton, Yield).                    *)
SentAsWritten == [][SendsAsWritten]_call

(* While a command waits to be understood, by a model or behind the button    *)
(* that would let the cloud read it, "the first" and "it" do not come to mean *)
(* another material than when it was written: no menu, reading or confirmed   *)
(* change of the chat replaces the list it refers to (handleConfirmation,     *)
(* processMessage, currentList).                                              *)
ReferencesHold ==
  /\ call # None /\ call.kind = "command" => list \in {None, call.written.list}
  /\ pending # None /\ pending.kind = "command" => list \in {None, pending.written.list}

(* And everything has its type.                                               *)
ReferencesAgree == ConversationTypeOK /\ ReferencesHold

ChangesAsProposed ==
  /\ shown # None /\ shown' = None
  /\ \A m \in Material : changed'[m] # changed[m] => m = shown.material
  /\ open /\ session = shown.session /\ unit[shown.material] = shown.unit
  /\ here[Me] /\ Can(Me, "inventory.write")

(* A stock changes only by the last proposal put to the person, once, while   *)
(* the session it was made in lasts, in the unit it showed and by somebody    *)
(* who may write stock at that moment (semantic_stock_confirm).               *)
StockAsProposed == [][ChangesAsProposed]_changed
=============================================================================
