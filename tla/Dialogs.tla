------------------------------ MODULE Dialogs ------------------------------
(***************************************************************************)
(* The dialogues of a person with the bot: a form (Forms), a conversation  *)
(* with the models (Conversation) and what is remembered of it (Memory), a *)
(* scene each.  They share the people and roles of a workshop, and nothing *)
(* else that one of them writes is read by another.                        *)
(***************************************************************************)
EXTENDS Forms, Integers

CONSTANTS
  Material, None, MaxTalks,                              \* Conversation's
  Chat, Value, Nothing, Size, MaxTokens, MaxMessages,    \* Memory's
  MaxSession

VARIABLES
  scene,
  mode, open, list, call, confirms, unit, changed,
  session, pending, shown,                               \* Conversation's
  talkIn, started, rows, said, proposals, offered, kept  \* Memory's

C == INSTANCE Conversation WITH MaxSession <- MaxTalks
M == INSTANCE Memory WITH
  session <- talkIn, pending <- proposals, shown <- offered

ASSUME DialogsAssumption == C!ConversationConstants /\ M!MemoryConstants

talkVars == <<mode, session, open, list, pending, call, confirms, shown, unit, changed>>
memoryVars == <<talkIn, started, rows, said, proposals, offered, kept>>
dialogVars == <<scene, vars, talkVars, memoryVars>>

NoForms == store = None /\ form = None /\ nav = None /\ live = {} /\ seen = None /\ lapsed = {}
NoTalk == /\ mode = None /\ session = 0 /\ open = FALSE /\ unit = None /\ changed = None
          /\ list = None /\ pending = None /\ call = None /\ confirms = {} /\ shown = None
NoMemory == /\ talkIn = None /\ started = 0 /\ rows = None /\ said = None
            /\ proposals = <<>> /\ offered = None /\ kept = None

SceneInit ==
  \/ scene = "forms" /\ FormInit /\ NoTalk /\ NoMemory
  \/ scene = "talk" /\ C!ConversationInit /\ NoForms /\ NoMemory
  \/ scene = "memory" /\ M!MemoryInit /\ NoForms /\ NoTalk

SceneNext ==
  /\ UNCHANGED scene
  /\ \/ /\ scene = "forms" /\ FormNext
        /\ UNCHANGED <<talkVars, memoryVars>>
     \/ /\ scene = "talk" /\ C!ConversationNext
        /\ UNCHANGED <<store, formVars, memoryVars>>
     \/ /\ scene = "memory" /\ M!MemoryNext
        /\ UNCHANGED <<store, formVars, talkVars>>

SceneSpec == SceneInit /\ [][SceneNext]_dialogVars

-----------------------------------------------------------------------------
(* A payload goes to the cloud only in a mode that has one, in the workshop, *)
(* session and role its message was written in (Conversation!SentAsWritten:  *)
(* hybridButton, Yield).                                                     *)
SentAsWritten == [][C!SendsAsWritten]_call

(* A stock changes only by the last proposal put to the person, once, by     *)
(* somebody who may (Conversation!StockAsProposed: semantic_stock_confirm).  *)
StockAsProposed == [][C!ChangesAsProposed]_changed

(* Forms and conversation have their types, and while a command waits to be  *)
(* understood, "the first" and "it" do not come to mean another material     *)
(* than when it was written (Conversation!ReferencesHold: processMessage).   *)
ReferencesAgree ==
  /\ scene = "forms" => FormTypeOK
  /\ scene = "talk" => C!ReferencesAgree

(* A record changes only as the last proposal put to the person says, once,  *)
(* in its session and with the right (Memory!SavedAsProposed: TakeProposal). *)
SavedAsProposed == [][M!SavesAsProposed]_kept

(* The memory has its types, and what is read of a session is the longest    *)
(* run of its last messages within both limits (Memory!HistoryIsRecent:      *)
(* AppendShortTerm, ShortTerm).                                              *)
HistoriesAgree == scene = "memory" => M!HistoriesAgree
=============================================================================
