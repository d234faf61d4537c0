----------------------------- MODULE MCDialogs -----------------------------
(***************************************************************************)
(* An instance of Dialogs for TLC.                                         *)
(***************************************************************************)
EXTENDS Dialogs, FiniteSets, TLC

CONSTANTS
  Item,       \* two drafts, materials, or things remembered
  c1, c2      \* the person's two chats

Interchangeable == Permutations(Item)

\* So are the chats: the first is talked in before the second.
FirstChatFirst == started = 1 => talkIn[c2] = 0

\* No step of a conversation reads a proposal without its button, or how often a
\* stock changed.
Seen ==
  <<scene, vars, mode, session, open, list, pending, call, confirms,
    IF confirms = {} THEN None ELSE shown, unit, memoryVars>>

AtRest(kinds) ==
  /\ "field" \in kinds => store.field = 0
  /\ "composed" \in kinds => store.composed = 0
  /\ "stock" \in kinds => store.stock = 0
  /\ "unit" \in kinds => store.unit = "g"

\* forms: the rows a kind of form neither reads nor writes stay at rest; leaving a
\* form leads to a state like an initial one, and all of these are initial.
OpenedOver(kind) ==
  CASE kind \in {"material", "product"} -> AtRest({"field", "composed", "stock", "unit"})
    [] kind = "product_edit" ->
         AtRest({"stock", "composed", "unit"}) \/ AtRest({"stock", "field"})
    [] kind = "material_stock" -> AtRest({"field", "composed"})
    [] kind = "material_unit" -> AtRest({"field", "composed", "stock"})

ReadBy ==
  CASE form.kind = "product_edit" /\ form.composition = None -> {"field"}
    [] form.kind = "product_edit" /\ form.composition # None -> {"composed", "unit"}
    [] form.kind = "material_stock" -> {"stock", "unit"}
    [] form.kind = "material_unit" -> {"unit"}
    [] OTHER -> {}

Relevant ==
  /\ role'[Me] # "OWNER"
  /\ scene = "forms" =>
       /\ form = None => form' # None /\ OpenedOver(form'.kind)
       /\ form # None /\ form' # None /\ form.kind # form'.kind => OpenedOver(form'.kind)
       /\ form # None /\ UNCHANGED formVars =>
            \A kind \in {"field", "composed", "stock", "unit"} \ ReadBy :
              store'[kind] = store[kind]

\* forms: one thing at a time changes under an open form.
OneChange ==
  form # None =>
    Cardinality((IF role[Me] = "ADMIN" THEN {} ELSE {"role"})
                \cup (IF here[Me] THEN lapsed ELSE {"elsewhere"} \cup (lapsed \ {"session"})))
      <= 1

\* forms: how often a preview may be sent back to its prompt.
Shallow == form # None /\ form.kind = "product_edit" => Len(nav.back) <= 2

\* memory: the histories are followed while nothing has been proposed or kept, in
\* one chat.
Apart ==
  scene = "memory" =>
    \/ \A c \in {c1, c2} : said[c] = <<>>
    \/ proposals = <<>> /\ started = 1 /\ \A s \in M!Subject : kept[s] = None
=============================================================================
