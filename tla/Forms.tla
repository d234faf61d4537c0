------------------------------- MODULE Forms -------------------------------
(***************************************************************************)
(* The data-entry forms of a chat (internal/telegram: setupSession,        *)
(* form_navigation.go, materials.go, product_edit.go, composition.go) and  *)
(* the services they write through.  One person fills in one form of one   *)
(* chat with messages and buttons; meanwhile the others of the workshop    *)
(* change the same data, the person's role changes, and the person selects *)
(* another workshop from another chat.                                     *)
(*                                                                         *)
(* The workshop holds one material (stock, working unit), one product with *)
(* one edited field, and one row of its composition; what a creation form  *)
(* saves is its draft.                                                     *)
(***************************************************************************)
EXTENDS Members, Naturals, Sequences

CONSTANTS
  Me,            \* whose chat this is
  Draft,         \* what may be entered for a new material or product
  NoDraft,
  Typed,         \* the numbers that may be typed
  How,           \* and how: "10" sets, "+2" adds, "-2" takes
  MaxAmount,     \* bound of the instance on amounts
  MaxBack,       \* bound of the instance on the steps kept for "Back"
  NoForm,
  NoFrame

ASSUME FormAssumption ==
  /\ Me \in User
  /\ NoDraft \notin Draft
  /\ Typed \subseteq 0 .. MaxAmount
  /\ "set" \in How /\ How \subseteq {"set", "add", "take"}
  /\ {MaxAmount, MaxBack} \subseteq Nat

VARIABLES
  store,   \* the rows of the workshop the forms write
  form,    \* Bot.setup of the chat
  nav,     \* formNavigation: the step on the screen and the ones before it
  live,    \* the buttons of the form in Bot.buttons
  seen,    \* the last screen since the card, the menu or the first prompt that
           \* said what would be saved
  lapsed   \* what the form was opened under and no longer holds: its fifteen
           \* minutes ("time"), its conversation session ("session")

formVars == <<form, nav, live, seen, lapsed>>
vars == <<memberVars, store, formVars>>

Amount == 0 .. MaxAmount
Unit == {"g", "kg"}
\* ConvertToBase, with a kilogram of two grams.
Base(unit, n) == IF unit = "kg" THEN 2 * n ELSE n

Adjusted(how, old, n) ==
  CASE how = "set" -> n [] how = "add" -> old + n [] how = "take" -> old - n

Edit == [how : How, n : Amount, expected : Amount \cup {NoDraft}]
NoEdit == [how |-> "set", n |-> 0, expected |-> NoDraft]
\* compositionInput; version is the hash of the rows and their working units.
Composition == [stage : {"menu", "material", "row", "quantity", "confirm"},
                action : {"none", "add", "update", "remove"},
                n : Amount, unit : Unit \cup {NoDraft},
                version : (Amount \X Unit) \cup {NoDraft}]
FormKind == {"material", "product", "material_stock", "material_unit",
             "product_edit"}
Form == [kind : FormKind, stage : 0 .. 5, draft : Draft \cup {NoDraft},
         unit : Unit \cup {NoDraft}, edit : Edit,
         composition : Composition \cup {NoFrame}]

\* What a screen says will be saved.
Prompt == [what |-> "prompt"]
Creates(d) == [what |-> "create", new |-> d]
Counts(unit) == [what |-> "stock", unit |-> unit]
Displays(unit) == [what |-> "unit", unit |-> unit]
Edits(old, new) == [what |-> "edit", old |-> old, new |-> new]
Composes(old, new) == [what |-> "composition", old |-> old, new |-> new]

-----------------------------------------------------------------------------
\* formStep: the step a screen belongs to.
Step(f) == IF f.composition = NoFrame THEN <<f.kind, f.stage>>
           ELSE <<f.kind, f.stage, f.composition.stage, f.composition.action>>

\* The card of a product and the menu of its composition start afresh.
Root(f) == f.kind = "product_edit" /\ f.stage = 1
             /\ (f.composition = NoFrame \/ f.composition.stage = "menu")

NoNav == [current |-> NoFrame, back |-> <<>>]

\* formChoices and screen: the buttons of the earlier screens are deleted, the
\* step that is left is remembered, the new screen gets its own buttons.
ScreenOf(n, f, says, choices) ==
  LET back == CASE Root(f) -> <<>>
                [] ~Root(f) /\ Step(n.current.state) = Step(f) -> n.back
                [] OTHER -> Append(n.back, n.current)
  IN /\ Len(back) <= MaxBack
     /\ form' = f
     /\ nav' = [current |-> [state |-> f, says |-> says, choices |-> choices],
                back |-> back]
     /\ live' = choices \cup {<<"form_cancel">>, <<"form_home">>}
                  \cup (IF back = <<>> THEN {} ELSE {<<"form_back">>})
     /\ seen' = IF says = Prompt /\ ~Root(f) THEN seen ELSE says
     /\ UNCHANGED lapsed

Screen(f, says, choices) == ScreenOf(nav, f, says, choices)
\* sendMessage in a chat with a form is a screen of the form, without buttons.
Say(f) == Screen(f, Prompt, {})

\* clearSetup.
ClearSetup ==
  /\ form' = NoForm /\ nav' = NoNav /\ live' = {} /\ seen' = Prompt
  /\ lapsed' = {}

\* startSetup and the first prompt of the form.
StartSetup(kind) ==
  LET f == [kind |-> kind, stage |-> 0, draft |-> NoDraft, unit |-> NoDraft,
            edit |-> NoEdit, composition |-> NoFrame]
  IN /\ form' = f
     /\ nav' = [current |-> [state |-> f, says |-> Prompt, choices |-> {}],
                back |-> <<>>]
     /\ live' = {<<"form_cancel">>, <<"form_home">>}
     /\ seen' = Prompt /\ lapsed' = {}

\* Service.ActiveWorkshop drops a selection that became inaccessible.
ActiveWorkshop ==
  /\ here' = [here EXCEPT ![Me] = Authorized(Me)]
  /\ UNCHANGED role

Unwritten == UNCHANGED store

-----------------------------------------------------------------------------
(* The menus' buttons and commands belong to no form and stay usable, so a  *)
(* form may be opened at any time, in the place of another.                 *)

PermissionFor(kind) ==
  CASE kind = "product" -> "products.write"
    [] kind = "product_edit" -> "products.read"
    [] OTHER -> "inventory.write"

\* materials_add, materials_edit, materials_unit, product_add, product_edit_open.
Open(kind) ==
  /\ Authorized(Me) /\ Can(Me, PermissionFor(kind))
  /\ StartSetup(kind)
  /\ UNCHANGED <<memberVars, store>>

\* A refused press is answered; product_add has left the form by then.
OpenRefused(kind) ==
  /\ form # NoForm
  /\ ~(Authorized(Me) /\ Can(Me, PermissionFor(kind)))
  /\ IF kind = "product" /\ Authorized(Me) THEN ClearSetup ELSE Say(form)
  /\ ActiveWorkshop /\ Unwritten

\* /products, /materials, /start, /clear, /session new, switch_to, accept, home:
\* whatever they show, they leave the form.
Leave ==
  /\ form # NoForm
  /\ ClearSetup /\ ActiveWorkshop /\ Unwritten

\* switch_to in this chat and in another: sessions of the user are closed.
Reselect ==
  /\ SelectElsewhere(Me) \/ SelectHere(Me)
  /\ \/ ClearSetup
     \/ lapsed' = (IF form = NoForm THEN {} ELSE lapsed \cup {"session"})
          /\ UNCHANGED <<form, nav, live, seen>>
  /\ Unwritten

\* An expired or used button, and a text the form has no use for.
PressOld ==
  /\ form # NoForm
  /\ Say(form)
  /\ UNCHANGED <<memberVars, store>>

-----------------------------------------------------------------------------
(* checkProductEdit: expired forms are left; other refusals are answered.   *)
Expired == form.kind = "product_edit" /\ "time" \in lapsed
Refused == form.kind = "product_edit"
             /\ (~Can(Me, "products.read") \/ "session" \in lapsed)

\* EditValue of what was typed, for the product as it is now.
EditValue(e) == Adjusted(e.how, store.field, e.n)

\* productCard.
ProductCard(f) ==
  Screen([f EXCEPT !.stage = 1, !.composition = NoFrame, !.edit = NoEdit], Prompt,
         {<<"product_edit_back">>}
         \cup (IF Can(Me, "products.write") THEN {<<"product_edit_field">>} ELSE {})
         \cup (IF Can(Me, "bom.read") THEN {<<"product_edit_bom_open">>} ELSE {}))

\* productEditPreview: what stands now is what the saving will compare with.
EditPreview(f) ==
  IF EditValue(f.edit) \notin Amount THEN Say([f EXCEPT !.stage = 2])
  ELSE Screen([f EXCEPT !.stage = 3, !.edit.expected = store.field],
              Edits(store.field, EditValue(f.edit)), {<<"product_edit_save">>})

Snapshot == <<store.composed, store.unit>>

\* compositionMenu.
CompositionMenu(f) ==
  Screen([f EXCEPT !.composition = [stage |-> "menu", action |-> "none", n |-> 0,
                                    unit |-> NoDraft, version |-> Snapshot]],
         Prompt,
         {<<"product_edit_bom_back">>} \cup
         IF ~Can(Me, "bom.write") THEN {}
         ELSE {<<"product_edit_bom", "add">>} \cup
              IF store.composed = 0 THEN {}
              ELSE {<<"product_edit_bom", "update">>, <<"product_edit_bom", "remove">>})

\* compositionSelection: the row an addition or a change is about still is there.
Selected(action) == (store.composed = 0) <=> (action = "add")

\* compositionQuantityPrompt.
QuantityPrompt(f) ==
  IF Selected(f.composition.action)
  THEN Say([f EXCEPT !.composition.stage = "quantity",
                     !.composition.unit = store.unit,
                     !.composition.version = Snapshot, !.composition.n = 0])
  ELSE CompositionMenu(f)

\* compositionPreview.
CompositionPreview(f) ==
  LET c == f.composition
      amount == IF c.action = "remove" THEN 0 ELSE Base(c.unit, c.n)
  IN CASE ~Selected(c.action) -> CompositionMenu(f)
       [] Selected(c.action) /\ c.action # "remove" /\ c.unit # store.unit ->
            QuantityPrompt(f)
       [] Selected(c.action) /\ c.action # "remove" /\ c.unit = store.unit
            /\ amount \notin Amount \ {0} ->
            Say([f EXCEPT !.composition.stage = "quantity"])
       [] OTHER ->
            Screen([f EXCEPT !.composition.stage = "confirm",
                             !.composition.version = Snapshot],
                   Composes(store.composed, amount), {<<"product_edit_bom_save">>})

-----------------------------------------------------------------------------
(* Messages.  formMessage comes before every other reading of a text: words *)
(* of leaving are Leave, and a form opened where the person no longer is or *)
(* may no longer look is left whatever the text says.                       *)

Message(Then) ==
  /\ form # NoForm
  /\ ActiveWorkshop
  /\ IF Authorized(Me) THEN Then ELSE ClearSetup /\ Unwritten

\* A task command: the question whether to leave replaces the screen, not the
\* step, so that "continue" shows the step again.
TaskCommand ==
  Message(/\ live' = {<<"form_continue">>, <<"form_task">>, <<"form_cancel">>,
                      <<"form_home">>}
                       \cup (IF nav.back = <<>> THEN {} ELSE {<<"form_back">>})
          /\ UNCHANGED <<form, nav, seen, lapsed>> /\ Unwritten)

\* handleSetupStep: a new material or product, asked field by field.
CreateStep ==
  /\ form # NoForm /\ form.kind \in {"material", "product"}
  /\ Message(
       IF ~Can(Me, PermissionFor(form.kind)) THEN ClearSetup /\ Unwritten
       ELSE \/ Say(form) /\ Unwritten
            \/ /\ form.stage = 0
               /\ \E d \in Draft : Say([form EXCEPT !.stage = 1, !.draft = d])
               /\ Unwritten
            \/ form.stage \in 1 .. 3 /\ Say([form EXCEPT !.stage = @ + 1]) /\ Unwritten
            \/ /\ form.stage = 4
               /\ Screen([form EXCEPT !.stage = 5], Creates(form.draft), {})
               /\ Unwritten
            \/ form.stage = 5 /\ ClearSetup /\ Unwritten
            \/ /\ form.stage = 5
               /\ store' = [store EXCEPT !.saved = form.draft]
               /\ ClearSetup)

\* ChangeDisplayedStock, in the working unit the form showed.
StockStep ==
  /\ form # NoForm /\ form.kind = "material_stock"
  /\ Message(
       IF ~Can(Me, "inventory.write") THEN ClearSetup /\ Unwritten
       ELSE \/ Say(form) /\ Unwritten
            \/ /\ form.stage = 0
               /\ Screen([form EXCEPT !.stage = 1, !.unit = store.unit],
                         Counts(store.unit), {})
               /\ Unwritten
            \/ /\ form.stage = 1
               /\ \E n \in Typed, how \in How :
                    LET after == Adjusted(how, store.stock, Base(form.unit, n))
                    IN /\ after <= MaxAmount
                       /\ CASE how # "set" /\ n = 0 -> Say(form) /\ Unwritten
                            [] (how = "set" \/ n # 0) /\ form.unit # store.unit ->
                                 Say([form EXCEPT !.stage = 0]) /\ Unwritten
                            [] (how = "set" \/ n # 0) /\ form.unit = store.unit
                                 /\ after < 0 -> Say(form) /\ Unwritten
                            [] OTHER -> store' = [store EXCEPT !.stock = after]
                                          /\ ClearSetup)

\* The unit is chosen and confirmed with buttons; texts repeat them.
UnitStep ==
  /\ form # NoForm /\ form.kind = "material_unit"
  /\ Message(
       IF ~Can(Me, "inventory.write") THEN ClearSetup /\ Unwritten
       ELSE /\ \/ form.stage = 0 /\ Say(form)
               \/ /\ form.stage = 0
                  /\ Screen([form EXCEPT !.stage = 1, !.unit = store.unit], Prompt,
                            {<<"material_unit_confirm", u>> : u \in Unit})
               \/ form.stage > 0 /\ Screen(form, Prompt, nav.current.choices)
            /\ Unwritten)

\* productEditStep and compositionStep.
ProductEditStep ==
  /\ form # NoForm /\ form.kind = "product_edit"
  /\ Message(
       /\ Unwritten
       /\ LET c == form.composition IN
          CASE Expired -> ClearSetup
            [] ~Expired /\ (Refused \/ (c # NoFrame /\ ~Can(Me,
                 IF c.stage = "menu" THEN "bom.read" ELSE "bom.write"))) -> Say(form)
            [] OTHER ->
                 \/ Say(form)
                 \/ form.stage = 0 /\ ProductCard(form)
                 \/ /\ form.stage = 2 /\ Can(Me, "products.write")
                    /\ \E n \in Typed, how \in How :
                         EditPreview([form EXCEPT !.edit.how = how, !.edit.n = n])
                 \/ /\ c # NoFrame /\ c.stage = "material"
                    /\ QuantityPrompt(form)
                 \/ /\ c # NoFrame /\ c.stage = "row"
                    /\ IF c.action = "remove" THEN CompositionPreview(form)
                       ELSE QuantityPrompt(form)
                 \/ /\ c # NoFrame /\ c.stage = "quantity"
                    /\ \E n \in Typed :
                         CompositionPreview([form EXCEPT !.composition.n = n]))

-----------------------------------------------------------------------------
(* Buttons.  A press takes its button away; every outcome is a new screen   *)
(* of the form, or the form is gone, so that one press of a screen counts.  *)

\* formButton: a form of a workshop that is no longer selected is left.
FormButton(b, Then) ==
  /\ form # NoForm /\ b \in live
  /\ ActiveWorkshop /\ Unwritten
  /\ IF Authorized(Me) THEN Then
     ELSE Say(form) \/ (~here[Me] /\ ClearSetup)

Exit(b) ==
  /\ b[1] \in {"form_cancel", "form_home", "form_task"}
  /\ FormButton(b, ClearSetup)

Continue(b) ==
  /\ b = <<"form_continue">>
  /\ FormButton(b, Screen(form, nav.current.says, nav.current.choices))

\* The step before, as it was left; a list of materials is shown anew.
Back(b) ==
  /\ b = <<"form_back">>
  /\ FormButton(b,
       LET last == Len(nav.back)
           prev == nav.back[last]
           kind == prev.state.kind
       IN IF kind \in {"material_stock", "material_unit"} /\ prev.state.stage = 0
          THEN IF Can(Me, PermissionFor(kind)) THEN StartSetup(kind) ELSE ClearSetup
          ELSE ScreenOf([current |-> prev, back |-> SubSeq(nav.back, 1, last - 1)],
                        prev.state, prev.says, prev.choices))

\* executeButton: other buttons are refused outside their workshop.
Button(b, Then) ==
  /\ form # NoForm /\ b \in live
  /\ IF Authorized(Me) THEN Then ELSE Say(form) /\ Unwritten
  /\ UNCHANGED memberVars

\* material_unit_confirm and material_unit_save: SetDisplayUnit.
UnitButton(b) ==
  /\ b[1] \in {"material_unit_confirm", "material_unit_save"}
  /\ Button(b,
       CASE ~Can(Me, "inventory.write") -> Say(form) /\ Unwritten
         [] b[1] = "material_unit_confirm" /\ Can(Me, "inventory.write") ->
              Screen([form EXCEPT !.stage = 2], Displays(b[2]),
                     {<<"material_unit_save", b[2]>>}) /\ Unwritten
         [] OTHER -> store' = [store EXCEPT !.unit = b[2]] /\ ClearSetup)

\* Variant TLC must refute: the value that was shown is not compared.
EditCurrentUnseen == form.edit.expected # NoDraft

\* ApplyEdit: under the write lock the field must be what the preview showed.
EditCurrent == form.edit.expected = store.field

ApplyEdit ==
  CASE ~EditCurrent -> EditPreview(form) /\ Unwritten
    [] EditCurrent /\ EditValue(form.edit) \notin Amount -> Say(form) /\ Unwritten
    [] OTHER -> store' = [store EXCEPT !.field = EditValue(form.edit)] /\ ProductCard(form)

\* ApplyBOMChange: unit, row and version are compared in one transaction.
ApplyBOMChange ==
  LET c == form.composition
      amount == IF c.action = "remove" THEN 0 ELSE Base(c.unit, c.n)
  IN CASE c.action # "add" /\ store.composed = 0 -> CompositionPreview(form) /\ Unwritten
       [] (c.action = "add" \/ store.composed # 0)
            /\ c.action # "remove" /\ c.unit # store.unit ->
            QuantityPrompt(form) /\ Unwritten
       [] (c.action = "add" \/ store.composed # 0)
            /\ (c.action = "remove" \/ c.unit = store.unit) /\ c.version # Snapshot ->
            CompositionPreview(form) /\ Unwritten
       [] OTHER -> store' = [store EXCEPT !.composed = amount] /\ CompositionMenu(form)

\* productEditButton and compositionButton.
EditButton(b) ==
  LET c == form.composition
      needs == CASE b[1] \in {"product_edit_field", "product_edit_type",
                              "product_edit_save"} -> "products.write"
                 [] b[1] \in {"product_edit_bom", "product_edit_bom_save"} -> "bom.write"
                 [] b[1] \in {"product_edit_bom_open", "product_edit_bom_back"} -> "bom.read"
                 [] OTHER -> "products.read"
      composes(stage) == Say([form EXCEPT !.composition.stage = stage,
                                          !.composition.action = b[2]]) /\ Unwritten
  IN Button(b,
       CASE Expired -> ClearSetup /\ Unwritten
         [] ~Expired /\ (Refused \/ ~Can(Me, needs)) -> Say(form) /\ Unwritten
         [] OTHER ->
              \/ /\ b = <<"product_edit_back">>
                 /\ ClearSetup /\ Unwritten
              \/ /\ b = <<"product_edit_field">> /\ form.stage = 1
                 /\ \/ Say([form EXCEPT !.stage = 2, !.edit = NoEdit])
                    \/ Screen([form EXCEPT !.stage = 4, !.edit = NoEdit], Prompt,
                              {<<"product_edit_type", n>> : n \in Typed})
                 /\ Unwritten
              \/ /\ b[1] = "product_edit_type" /\ form.stage = 4
                 /\ EditPreview([form EXCEPT !.edit.n = b[2]]) /\ Unwritten
              \/ b = <<"product_edit_save">> /\ form.stage = 3 /\ ApplyEdit
              \/ b = <<"product_edit_bom_open">> /\ CompositionMenu(form) /\ Unwritten
              \/ b = <<"product_edit_bom_back">> /\ ProductCard(form) /\ Unwritten
              \/ b = <<"product_edit_bom", "add">> /\ composes("material")
              \/ b \in {<<"product_edit_bom", "update">>, <<"product_edit_bom", "remove">>}
                   /\ composes("row")
              \/ b = <<"product_edit_bom_save">> /\ c.stage = "confirm" /\ ApplyBOMChange)

-----------------------------------------------------------------------------
\* The other members change the same rows.
OthersChange ==
  \E u \in User \ {Me} :
    /\ \/ Can(u, "products.write") /\ \E n \in Amount : store' = [store EXCEPT !.field = n]
       \/ Can(u, "bom.write") /\ \E n \in Amount : store' = [store EXCEPT !.composed = n]
       \/ Can(u, "inventory.write") /\ \E n \in Amount : store' = [store EXCEPT !.stock = n]
       \/ Can(u, "inventory.write") /\ \E n \in Unit : store' = [store EXCEPT !.unit = n]
    /\ UNCHANGED <<memberVars, formVars>>

\* editExpires passes.
Expire ==
  /\ form # NoForm /\ form.kind = "product_edit"
  /\ lapsed' = lapsed \cup {"time"}
  /\ UNCHANGED <<memberVars, store, form, nav, live, seen>>

RoleChange == MemberStep /\ UNCHANGED <<store, formVars>>

FormInit ==
  /\ \E owner \in User \ {Me} : MembersInit(owner)
  /\ store \in [field : Amount, composed : Amount, stock : Amount, unit : Unit,
                saved : {NoDraft}]
  /\ form = NoForm /\ nav = NoNav /\ live = {} /\ seen = Prompt /\ lapsed = {}

FormNext ==
  \/ \E kind \in FormKind : Open(kind) \/ OpenRefused(kind)
  \/ Leave \/ Reselect \/ PressOld
  \/ TaskCommand \/ CreateStep \/ StockStep \/ UnitStep \/ ProductEditStep
  \/ \E b \in live : Exit(b) \/ Continue(b) \/ Back(b) \/ UnitButton(b) \/ EditButton(b)
  \/ OthersChange \/ Expire \/ RoleChange

FormSpec == FormInit /\ [][FormNext]_vars

-----------------------------------------------------------------------------
FormTypeOK ==
  /\ MembersTypeOK
  /\ store \in [field : Amount, composed : Amount, stock : Amount, unit : Unit,
                saved : Draft \cup {NoDraft}]
  /\ form \in Form \cup {NoForm}
  /\ lapsed \subseteq {"time", "session"}

\* A new value is the one the screen proposed.
AsShown ==
  CASE seen.what = "create" -> store' = [store EXCEPT !.saved = seen.new]
    [] seen.what = "unit" -> store' = [store EXCEPT !.unit = seen.unit]
    [] seen.what = "stock" ->
         \E n \in Typed, how \in How :
           store' = [store EXCEPT !.stock = Adjusted(how, store.stock, Base(seen.unit, n))]
    [] seen.what = "edit" ->
         store.field = seen.old /\ store' = [store EXCEPT !.field = seen.new]
    [] seen.what = "composition" ->
         store.composed = seen.old /\ store' = [store EXCEPT !.composed = seen.new]
    [] OTHER -> FALSE

(* Whatever a form writes is what the last proposal on its screens said: the *)
(* same object, the value it would have and, for an edit, the value it has,  *)
(* the unit in which an amount was asked; and it is written in the workshop  *)
(* the person has selected, as a member of it.  No step back, stale button,  *)
(* typed answer or change of another member in between makes a difference    *)
(* (ApplyEdit, ApplyBOMChange, ChangeDisplayedStock, form_navigation.go).    *)
SavedAsShown ==
  [][formVars' = formVars \/ (Authorized(Me) /\ AsShown)]_store
=============================================================================
