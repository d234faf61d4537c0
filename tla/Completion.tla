----------------------------- MODULE Completion -----------------------------
(***************************************************************************)
(* Posting the production of a verified task (internal/memory/completion.go*)
(* and internal/products/production.go) over the task machine, the stock   *)
(* and the dialogue sessions.  A completion takes two transactions with a  *)
(* person in between: PrepareCompletion stores a preview under a token,    *)
(* PostCompletion executes the preview of a token.  Everything the preview *)
(* was computed from can change meanwhile.                                 *)
(***************************************************************************)
EXTENDS TaskFSM, FiniteSetsExt

CONSTANTS
  Chat,          \* Telegram chats (the web chat is one more)
  Material,
  Recipe,        \* the compositions [Material -> Nat] a product may get;
                 \* all zero when the composition is incomplete
  Token,         \* random names of previews, never used twice
  NoIntent,      \* no preview has this name yet
  NoRecord,      \* no production record for this task
  MaxStock,      \* bound of the instance on a stock set by hand
  MaxSession     \* bound of the instance on session ids

VARIABLES
  session,       \* session[u][c]: id of u's active dialogue in c, 0 if none
  lastSession,   \* the autoincrement of conversation_sessions
  intent,        \* the table task_completion_intents
  stock,         \* materials.current_stock
  recipe,        \* recipe[p]: what one piece of p takes (bom_items, expanded)
  record,        \* production_records by task (unique index production_task_once)
  goods,         \* goods[p]: pieces of p put in stock by postings
  corrected      \* the opening balance of each material plus its
                 \* manual_adjustment movements

postingVars == <<session, lastSession, intent, stock, recipe, record, goods, corrected>>
allVars == <<vars, postingVars>>

Composition == [Material -> Nat]

Intent == [user : User, chat : Chat, session : 1 .. MaxSession, task : Task,
           row : Row, qty : Pieces, need : Composition,
           state : {"live", "expired", "consumed"}]

Record == [product : Product, qty : Pieces, need : Composition,
           creator : User, assignee : User]

ASSUME RecipeAssumption == Recipe \subseteq Composition
ASSUME IntentAssumption == NoIntent \notin Intent
ASSUME RecordAssumption == NoRecord \notin Record
ASSUME BoundAssumption == MaxStock \in Nat /\ MaxSession \in Nat

-----------------------------------------------------------------------------
(* CalculateProductionTx, with the nested composition already expanded. *)

Composed(p) == \E m \in Material : recipe[p][m] > 0
Need(p, q) == [m \in Material |-> recipe[p][m] * q]
Short(need) == \E m \in Material : stock[m] < need[m]

MayCalculate(u) ==
  \A p \in {"production.create", "inventory.write", "bom.read", "products.read"} :
    Can(u, p)

\* What start_production asks when the rule is active.
Sufficient(r) ==
  /\ r.qty \in Pieces
  /\ r.product # NoProduct
  /\ Composed(r.product)
  /\ ~Short(Need(r.product, r.qty))

-----------------------------------------------------------------------------
(* Dialogue sessions. *)

EnsureSession(u, c) ==
  /\ Authorized(u)
  /\ session[u][c] = 0
  /\ lastSession < MaxSession
  /\ lastSession' = lastSession + 1
  /\ session' = [session EXCEPT ![u][c] = lastSession']
  /\ UNCHANGED <<vars, intent, stock, recipe, record, goods, corrected>>

EndSession(u, c) ==
  /\ Authorized(u)
  /\ session[u][c] # 0
  /\ session' = [session EXCEPT ![u][c] = 0]
  /\ UNCHANGED <<vars, lastSession, intent, stock, recipe, record, goods, corrected>>

\* Variant TLC must refute: only the previews of the current dialogues.
UnusedNow(u, chats) ==
  {k \in Token : /\ intent[k] # NoIntent
                 /\ intent[k].user = u /\ intent[k].chat \in chats
                 /\ intent[k].state # "consumed"
                 /\ intent[k].session = session[u][intent[k].chat]}

\* The unused previews of u in these chats.
Unused(u, chats) ==
  {k \in Token : /\ intent[k] # NoIntent
                 /\ intent[k].user = u /\ intent[k].chat \in chats
                 /\ intent[k].state # "consumed"}

Lapse(S) ==
  intent' = [k \in Token |-> IF k \in S THEN [intent[k] EXCEPT !.state = "expired"]
                             ELSE intent[k]]

\* setActive on another workshop than the selected one: nothing the user was
\* shown before survives.
Reselect(u) ==
  /\ SelectHere(u) \/ SelectElsewhere(u)
  /\ session' = [session EXCEPT ![u] = [c \in Chat |-> 0]]
  /\ Lapse(Unused(u, Chat))
  /\ UNCHANGED <<taskVars, lastSession, stock, recipe, record, goods, corrected>>

\* ActiveWorkshop clears a lost workshop and nothing else.
Forget(u) == LoseContext(u) /\ UNCHANGED <<taskVars, postingVars>>

-----------------------------------------------------------------------------
(* Completion. *)

CancelCompletion(u, c) ==
  /\ Authorized(u)
  /\ Lapse(Unused(u, {c}))
  /\ UNCHANGED <<vars, session, lastSession, stock, recipe, record, goods, corrected>>

\* A new preview replaces the chat's earlier ones.  The quantity is the one
\* counted now, whatever was planned or recorded; a shortage is shown in the
\* preview and refused when posting.
PrepareCompletion(u, c, t, q, k) ==
  LET r == task[t]
      fresh == [user |-> u, chat |-> c, session |-> session[u][c], task |-> t,
                row |-> r, qty |-> q, need |-> Need(r.product, q), state |-> "live"]
  IN  /\ CompletionTask(u, t)
      /\ CanPost(r)
      /\ session[u][c] # 0
      /\ Can(r.assignee, "tasks.execute")
      /\ MayCalculate(u)
      /\ Composed(r.product)
      /\ intent[k] = NoIntent
      /\ intent' = [j \in Token |->
                      IF j = k THEN fresh
                      ELSE IF j \in Unused(u, {c})
                           THEN [intent[j] EXCEPT !.state = "expired"] ELSE intent[j]]
      /\ UNCHANGED <<vars, session, lastSession, stock, recipe, record, goods, corrected>>

\* Fifteen minutes pass.
IntentExpires(k) ==
  /\ intent[k] # NoIntent /\ intent[k].state = "live"
  /\ intent' = [intent EXCEPT ![k].state = "expired"]
  /\ UNCHANGED <<vars, session, lastSession, stock, recipe, record, goods, corrected>>

\* Variant TLC must refute: the version is not compared.
ValidForTask(k, u, c) ==
  LET i == intent[k] IN
  /\ i # NoIntent
  /\ i.user = u /\ i.chat = c
  /\ i.state # "expired"
  /\ i.session = session[u][c]
  /\ task[i.task].product = i.row.product

\* What PostCompletion compares: the version, not the row; and only the time,
\* for a task whose preview was consumed is closed.
Valid(k, u, c) ==
  LET i == intent[k] IN
  /\ i # NoIntent
  /\ i.user = u /\ i.chat = c
  /\ i.state # "expired"
  /\ i.session = session[u][c]
  /\ task[i.task].version = i.row.version
  /\ task[i.task].product = i.row.product

\* Variants TLC must refute: a shortage is not noticed; what the composition
\* asks for now is posted, not what was previewed.
PostProductionShort(u, t, q, need) ==
  LET p == task[t].product IN
  /\ MayCalculate(u) /\ Composed(p)
  /\ Need(p, q) = need
  /\ record[t] = NoRecord
  /\ record' = [record EXCEPT ![t] =
       [product |-> p, qty |-> q, need |-> need,
        creator |-> task[t].owner, assignee |-> task[t].assignee]]
  /\ stock' = [m \in Material |-> stock[m] - need[m]]
  /\ goods' = [goods EXCEPT ![p] = @ + q]

\* PostProductionTx: recalculate, compare with the preview, take the materials
\* out, put the goods in.
PostProduction(u, t, q, need) ==
  LET p == task[t].product IN
  /\ MayCalculate(u)
  /\ Composed(p)
  /\ Need(p, q) = need
  /\ ~Short(need)
  /\ record[t] = NoRecord
  /\ record' = [record EXCEPT ![t] =
       [product |-> p, qty |-> q, need |-> need,
        creator |-> task[t].owner, assignee |-> task[t].assignee]]
  /\ stock' = [m \in Material |-> stock[m] - need[m]]
  /\ goods' = [goods EXCEPT ![p] = @ + q]

\* One transaction: the stock, the record, the task and the preview.
PostCompletion(u, c, k) ==
  /\ Valid(k, u, c)
  /\ LET t == intent[k].task IN
       /\ PostProduction(u, t, intent[k].qty, intent[k].need)
       /\ FinishPosting(u, t, intent[k].qty)
  /\ intent' = [intent EXCEPT ![k].state = "consumed"]
  /\ UNCHANGED <<session, lastSession, recipe, corrected>>

-----------------------------------------------------------------------------
(* The rest of the workshop. *)

\* Variant TLC must refute: the movement is not recorded.
ChangeStockUnrecorded(u, m, n) ==
  /\ Can(u, "inventory.write")
  /\ n # stock[m]
  /\ stock' = [stock EXCEPT ![m] = n]
  /\ UNCHANGED <<vars, session, lastSession, intent, recipe, record, goods, corrected>>

\* changeStockByID: a correction or a delivery, recorded as a movement.
ChangeStock(u, m, n) ==
  /\ Can(u, "inventory.write")
  /\ n # stock[m]
  /\ stock' = [stock EXCEPT ![m] = n]
  /\ corrected' = [corrected EXCEPT ![m] = @ + n - stock[m]]
  /\ UNCHANGED <<vars, session, lastSession, intent, recipe, record, goods>>

ApplyBOMChange(u, p, b) ==
  /\ Authorized(u)
  /\ \A perm \in {"products.read", "bom.read", "bom.write", "inventory.read"} : Can(u, perm)
  /\ b # recipe[p]
  /\ recipe' = [recipe EXCEPT ![p] = b]
  /\ UNCHANGED <<vars, session, lastSession, intent, stock, record, goods, corrected>>

StartCalculated(u, t) ==
  /\ Exists(t)
  /\ StartProduction(u, t, Sufficient(task[t]))
  /\ UNCHANGED postingVars

-----------------------------------------------------------------------------
CompletionNext ==
  \/ IndependentStep /\ UNCHANGED postingVars
  \/ \E u \in User, t \in Task : StartCalculated(u, t)
  \/ \E u \in User : Reselect(u) \/ Forget(u)
  \/ \E u \in User, c \in Chat :
       \/ EnsureSession(u, c)
       \/ EndSession(u, c)
       \/ CancelCompletion(u, c)
       \/ \E t \in Task, q \in Pieces, k \in Token : PrepareCompletion(u, c, t, q, k)
       \/ \E k \in Token : PostCompletion(u, c, k)
  \/ \E k \in Token : IntentExpires(k)
  \/ \E u \in User, m \in Material, n \in 0 .. MaxStock : ChangeStock(u, m, n)
  \/ \E u \in User, p \in Product, b \in Recipe : ApplyBOMChange(u, p, b)

\* Tasks closed before the bot started are left out: they never move.
CompletionInit ==
  /\ Init
  /\ \A t \in Task : Exists(t) => task[t].status \notin Closed
  /\ session = [u \in User |-> [c \in Chat |-> 0]]
  /\ lastSession = 0
  /\ intent = [k \in Token |-> NoIntent]
  /\ stock \in [Material -> 0 .. MaxStock]
  /\ recipe \in [Product -> Recipe]
  /\ record = [t \in Task |-> NoRecord]
  /\ goods = [p \in Product |-> 0]
  /\ corrected = stock

CompletionSpec == CompletionInit /\ [][CompletionNext]_allVars

-----------------------------------------------------------------------------
(* Properties. *)

(* The tables the posting touches keep their types; in particular no stock   *)
(* is ever negative.                                                         *)
PostingTypeOK ==
  /\ TypeOK
  /\ session \in [User -> [Chat -> 0 .. MaxSession]]
  /\ lastSession \in 0 .. MaxSession
  /\ intent \in [Token -> Intent \cup {NoIntent}]
  /\ stock \in [Material -> Nat]
  /\ recipe \in [Product -> Recipe]
  /\ record \in [Task -> Record \cup {NoRecord}]
  /\ goods \in [Product -> Nat]
  /\ corrected \in [Material -> Int]

(* The task table and the production records tell one story, whatever fails  *)
(* or is repeated between the two transactions: a task of the state machine  *)
(* is completed exactly when it has a production record, and the record is   *)
(* of its product and of the quantity the task says was produced.            *)
RecordIffCompleted ==
  \A t \in Task :
    /\ record[t] # NoRecord <=>
         Exists(t) /\ task[t].fsm = 1 /\ task[t].status = "completed"
    /\ record[t] # NoRecord =>
         /\ record[t].product = task[t].product
         /\ record[t].qty = task[t].produced

\* What these production records say was consumed and made.
Recorded(rec) == {t \in Task : rec[t] # NoRecord}
Consumed(rec, m) == MapThenSumSet(LAMBDA t : rec[t].need[m], Recorded(rec))
MadeOf(rec, p) == {t \in Recorded(rec) : rec[t].product = p}
Made(rec, p) == MapThenSumSet(LAMBDA t : rec[t].qty, MadeOf(rec, p))

(* What is in stock is what people counted and corrected minus what the      *)
(* records say was consumed, each record once; the goods are the records'.   *)
StockLedger ==
  /\ \A m \in Material : stock[m] = corrected[m] - Consumed(record, m)
  /\ \A p \in Product : goods[p] = Made(record, p)

(* The tables have their types, and the tasks, the production records and    *)
(* the stock tell one story: a task of the state machine is completed        *)
(* exactly when its record says so, and the stock is what people counted     *)
(* minus what the records consumed, each once (PostCompletion,               *)
(* PostProductionTx, ChangeStock).                                           *)
BooksAgree == PostingTypeOK /\ RecordIffCompleted /\ StockLedger

(* A chat never offers a person two previews to choose from: preparing a new *)
(* one, leaving the workshop and coming back all retire the older.           *)
OnePreview ==
  \A j, k \in Token :
    /\ intent[j] # NoIntent /\ intent[j].state = "live"
    /\ intent[k] # NoIntent /\ intent[k].state = "live"
    /\ intent[j].user = intent[k].user /\ intent[j].chat = intent[k].chat
    => j = k

(* The version kept with a preview stands for the row it was computed from.  *)
PreviewVersionIdentifiesRow ==
  \A k \in Token :
    intent[k] # NoIntent =>
      LET i == intent[k] IN
      /\ Exists(i.task)
      /\ i.row.version <= task[i.task].version
      /\ i.row.version = task[i.task].version => i.row = task[i.task]

(* A chat never offers two previews to choose from, and the version kept     *)
(* with a preview stands for the row it was computed from (PrepareCompletion).*)
PreviewsAgree == OnePreview /\ PreviewVersionIdentifiesRow

(* What is posted is what somebody was shown and did not take back: a preview *)
(* of this very row, of this quantity and these materials, still live, in a   *)
(* dialogue that has not ended since.                                         *)
PostedAsPreviewed ==
  [][\A t \in Task :
       record'[t] # record[t] =>
         \E k \in Token :
           /\ intent[k] # NoIntent
           /\ intent[k].state = "live"
           /\ intent[k].task = t /\ intent[k].row = task[t]
           /\ intent[k].session = session[intent[k].user][intent[k].chat]
           /\ record'[t].qty = intent[k].qty /\ record'[t].need = intent[k].need]_allVars

-----------------------------------------------------------------------------
(* The abstract specification. *)

Outcome ==
  [t \in Task |->
     IF ~Exists(t) THEN "none"
     ELSE IF task[t].status \notin Closed THEN "open"
     ELSE IF task[t].fsm = 1 /\ task[t].status = "completed" THEN "posted"
     ELSE "dropped"]

Ledger == INSTANCE PostingLedger WITH outcome <- Outcome

(* Completion keeps the promises of PostingLedger.                           *)
KeepsLedger == Ledger!LedgerSpec
=============================================================================
