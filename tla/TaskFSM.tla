------------------------------ MODULE TaskFSM ------------------------------
(***************************************************************************)
(* The working tasks of one workshop and the state machine that moves them *)
(* (internal/memory: task_fsm.go, transitions.go, shared_tasks.go,         *)
(* task_legacy.go, assembly.go).                                           *)
(*                                                                         *)
(* Every operation of the code runs in one SQLite transaction that takes   *)
(* the write lock before its first read (memory.Service.tx), so each is    *)
(* one action here.  What is not atomic is a person: a screen shows a task *)
(* at some version, and the button pressed on it later carries that        *)
(* version.  The screen is the variable card.                              *)
(***************************************************************************)
EXTENDS Integers, FiniteSets, Members

CONSTANTS
  Task,          \* task ids
  Product,       \* products of the workshop
  NoProduct,     \* product_id 0: none chosen yet
  Count,         \* whole piece counts people enter, 0 possibly among them
  Fraction,      \* quantities that are not whole, found in old rows
  StoredRow,     \* rows the database may hold when the bot starts: migrated
                 \* ones, and ones an earlier run of the bot left
  NoRow,         \* this task id is not in the table
  NoCard,        \* no task has been shown yet
  MaxVersion     \* bound of the instance on the version counter

VARIABLES
  task,          \* the table working_memory
  materialCheck, \* is requires_material_check_before_production active?
  card           \* the task row shown last, on some screen or to a command

taskVars == <<task, materialCheck, card>>
vars == <<memberVars, taskVars>>

-----------------------------------------------------------------------------
(* Rows. *)

SharedType == {"production", "assembly"}
TaskType == SharedType \cup {"personal"}

Planning   == {"legacy", "select_product", "set_quantity", "confirm_task"}
Execution  == {"start_production", "record_result"}
Validation == {"verify_result", "confirm_completion"}
Done       == {"completed"}
Step       == Planning \cup Execution \cup Validation \cup Done
Ongoing    == Planning \cup Execution \cup Validation

Foreground == {"active", "waiting_input"}
Closed     == {"completed", "cancelled", "failed"}
Status     == Foreground \cup {"paused"} \cup Closed

NoResult == -1                                \* ProducedQuantity is nil
Pieces   == Count \ {0}
Quantity == {0} \cup Count \cup Fraction

Row == [type       : TaskType,
        status     : Status,
        step       : Step,                    \* the phase is the step's
        fsm        : {0, 1},
        owner      : User,
        assignee   : User,
        product    : Product \cup {NoProduct},
        qty        : Quantity,
        approved   : BOOLEAN,
        produced   : Count \cup {NoResult},
        validation : {"", "passed", "failed"},
        version    : 1 .. MaxVersion]

NewRow(type, owner, assignee, p, q, step, fsm) ==
  [type |-> type, status |-> "active", step |-> step, fsm |-> fsm,
   owner |-> owner, assignee |-> assignee, product |-> p, qty |-> q,
   approved |-> FALSE, produced |-> NoResult, validation |-> "",
   version |-> 1]

\* Rows written before the state machine existed (fsm_version 0).
LegacyRow ==
  {[NewRow(type, u, u, p, q, "legacy", 0) EXCEPT !.status = s] :
     type \in TaskType, u \in User, p \in Product \cup {NoProduct},
     q \in Quantity, s \in Foreground}

\* Open rows migration 108 imports from the retired production plans: at
\* confirm_task whatever their quantity.
ImportedRow ==
  {[NewRow("production", u, u, p, q, "confirm_task", 1) EXCEPT !.status = s] :
     u \in User, p \in Product, q \in Quantity,
     s \in Foreground \cup {"paused"}}

(* What the stored columns of one row say agrees with the step it stands at. *)
RowFacts(r) ==
  /\ r.fsm = 0 <=> r.step = "legacy"
  /\ r.fsm = 1 => r.type \in SharedType
  /\ r.approved <=> r.step \notin Planning
  /\ r.approved => r.product # NoProduct /\ r.qty # 0
  /\ r.step \in {"set_quantity", "confirm_task"} => r.product # NoProduct
  /\ r.produced # NoResult <=> r.step \in Validation \cup Done
  /\ r.validation = "passed" <=> r.step \in {"confirm_completion", "completed"}
  /\ r.fsm = 1 => (r.status = "completed" <=> r.step = "completed")

ASSUME CountAssumption == Count \subseteq Nat
ASSUME FractionAssumption == Fraction \cap Int = {}
ASSUME ProductAssumption == NoProduct \notin Product
ASSUME RowAssumption == NoRow \notin Row
ASSUME CardAssumption == NoCard \notin [id : Task, row : Row]
ASSUME StoredAssumption == \A r \in StoredRow : r \in Row /\ RowFacts(r)
ASSUME VersionAssumption == MaxVersion \in Nat \ {0}

Exists(t) == task[t] # NoRow
Holds(t, u) == Exists(t) /\ task[t].assignee = u /\ task[t].status \in Foreground
Shared(r) == r.type \in SharedType

-----------------------------------------------------------------------------
(* The transition table.  Stay is the '*' of the code: the step, or the     *)
(* status, is the one before.                                               *)

Stay == {}

Def(from, status, to, toStatus) ==
  [from |-> from, status |-> status, to |-> to, toStatus |-> toStatus]

Definitions ==
  [select_product    |-> Def({"select_product"}, {"active"}, {"set_quantity"}, Stay),
   set_quantity      |-> Def({"set_quantity", "confirm_task"}, {"active"}, {"confirm_task"}, Stay),
   edit_parameters   |-> Def({"confirm_task"}, {"active"}, {"select_product"}, Stay),
   confirm_task      |-> Def({"confirm_task"}, {"active"}, {"start_production"}, Stay),
   start_production  |-> Def({"start_production"}, {"active"}, {"record_result"}, Stay),
   record_result     |-> Def({"record_result"}, {"active"}, {"verify_result"}, Stay),
   verify_result     |-> Def({"verify_result"}, {"active"}, {"confirm_completion"}, Stay),
   correct_result    |-> Def(Validation, {"active"}, {"record_result"}, Stay),
   production_posted |-> Def({"confirm_completion"}, {"active"}, {"completed"}, {"completed"}),
   pause             |-> Def(Ongoing, {"active"}, Stay, {"paused"}),
   resume            |-> Def(Ongoing, {"paused"}, Stay, {"active"}),
   cancel            |-> Def(Ongoing, Foreground \cup {"paused"}, Stay, {"cancelled"}),
   fail              |-> Def(Ongoing, {"active", "paused"}, Stay, {"failed"}),
   adopt_task        |-> Def(Planning, {"active", "paused"}, Planning \ {"legacy"}, Stay),
   legacy_update     |-> Def({"legacy"}, Foreground, {"legacy"}, Foreground),
   legacy_complete   |-> Def({"legacy"}, Foreground, {"legacy"}, {"completed"}),
   legacy_cancel     |-> Def({"legacy"}, Foreground, {"legacy"}, {"cancelled"})]

\* transitionFor: nothing leaves a closed task.
Matches(r, key) ==
  /\ r.status \notin Closed
  /\ r.step \notin Done
  /\ r.step \in Definitions[key].from
  /\ r.status \in Definitions[key].status

RequiredPermissions(key) ==
  CASE key = "select_product"    -> {"tasks.execute", "products.read"}
    [] key = "production_posted" -> {"tasks.execute", "production.create",
                                     "inventory.write"}
    [] OTHER                     -> {"tasks.execute"}

Reaches(rule, old, new) == IF rule = Stay THEN new = old ELSE new \in rule

\* saveTransition: check the destination, count the version, write the row.
Save(t, key, new) ==
  LET old  == task[t]
      from == IF old.fsm = 0 /\ new.fsm = 1 THEN new.step ELSE old.step
  IN  /\ Matches(old, key)
      /\ Reaches(Definitions[key].to, from, new.step)
      /\ Reaches(Definitions[key].toStatus, old.status, new.status)
      /\ old.version < MaxVersion
      /\ task' = [task EXCEPT ![t] = [new EXCEPT !.version = old.version + 1]]

-----------------------------------------------------------------------------
(* What every request passes before its own step (Apply and guard). *)

TaskPermission(u, r) ==
  Can(u, IF u = r.assignee THEN "tasks.execute" ELSE "tasks.manage")

\* Variant TLC must refute: the button's version is not compared.
ShownOnce(t) == card # NoCard /\ card.id = t

\* The request carries the version of the screen it was made from.
Shown(t) == card # NoCard /\ card.id = t /\ card.row.version = task[t].version

\* Variant TLC must refute: a manager may record a result for the executor.
ReleasingResult == {"pause", "cancel", "fail", "record_result"}

\* These are possible when the executor has lost the right to execute.
Releasing == {"pause", "cancel", "fail"}

\* The requests that take a legacy row into the state machine, in place.
Adopting == {"pause", "resume", "cancel", "adopt_task"}

Adopted(r) ==
  IF r.fsm = 1 THEN r
  ELSE [r EXCEPT !.fsm = 1,
                 !.step = IF r.product = NoProduct THEN "select_product"
                          ELSE IF r.qty \in Pieces THEN "confirm_task"
                          ELSE "set_quantity"]

Applicable(u, t, key) ==
  /\ Authorized(u)
  /\ Exists(t)
  /\ Shared(task[t])
  /\ TaskPermission(u, task[t])
  /\ Shown(t)
  /\ key \notin Releasing => Can(task[t].assignee, "tasks.execute")
  /\ task[t].fsm = 0 => key \in Adopting
  /\ Matches(Adopted(task[t]), key)
  /\ \A p \in RequiredPermissions(key) : Can(u, p)

\* The row the request works on: an unadopted row is adopted first.
Current(t) == Adopted(task[t])

Unposted == <<memberVars, materialCheck, card>>

-----------------------------------------------------------------------------
(* The requests (Apply), one action for each key. *)

SelectProduct(u, t, p) ==
  /\ Applicable(u, t, "select_product")
  /\ Save(t, "select_product",
          [Current(t) EXCEPT !.product = p, !.step = "set_quantity"])
  /\ UNCHANGED Unposted

SetQuantity(u, t, q) ==
  /\ Applicable(u, t, "set_quantity")
  /\ q \in Pieces
  /\ Save(t, "set_quantity",
          [Current(t) EXCEPT !.qty = q, !.approved = FALSE, !.step = "confirm_task"])
  /\ UNCHANGED Unposted

EditParameters(u, t) ==
  /\ Applicable(u, t, "edit_parameters")
  /\ Save(t, "edit_parameters",
          [Current(t) EXCEPT !.approved = FALSE, !.step = "select_product"])
  /\ UNCHANGED Unposted

ConfirmTask(u, t) ==
  /\ Applicable(u, t, "confirm_task")
  /\ Current(t).product # NoProduct /\ Current(t).qty # 0
  /\ Save(t, "confirm_task",
          [Current(t) EXCEPT !.approved = TRUE, !.step = "start_production"])
  /\ UNCHANGED Unposted

\* With the rule active the materials are calculated for the task's quantity,
\* which fails for one that is not whole; enough says there is no shortage.
StartProduction(u, t, enough) ==
  /\ Applicable(u, t, "start_production")
  /\ Current(t).approved
  /\ materialCheck =>
       /\ \A p \in {"production.create", "inventory.write", "bom.read", "products.read"} :
            Can(u, p)
       /\ Current(t).qty \in Pieces
       /\ enough
  /\ Save(t, "start_production", [Current(t) EXCEPT !.step = "record_result"])
  /\ UNCHANGED Unposted

RecordResult(u, t, q) ==
  /\ Applicable(u, t, "record_result")
  /\ Save(t, "record_result",
          [Current(t) EXCEPT !.produced = q, !.validation = "", !.step = "verify_result"])
  /\ UNCHANGED Unposted

VerifyResult(u, t) ==
  /\ Applicable(u, t, "verify_result")
  /\ Current(t).produced # NoResult
  /\ Save(t, "verify_result",
          [Current(t) EXCEPT !.validation = "passed", !.step = "confirm_completion"])
  /\ UNCHANGED Unposted

\* Variants TLC must refute: the old result stays; a verdict no column allows.
CorrectResultKept(u, t) ==
  /\ Applicable(u, t, "correct_result")
  /\ Save(t, "correct_result",
          [Current(t) EXCEPT !.validation = "failed", !.step = "record_result"])
  /\ UNCHANGED Unposted

CorrectResult(u, t) ==
  /\ Applicable(u, t, "correct_result")
  /\ Save(t, "correct_result",
          [Current(t) EXCEPT !.produced = NoResult, !.validation = "failed",
                             !.step = "record_result"])
  /\ UNCHANGED Unposted

Pause(u, t) ==
  /\ Applicable(u, t, "pause")
  /\ Save(t, "pause", [Current(t) EXCEPT !.status = "paused"])
  /\ UNCHANGED Unposted

Resume(u, t) ==
  /\ Applicable(u, t, "resume")
  /\ ~ \E s \in Task : Holds(s, task[t].assignee)
  /\ Save(t, "resume", [Current(t) EXCEPT !.status = "active"])
  /\ UNCHANGED Unposted

Cancel(u, t) ==
  /\ Applicable(u, t, "cancel")
  /\ Save(t, "cancel", [Current(t) EXCEPT !.status = "cancelled"])
  /\ UNCHANGED Unposted

Fail(u, t) ==
  /\ Applicable(u, t, "fail")
  /\ Save(t, "fail", [Current(t) EXCEPT !.status = "failed"])
  /\ UNCHANGED Unposted

AdoptTask(u, t) ==
  /\ Applicable(u, t, "adopt_task")
  /\ task[t].fsm = 0
  /\ Save(t, "adopt_task", Current(t))
  /\ UNCHANGED Unposted

\* completionTask: who may look at and post a completion of t.
CompletionTask(u, t) ==
  /\ Authorized(u)
  /\ Exists(t)
  /\ Shared(task[t])
  /\ TaskPermission(u, task[t])
  /\ Can(u, "production.create") /\ Can(u, "inventory.write")

CanPost(r) ==
  /\ r.fsm = 1
  /\ r.status = "active"
  /\ r.step = "confirm_completion"
  /\ r.validation = "passed"

\* The task's side of PostCompletion: its checks on the task, and
\* finishPosting once the stock has moved; q is the posted quantity.
FinishPosting(u, t, q) ==
  /\ CompletionTask(u, t)
  /\ CanPost(task[t])
  /\ Can(task[t].assignee, "tasks.execute")
  /\ Matches(task[t], "production_posted")
  /\ \A p \in RequiredPermissions("production_posted") : Can(u, p)
  /\ Save(t, "production_posted",
          [task[t] EXCEPT !.produced = q, !.status = "completed", !.step = "completed"])
  /\ UNCHANGED Unposted

-----------------------------------------------------------------------------
(* The other writers of the table. *)

Insert(t, row) ==
  /\ ~Exists(t)
  /\ task' = [task EXCEPT ![t] = row]
  /\ UNCHANGED Unposted

\* Create (/task new): a product may be named at once, and then any quantity.
Create(u, t, p, q) ==
  /\ Authorized(u)
  /\ Can(u, "tasks.create")
  /\ p # NoProduct => Can(u, "products.read")
  /\ ~ \E s \in Task : Holds(s, u)
  /\ Insert(t, NewRow("production", u, u, p, q,
                      IF p = NoProduct THEN "select_product" ELSE "set_quantity", 1))

\* The check of AssignTask and of a draft: may u give work to a?
AssignmentAllowed(u, a) ==
  /\ Can(a, "tasks.execute")
  /\ a # u => Can(u, "tasks.assign")

\* ConfirmAssemblyDraft: the conversation that fills the draft in is not
\* modelled; a confirmed draft names a product and a whole quantity.
ConfirmAssemblyDraft(u, t, a, p, q) ==
  /\ Authorized(u)
  /\ \A perm \in {"tasks.create", "products.read", "bom.read", "inventory.read"} :
       Can(u, perm)
  /\ AssignmentAllowed(u, a)
  /\ ~ \E s \in Task : Holds(s, a)
  /\ Insert(t, NewRow("assembly", u, a, p, q, "confirm_task", 1))

\* CreateWorkingMemory (the assistant's note of a task) checks nothing about
\* other tasks: only the unique index working_active refuses the row.
CreateWorkingMemory(u, t, kind, p, q) ==
  /\ Authorized(u)
  /\ kind \in SharedType => Can(u, "tasks.create")
  /\ ~ \E s \in Task : Holds(s, u)
  /\ Insert(t, NewRow(kind, u, u, p, q, "legacy", 0))

\* UpdateWorkingMemory writes what the assistant read before it called the
\* model, with no version check: only the quantity can differ.
LegacyUpdate(u, t, q) ==
  /\ Authorized(u)
  /\ Exists(t)
  /\ Shared(task[t]) => TaskPermission(u, task[t])
  /\ task[t].fsm = 0 /\ task[t].owner = u /\ task[t].assignee = u
  /\ Save(t, "legacy_update",
          [task[t] EXCEPT !.qty = q, !.status = "active",
                          !.approved = FALSE, !.validation = ""])
  /\ UNCHANGED Unposted

\* CompleteWorkingMemory of a personal note; a shared row is cancelled by
\* Cancel and is never completed this way.
LegacyClose(u, t, key) ==
  /\ Authorized(u)
  /\ Exists(t)
  /\ ~Shared(task[t]) /\ task[t].fsm = 0 /\ task[t].owner = u
  /\ Save(t, key, [task[t] EXCEPT !.status = IF key = "legacy_cancel" THEN "cancelled"
                                             ELSE "completed"])
  /\ UNCHANGED Unposted

\* Variants TLC must refute: the version is not counted; the other tasks of the
\* new executor are not looked at.
AssignTaskUncounted(u, t, a) ==
  /\ Authorized(u) /\ Can(u, "tasks.assign")
  /\ Exists(t) /\ Shared(task[t]) /\ Shown(t)
  /\ task[t].status \in Foreground \cup {"paused"}
  /\ task[t].status = "paused" \/ task[t].step \in Planning
  /\ AssignmentAllowed(u, a)
  /\ ~ \E s \in Task \ {t} : Holds(s, a)
  /\ task' = [task EXCEPT ![t].assignee = a]
  /\ UNCHANGED Unposted
AssignTaskBeside(u, t, a) ==
  /\ Authorized(u) /\ Can(u, "tasks.assign")
  /\ Exists(t) /\ Shared(task[t]) /\ Shown(t)
  /\ task[t].status \in Foreground \cup {"paused"}
  /\ task[t].status = "paused" \/ task[t].step \in Planning
  /\ AssignmentAllowed(u, a)
  /\ task[t].version < MaxVersion
  /\ task' = [task EXCEPT ![t].assignee = a, ![t].version = @ + 1]
  /\ UNCHANGED Unposted

AssignTask(u, t, a) ==
  /\ Authorized(u)
  /\ Can(u, "tasks.assign")
  /\ Exists(t)
  /\ Shared(task[t])
  /\ Shown(t)
  /\ task[t].status \in Foreground \cup {"paused"}
  /\ task[t].status = "paused" \/ task[t].step \in Planning
  /\ AssignmentAllowed(u, a)
  /\ ~ \E s \in Task \ {t} : Holds(s, a)
  /\ task[t].version < MaxVersion
  /\ task' = [task EXCEPT ![t].assignee = a, ![t].version = @ + 1]
  /\ UNCHANGED Unposted

-----------------------------------------------------------------------------
\* Task, Tasks, WorkshopTasks: a card, a list or a command reads the row.
View(u, t) ==
  /\ Authorized(u)
  /\ Exists(t)
  /\ IF Shared(task[t]) THEN Can(u, "tasks.read") ELSE task[t].owner = u
  /\ card' = [id |-> t, row |-> task[t]]
  /\ UNCHANGED <<memberVars, task, materialCheck>>

\* UpdateConfirmed: the one rule a workshop may switch.
UpdateConfirmed(u) ==
  /\ Authorized(u)
  /\ Can(u, "workshop.settings.manage")
  /\ materialCheck' = ~materialCheck
  /\ UNCHANGED <<memberVars, task, card>>

-----------------------------------------------------------------------------
\* The steps of a person at a task that need nothing but the tables above.
LifecycleStep ==
  \E u \in User, t \in Task :
    \/ \E p \in Product : SelectProduct(u, t, p)
    \/ \E q \in Pieces : SetQuantity(u, t, q)
    \/ EditParameters(u, t)
    \/ ConfirmTask(u, t)
    \/ \E q \in Count : RecordResult(u, t, q)
    \/ VerifyResult(u, t)
    \/ CorrectResult(u, t)
    \/ Pause(u, t)
    \/ Resume(u, t)
    \/ Cancel(u, t)
    \/ Fail(u, t)
    \/ AdoptTask(u, t)
    \/ \E a \in User : AssignTask(u, t, a)

CreationStep ==
  \E u \in User, t \in Task :
    \/ \E p \in Product \cup {NoProduct}, q \in Quantity : Create(u, t, p, q)
    \/ \E a \in User, p \in Product, q \in Pieces : ConfirmAssemblyDraft(u, t, a, p, q)
    \/ \E kind \in TaskType, p \in Product, q \in Quantity :
         CreateWorkingMemory(u, t, kind, p, q)

LegacyStep ==
  \E u \in User, t \in Task :
    \/ \E q \in Quantity : LegacyUpdate(u, t, q)
    \/ \E key \in {"legacy_complete", "legacy_cancel"} : LegacyClose(u, t, key)

\* The steps a larger model repeats unchanged.
IndependentStep ==
  \/ LifecycleStep
  \/ CreationStep
  \/ LegacyStep
  \/ \E u \in User, t \in Task : View(u, t)
  \/ \E u \in User : UpdateConfirmed(u)
  \/ MemberStep /\ UNCHANGED taskVars

\* The steps that depend on stock, and the ones that also close sessions.
ContextStep ==
  /\ \E u \in User : SelectHere(u) \/ SelectElsewhere(u) \/ LoseContext(u)
  /\ UNCHANGED taskVars

StockStep ==
  \E u \in User, t \in Task :
    \/ \E enough \in BOOLEAN : StartProduction(u, t, enough)
    \/ \E q \in Pieces : FinishPosting(u, t, q)

Next == IndependentStep \/ ContextStep \/ StockStep

\* The unique index working_active holds in the stored table.
Init ==
  /\ \E owner \in User : MembersInit(owner)
  /\ task \in [Task -> StoredRow \cup {NoRow}]
  /\ \A s, t \in Task : \A u \in User : Holds(s, u) /\ Holds(t, u) => s = t
  /\ materialCheck = FALSE
  /\ card = NoCard

Spec == Init /\ [][Next]_vars

-----------------------------------------------------------------------------
(* Properties. *)

(* Every row keeps the shape the columns and the CHECKs of working_memory    *)
(* give it, and a screen shows a row.                                        *)
TypeOK ==
  /\ MembersTypeOK
  /\ task \in [Task -> Row \cup {NoRow}]
  /\ materialCheck \in BOOLEAN
  /\ card \in [id : Task, row : Row] \cup {NoCard}

(* An executor has at most one task in the foreground: the checks Create,    *)
(* ConfirmAssemblyDraft, Resume and AssignTask make before writing are       *)
(* enough, however adoption, reassignment and resuming are mixed, so that    *)
(* the index working_active never has to fail one of them half way.          *)
OneForeground ==
  \A s, t \in Task : \A u \in User : Holds(s, u) /\ Holds(t, u) => s = t

(* What a row says agrees with where it stands: parameters are approved      *)
(* exactly past planning, where a product and a quantity are known; a result *)
(* is present exactly from its verification on; the verification is passed   *)
(* exactly once it may be posted; and a task of the state machine is         *)
(* completed only by reaching the last step.                                 *)
StageFacts == \A t \in Task : Exists(t) => RowFacts(task[t])

(* The version on a button stands for the whole row: a screen whose version  *)
(* is still the stored one shows the stored row, and an old screen has an    *)
(* older version.  AssignTask and the legacy writes, which go around         *)
(* Apply, must count the version too.                                        *)
VersionIdentifiesRow ==
  card # NoCard =>
    /\ Exists(card.id)
    /\ card.row.version <= task[card.id].version
    /\ card.row.version = task[card.id].version => card.row = task[card.id]

(* A closed task is never written again.                                     *)
ClosedFrozen ==
  [][\A t \in Task :
       Exists(t) /\ task[t].status \in Closed => task'[t] = task[t]]_vars

(* A step that needs a person's confirmation, and a change of executor, act  *)
(* on exactly the row the person was shown.                                  *)
Confirming(old, new) ==
  \/ new.step # old.step /\ new.step \in {"start_production", "record_result",
                                          "confirm_completion"}
  \/ new.assignee # old.assignee

ConfirmedAsShown ==
  [][\A t \in Task :
       Exists(t) /\ Confirming(task[t], task'[t]) =>
         card # NoCard /\ card.id = t /\ card.row = task[t]]_vars

(* Work never advances on behalf of someone who may no longer execute it:    *)
(* between losing the right and a reassignment a task can only be held or    *)
(* closed, whoever asks.                                                     *)
ExecutorAllowed ==
  [][\A t \in Task :
       Exists(t) /\ task[t].fsm = 1 /\ task'[t].step # task[t].step =>
         Can(task[t].assignee, "tasks.execute")]_vars
=============================================================================
