------------------------- MODULE Completion_proofs -------------------------
(***************************************************************************)
(* Proofs about TaskFSM, and about Completion, which has its actions: for  *)
(* any people, chats, products, materials, compositions and previews.      *)
(*                                                                         *)
(* TaskFSM: the inductive invariant IInv joins the type invariant with the *)
(* three safety invariants; every writer of the task table either saves a  *)
(* row of its own (SaveKeeps), inserts a new one (InsertKeeps) or          *)
(* reassigns one.                                                          *)
(*                                                                         *)
(* Completion keeps the promises of PostingLedger, posts what was          *)
(* previewed and nothing twice (CInv).                                     *)
(***************************************************************************)
EXTENDS Completion, Collections

IInv == TypeOK /\ StageFacts /\ OneForeground /\ VersionIdentifiesRow

-----------------------------------------------------------------------------
(* Rows. *)

(* Counting the version of a row changes nothing else in it.                 *)
LEMMA VersionField ==
  ASSUME NEW r \in Row, NEW v
  PROVE  LET n == [r EXCEPT !.version = v] IN
         /\ n.type = r.type /\ n.status = r.status /\ n.step = r.step /\ n.fsm = r.fsm
         /\ n.owner = r.owner /\ n.assignee = r.assignee /\ n.product = r.product
         /\ n.qty = r.qty /\ n.approved = r.approved /\ n.produced = r.produced
         /\ n.validation = r.validation /\ n.version = v
         /\ v \in 1 .. MaxVersion => n \in Row
  BY DEF Row

(* A fresh row is a row of the table.                                        *)
LEMMA NewRowFits ==
  ASSUME NEW type \in TaskType, NEW u \in User, NEW a \in User,
         NEW p \in Product \cup {NoProduct}, NEW q \in Quantity, NEW st \in Step,
         NEW f \in {0, 1}
  PROVE  NewRow(type, u, a, p, q, st, f) \in Row
<1>1. 1 \in 1 .. MaxVersion
  BY VersionAssumption
<1>2. "active" \in Status /\ NoResult \in Count \cup {NoResult}
  BY DEF Status, Foreground
<1> QED BY <1>1, <1>2 DEF NewRow, Row

(* Every row the migrations leave in an upgraded database may be a stored    *)
(* row: it has the shape and the facts StoredAssumption asks for.            *)
THEOREM MigratedRowsFit ==
  \A r \in LegacyRow \cup ImportedRow : r \in Row /\ RowFacts(r)
<1>1. 1 \in 1 .. MaxVersion /\ NoResult \in Count \cup {NoResult}
  BY VersionAssumption
<1>2. ASSUME NEW r \in LegacyRow
      PROVE  r \in Row /\ RowFacts(r)
  <2>1. PICK type \in TaskType, u \in User, p \in Product \cup {NoProduct},
             q \in Quantity, s \in Foreground :
          r = [NewRow(type, u, u, p, q, "legacy", 0) EXCEPT !.status = s]
    BY DEF LegacyRow
  <2>2. "legacy" \in Step /\ s \in Status
    BY DEF Step, Planning, Status, Foreground
  <2>3. r \in Row
    BY <1>1, <2>1, <2>2 DEF NewRow, Row
  <2>4. r.step = "legacy" /\ r.fsm = 0 /\ r.approved = FALSE
    BY <2>1 DEF NewRow
  <2>5. r.produced = NoResult /\ r.validation = ""
    BY <2>1 DEF NewRow
  <2>6. r.fsm # 1
    BY <2>4
  <2> QED BY <2>3, <2>4, <2>5, <2>6, Zenon DEF RowFacts, Planning, Validation, Done
<1>3. ASSUME NEW r \in ImportedRow
      PROVE  r \in Row /\ RowFacts(r)
  <2>1. PICK u \in User, p \in Product, q \in Quantity, s \in Foreground \cup {"paused"} :
          r = [NewRow("production", u, u, p, q, "confirm_task", 1) EXCEPT !.status = s]
    BY DEF ImportedRow
  <2>2. /\ "confirm_task" \in Step /\ s \in Status /\ s # "completed"
        /\ "production" \in TaskType /\ p \in Product \cup {NoProduct}
    BY DEF Step, Planning, Status, Foreground, TaskType, SharedType
  <2>3. r \in Row
    BY <1>1, <2>1, <2>2 DEF NewRow, Row
  <2>4. /\ r.type = "production" /\ r.step = "confirm_task" /\ r.fsm = 1
        /\ r.status = s
    BY <2>1 DEF NewRow
  <2>5. /\ r.product = p /\ r.approved = FALSE
        /\ r.produced = NoResult /\ r.validation = ""
    BY <2>1 DEF NewRow
  <2>6. r.fsm # 0
    BY <2>4
  <2>8. r.product # NoProduct
    BY <2>5, ProductAssumption, Zenon
  <2>7. /\ r.step \in Planning /\ r.step \notin Validation \cup Done
        /\ r.step \notin {"legacy", "completed", "confirm_completion"}
        /\ r.type \in SharedType /\ r.status # "completed"
        /\ r.validation # "passed"
    BY <2>2, <2>4, <2>5 DEF Planning, Validation, Done, SharedType
  <2> QED BY <2>3, <2>5, <2>6, <2>7, <2>8, Zenon DEF RowFacts
<1> QED BY <1>2, <1>3

(* Adoption (the in-place upgrade of Apply) keeps a row's shape and facts.   *)
LEMMA AdoptedFits ==
  ASSUME NEW r \in Row, RowFacts(r), Shared(r), r.status \notin Closed
  PROVE  /\ Adopted(r) \in Row
         /\ RowFacts(Adopted(r))
         /\ Adopted(r).status = r.status
         /\ Adopted(r).assignee = r.assignee
         /\ Adopted(r).fsm = 1
<1>1. CASE r.fsm = 1
  BY <1>1 DEF Adopted
<1>2. CASE r.fsm # 1
  <2>1. PICK s \in {"select_product", "set_quantity", "confirm_task"} :
          /\ Adopted(r) = [r EXCEPT !.fsm = 1, !.step = s]
          /\ r.product = NoProduct => s = "select_product"
    BY <1>2 DEF Adopted
  <2> DEFINE n == [r EXCEPT !.fsm = 1, !.step = s]
  <2>2. s \in Step
    BY DEF Step, Planning
  <2>3. /\ n \in Row
        /\ n.type = r.type /\ n.status = r.status /\ n.assignee = r.assignee
        /\ n.product = r.product /\ n.qty = r.qty /\ n.approved = r.approved
        /\ n.produced = r.produced /\ n.validation = r.validation
        /\ n.fsm = 1 /\ n.step = s
    BY <2>2 DEF Row
  <2>4. r.step = "legacy"
    BY <1>2 DEF RowFacts, Row
  <2> HIDE DEF n
  <2>5. RowFacts(n)
    BY <2>1, <2>3, <2>4 DEF RowFacts, Shared, Planning, Validation, Done, Closed
  <2> QED BY <2>1, <2>3, <2>5 DEF n
<1> QED BY <1>1, <1>2

(* A row somebody may make a request about, as the request works on it.      *)
LEMMA CurrentFits ==
  ASSUME IInv, NEW u \in User, NEW t \in Task, NEW key, Applicable(u, t, key)
  PROVE  /\ task[t] \in Row
         /\ Current(t) \in Row
         /\ RowFacts(Current(t))
         /\ Current(t).status = task[t].status
         /\ Current(t).assignee = task[t].assignee
         /\ Current(t).fsm = 1 /\ Current(t).fsm # 0
         /\ Current(t).step \in Definitions[key].from
         /\ Current(t).status \in Definitions[key].status
<1>1. task[t] \in Row /\ RowFacts(task[t])
  BY DEF IInv, TypeOK, StageFacts, Applicable, Exists
<1>2. /\ Shared(task[t])
      /\ Matches(Current(t), key)
  BY DEF Applicable, Current
<1>3. task[t].status \notin Closed
  <2>1. CASE task[t].fsm = 1
    BY <1>2, <2>1 DEF Matches, Current, Adopted
  <2>2. CASE task[t].fsm # 1
    <3>1. PICK s : Adopted(task[t]) = [task[t] EXCEPT !.fsm = 1, !.step = s]
      BY <2>2 DEF Adopted
    <3>2. [task[t] EXCEPT !.fsm = 1, !.step = s].status = task[t].status
      BY <1>1 DEF Row
    <3> QED BY <1>2, <3>1, <3>2 DEF Matches, Current
  <2> QED BY <2>1, <2>2
<1>4. Current(t).fsm = 1
  BY <1>1, <1>2, <1>3, AdoptedFits DEF Current
<1>5. Current(t).fsm # 0
  BY <1>4
<1> QED BY <1>1, <1>2, <1>3, <1>4, <1>5, AdoptedFits DEF Matches, Current

-----------------------------------------------------------------------------
(* The three ways to write the table. *)

(* A request that saves its own row, of the right shape and facts, for the   *)
(* same executor, keeps the invariant, unless it brings the task back to the *)
(* foreground of an executor who has another.                                *)
LEMMA SaveKeeps ==
  ASSUME IInv, NEW t \in Task, NEW key, NEW new \in Row,
         Exists(t), Save(t, key, new), UNCHANGED Unposted,
         RowFacts(new), new.assignee = task[t].assignee,
         new.status \in Foreground =>
           \/ task[t].status \in Foreground
           \/ ~ \E s \in Task : Holds(s, task[t].assignee)
  PROVE  IInv'
<1> DEFINE saved == [new EXCEPT !.version = task[t].version + 1]
<1>1. /\ task \in [Task -> Row \cup {NoRow}]
      /\ task[t] \in Row
      /\ task[t].version \in 1 .. MaxVersion
      /\ task[t].version < MaxVersion
      /\ task' = [task EXCEPT ![t] = saved]
  BY DEF IInv, TypeOK, Exists, Save, Row
<1>2. task[t].version + 1 \in 1 .. MaxVersion
  BY <1>1, VersionAssumption
<1>3. /\ saved \in Row /\ saved.version = task[t].version + 1
      /\ saved.status = new.status /\ saved.assignee = task[t].assignee
      /\ RowFacts(saved)
  <2>1. saved \in Row
    BY <1>2, VersionField
  <2>2. /\ saved.type = new.type /\ saved.status = new.status
        /\ saved.step = new.step /\ saved.fsm = new.fsm
        /\ saved.assignee = new.assignee
        /\ saved.product = new.product /\ saved.qty = new.qty
        /\ saved.approved = new.approved /\ saved.produced = new.produced
        /\ saved.validation = new.validation
        /\ saved.version = task[t].version + 1
    BY VersionField
  <2> HIDE DEF saved
  <2>3. RowFacts(saved)
    BY <2>2 DEF RowFacts
  <2> QED BY <2>1, <2>2, <2>3
<1> HIDE DEF saved
<1>4. TypeOK'
  BY <1>1, <1>3 DEF IInv, TypeOK, MembersTypeOK, Unposted, memberVars
<1>5. StageFacts'
  BY <1>1, <1>3 DEF IInv, StageFacts, Exists
<1>6. OneForeground'
  <2>2. ASSUME NEW s \in Task, NEW u \in User, Holds(s, u)', s # t
        PROVE  Holds(s, u)
    BY <1>1, <2>2 DEF Holds, Exists
  <2>3. ASSUME NEW u \in User, Holds(t, u)'
        PROVE  u = task[t].assignee /\ new.status \in Foreground
    BY <1>1, <1>3, <2>3 DEF Holds, Exists
  <2>4. ASSUME NEW s \in Task, NEW u \in User, Holds(s, u)', Holds(t, u)'
        PROVE  s = t
    BY <2>2, <2>3, <2>4 DEF IInv, OneForeground, Holds
  <2> QED BY <2>2, <2>4 DEF IInv, OneForeground
<1>7. VersionIdentifiesRow'
  <2>1. card' = card
    BY DEF Unposted
  <2>2. ASSUME card # NoCard
        PROVE  /\ task'[card.id] # NoRow
               /\ card.row.version <= task'[card.id].version
               /\ card.row.version = task'[card.id].version
                    => card.row = task'[card.id]
    <3>1. card.id \in Task /\ card.row \in Row
      BY <2>2 DEF IInv, TypeOK
    <3>2. card.row.version \in Int
      <4>1. card.row.version \in 1 .. MaxVersion
        BY <3>1 DEF Row
      <4> QED BY <4>1, VersionAssumption
    <3>3. /\ task[card.id] # NoRow
          /\ card.row.version <= task[card.id].version
          /\ card.row.version = task[card.id].version => card.row = task[card.id]
      BY <2>2 DEF IInv, VersionIdentifiesRow, Exists
    <3>4. CASE card.id = t
      BY <1>1, <1>3, <3>2, <3>3, <3>4, RowAssumption
    <3>5. CASE card.id # t
      BY <1>1, <3>1, <3>3, <3>5
    <3> QED BY <3>4, <3>5
  <2> QED BY <2>1, <2>2 DEF VersionIdentifiesRow, Exists
<1> QED BY <1>4, <1>5, <1>6, <1>7 DEF IInv

(* A new row for an executor with an empty foreground keeps the invariant.   *)
LEMMA InsertKeeps ==
  ASSUME IInv, NEW t \in Task, NEW row \in Row, Insert(t, row),
         RowFacts(row), ~ \E s \in Task : Holds(s, row.assignee)
  PROVE  IInv'
<1>1. /\ task \in [Task -> Row \cup {NoRow}]
      /\ task' = [task EXCEPT ![t] = row]
      /\ ~Exists(t)
      /\ UNCHANGED Unposted
  BY DEF IInv, TypeOK, Insert
<1>2. TypeOK'
  BY <1>1 DEF IInv, TypeOK, MembersTypeOK, Unposted, memberVars
<1>3. StageFacts'
  BY <1>1 DEF IInv, StageFacts, Exists
<1>4. OneForeground'
  BY <1>1 DEF IInv, OneForeground, Holds, Exists
<1>5. VersionIdentifiesRow'
  BY <1>1 DEF IInv, TypeOK, VersionIdentifiesRow, Exists, Unposted
<1> QED BY <1>2, <1>3, <1>4, <1>5 DEF IInv

-----------------------------------------------------------------------------
(* The requests. *)

(* Where each request may start. *)
LEMMA Sources ==
  /\ Definitions["select_product"].from = {"select_product"}
  /\ Definitions["set_quantity"].from = {"set_quantity", "confirm_task"}
  /\ Definitions["edit_parameters"].from = {"confirm_task"}
  /\ Definitions["confirm_task"].from = {"confirm_task"}
  /\ Definitions["start_production"].from = {"start_production"}
  /\ Definitions["record_result"].from = {"record_result"}
  /\ Definitions["verify_result"].from = {"verify_result"}
  /\ Definitions["correct_result"].from = Validation
  /\ \A key \in {"pause", "resume", "cancel", "fail"} : Definitions[key].from = Ongoing
  BY DEF Definitions, Def

(* A planning request that fills in parameters: nothing is approved and      *)
(* nothing has been produced, before or after.                               *)
LEMMA PlanningKeeps ==
  ASSUME IInv, NEW u \in User, NEW t \in Task, NEW key, Applicable(u, t, key),
         Definitions[key].from \subseteq Planning,
         NEW p \in Product \cup {NoProduct}, NEW q \in Quantity,
         NEW st \in {"select_product", "set_quantity", "confirm_task"},
         st # "select_product" => p # NoProduct,
         NEW new, new = [Current(t) EXCEPT !.product = p, !.qty = q, !.approved = FALSE,
                                           !.step = st],
         Save(t, key, new), UNCHANGED Unposted
  PROVE  IInv'
<1> DEFINE c == Current(t)
<1>1. /\ c \in Row /\ RowFacts(c) /\ c.fsm = 1 /\ c.step \in Planning
      /\ c.status = task[t].status /\ c.assignee = task[t].assignee
  BY CurrentFits
<1>2. Exists(t)
  BY DEF Applicable
<1> HIDE DEF c
<1>3. st \in Step
  BY DEF Step, Planning
<1>4. new \in Row
  BY <1>1, <1>3 DEF c, Row
<1>5. /\ new.type = c.type /\ new.status = c.status /\ new.assignee = c.assignee
      /\ new.produced = c.produced /\ new.validation = c.validation
      /\ new.fsm = c.fsm /\ new.step = st /\ new.product = p /\ new.approved = FALSE
  BY <1>1 DEF c, Row
<1>6. RowFacts(new)
  BY <1>1, <1>5 DEF RowFacts, Planning, Validation, Done
<1> QED BY <1>1, <1>2, <1>4, <1>5, <1>6, SaveKeeps

(* A request past planning: the parameters are there and approved, the       *)
(* result and the verification are written as the step demands.              *)
LEMMA ProgressKeeps ==
  ASSUME IInv, NEW u \in User, NEW t \in Task, NEW key, Applicable(u, t, key),
         Current(t).product # NoProduct, Current(t).qty # 0,
         Current(t).step # "completed",
         NEW pr \in Count \cup {NoResult}, NEW va \in {"", "passed", "failed"},
         NEW st \in {"start_production", "record_result", "verify_result",
                     "confirm_completion"},
         pr # NoResult <=> st \in Validation,
         va = "passed" <=> st = "confirm_completion",
         NEW new, new = [Current(t) EXCEPT !.approved = TRUE, !.produced = pr,
                                           !.validation = va, !.step = st],
         Save(t, key, new), UNCHANGED Unposted
  PROVE  IInv'
<1> DEFINE c == Current(t)
<1>1. /\ c \in Row /\ RowFacts(c) /\ c.fsm = 1 /\ c.fsm # 0
      /\ c.status = task[t].status /\ c.assignee = task[t].assignee
  BY CurrentFits
<1>2. Exists(t)
  BY DEF Applicable
<1>3. c.product # NoProduct /\ c.qty # 0 /\ c.step # "completed"
  OBVIOUS
<1> HIDE DEF c
<1>4. st \in Step /\ st \notin Planning /\ st \notin Done /\ st # "legacy"
  BY DEF Step, Planning, Execution, Validation, Done
<1>5. new \in Row
  BY <1>1, <1>4 DEF c, Row
<1>6. /\ new.type = c.type /\ new.status = c.status /\ new.assignee = c.assignee
      /\ new.produced = pr /\ new.validation = va /\ new.product = c.product
      /\ new.qty = c.qty /\ new.fsm = c.fsm /\ new.step = st /\ new.approved = TRUE
  BY <1>1 DEF c, Row
<1>7. RowFacts(new)
  <2>1. c.status # "completed" /\ c.type \in SharedType
    BY <1>1, <1>3 DEF RowFacts
  <2>2. new.fsm = 1 /\ new.fsm # 0
    BY <1>1, <1>6, Zenon
  <2>3. /\ st # "completed" /\ st \notin {"set_quantity", "confirm_task"}
        /\ st \notin Planning /\ st # "legacy"
        /\ (st \in Validation \cup Done <=> st \in Validation)
        /\ (st \in {"confirm_completion", "completed"} <=> st = "confirm_completion")
    BY DEF Planning, Validation, Done
  <2> QED BY <1>3, <1>4, <1>6, <2>1, <2>2, <2>3, Zenon DEF RowFacts
<1> QED BY <1>1, <1>2, <1>5, <1>6, <1>7, SaveKeeps

(* A request that only changes the status, never to completed, and to the    *)
(* foreground only when the executor's is empty.                             *)
LEMMA StatusKeeps ==
  ASSUME IInv, NEW u \in User, NEW t \in Task, NEW key, Applicable(u, t, key),
         Definitions[key].from \subseteq Ongoing,
         NEW s \in {"active", "paused", "cancelled", "failed"},
         s = "active" => ~ \E o \in Task : Holds(o, task[t].assignee),
         NEW new, new = [Current(t) EXCEPT !.status = s],
         Save(t, key, new), UNCHANGED Unposted
  PROVE  IInv'
<1> DEFINE c == Current(t)
<1>1. /\ c \in Row /\ RowFacts(c) /\ c.fsm = 1 /\ c.step \in Ongoing
      /\ c.assignee = task[t].assignee
  BY CurrentFits
<1>2. Exists(t)
  BY DEF Applicable
<1> HIDE DEF c
<1>3. s \in Status /\ s # "completed" /\ (s \in Foreground => s = "active")
  BY DEF Status, Foreground, Closed
<1>4. new \in Row
  BY <1>1, <1>3 DEF c, Row
<1>5. /\ new.type = c.type /\ new.status = s /\ new.assignee = c.assignee
      /\ new.produced = c.produced /\ new.validation = c.validation
      /\ new.product = c.product /\ new.qty = c.qty /\ new.fsm = c.fsm
      /\ new.step = c.step /\ new.approved = c.approved
  BY <1>1 DEF c, Row
<1>6. RowFacts(new)
  BY <1>1, <1>3, <1>5 DEF RowFacts, Ongoing, Planning, Execution, Validation
<1> QED BY <1>1, <1>2, <1>3, <1>4, <1>5, <1>6, SaveKeeps

(* The requests of the planning phase. *)
LEMMA PlanningRequests ==
  ASSUME IInv, NEW u \in User, NEW t \in Task
  PROVE  /\ \A p \in Product : SelectProduct(u, t, p) => IInv'
         /\ \A q \in Pieces : SetQuantity(u, t, q) => IInv'
         /\ EditParameters(u, t) => IInv'
         /\ AdoptTask(u, t) => IInv'
<1>1. ASSUME NEW key, Applicable(u, t, key)
      PROVE  /\ Current(t) \in Row /\ RowFacts(Current(t))
             /\ Current(t).product \in Product \cup {NoProduct}
             /\ Current(t).qty \in Quantity
             /\ Current(t).approved \in BOOLEAN
             /\ Current(t).step \in Definitions[key].from
  <2>1. Current(t) \in Row
    BY <1>1, CurrentFits
  <2> QED BY <1>1, <2>1, CurrentFits DEF Row
<1>2. Pieces \subseteq Quantity
  BY DEF Pieces, Quantity
<1>3. ASSUME NEW p \in Product, SelectProduct(u, t, p)
      PROVE  IInv'
  <2> DEFINE c == Current(t)
             new == [c EXCEPT !.product = p, !.step = "set_quantity"]
  <2>1. /\ Applicable(u, t, "select_product")
        /\ Save(t, "select_product", new)
        /\ UNCHANGED Unposted
    BY <1>3 DEF SelectProduct
  <2>2. c.step = "select_product" /\ c.approved = FALSE
    BY <1>1, <2>1, Sources DEF RowFacts, Planning
  <2>3. new = [c EXCEPT !.product = p, !.qty = c.qty, !.approved = FALSE,
                        !.step = "set_quantity"]
    BY <1>1, <2>1, <2>2 DEF Row
  <2>4. Definitions["select_product"].from \subseteq Planning
    BY Sources DEF Planning
  <2>5. p # NoProduct /\ p \in Product \cup {NoProduct} /\ c.qty \in Quantity
    BY <1>1, <2>1, ProductAssumption
  <2> HIDE DEF c, new
  <2> QED BY <2>1, <2>3, <2>4, <2>5, PlanningKeeps DEF c
<1>4. ASSUME NEW q \in Pieces, SetQuantity(u, t, q)
      PROVE  IInv'
  <2> DEFINE c == Current(t)
             new == [c EXCEPT !.qty = q, !.approved = FALSE, !.step = "confirm_task"]
  <2>1. /\ Applicable(u, t, "set_quantity")
        /\ Save(t, "set_quantity", new)
        /\ UNCHANGED Unposted
    BY <1>4 DEF SetQuantity
  <2>2. c.step \in {"set_quantity", "confirm_task"} /\ c.product # NoProduct
    BY <1>1, <2>1, Sources DEF RowFacts
  <2>3. new = [c EXCEPT !.product = c.product, !.qty = q, !.approved = FALSE,
                        !.step = "confirm_task"]
    BY <1>1, <2>1, <2>2 DEF Row
  <2>4. Definitions["set_quantity"].from \subseteq Planning
    BY Sources DEF Planning
  <2>5. c.product \in Product \cup {NoProduct} /\ q \in Quantity
    BY <1>1, <1>2, <2>1
  <2> HIDE DEF c, new
  <2> QED BY <2>1, <2>2, <2>3, <2>4, <2>5, PlanningKeeps DEF c
<1>5. ASSUME EditParameters(u, t)
      PROVE  IInv'
  <2> DEFINE c == Current(t)
             new == [c EXCEPT !.approved = FALSE, !.step = "select_product"]
  <2>1. /\ Applicable(u, t, "edit_parameters")
        /\ Save(t, "edit_parameters", new)
        /\ UNCHANGED Unposted
    BY <1>5 DEF EditParameters
  <2>2. new = [c EXCEPT !.product = c.product, !.qty = c.qty, !.approved = FALSE,
                        !.step = "select_product"]
    BY <1>1, <2>1 DEF Row
  <2>3. Definitions["edit_parameters"].from \subseteq Planning
    BY Sources DEF Planning
  <2>4. c.product \in Product \cup {NoProduct} /\ c.qty \in Quantity
    BY <1>1, <2>1
  <2> HIDE DEF c, new
  <2> QED BY <2>1, <2>2, <2>3, <2>4, PlanningKeeps DEF c
<1>6. ASSUME AdoptTask(u, t)
      PROVE  IInv'
  <2>1. /\ Applicable(u, t, "adopt_task")
        /\ Save(t, "adopt_task", Current(t))
        /\ UNCHANGED Unposted
        /\ Exists(t)
    BY <1>6 DEF AdoptTask, Applicable
  <2> QED BY <2>1, CurrentFits, SaveKeeps
<1> QED BY <1>3, <1>4, <1>5, <1>6

(* The requests of the execution and validation phases. *)
LEMMA ProgressRequests ==
  ASSUME IInv, NEW u \in User, NEW t \in Task
  PROVE  /\ ConfirmTask(u, t) => IInv'
         /\ \A enough \in BOOLEAN : StartProduction(u, t, enough) => IInv'
         /\ \A q \in Count : RecordResult(u, t, q) => IInv'
         /\ VerifyResult(u, t) => IInv'
         /\ CorrectResult(u, t) => IInv'
<1> USE DEF NoResult
<1> DEFINE c == Current(t)
<1>1. ASSUME NEW key, Applicable(u, t, key)
      PROVE  /\ c \in Row /\ RowFacts(c) /\ c.fsm = 1
             /\ c.step \in Definitions[key].from
             /\ c.produced \in Count \cup {NoResult}
             /\ c.validation \in {"", "passed", "failed"}
  <2>1. c \in Row
    BY <1>1, CurrentFits
  <2> QED BY <1>1, <2>1, CurrentFits DEF Row
<1>2. \A q \in Count : q # NoResult
  BY CountAssumption
<1>3. ASSUME ConfirmTask(u, t)
      PROVE  IInv'
  <2> DEFINE new == [c EXCEPT !.approved = TRUE, !.step = "start_production"]
  <2>1. /\ Applicable(u, t, "confirm_task")
        /\ c.product # NoProduct /\ c.qty # 0
        /\ Save(t, "confirm_task", new)
        /\ UNCHANGED Unposted
    BY <1>3 DEF ConfirmTask
  <2>2. c.step = "confirm_task"
    BY <1>1, <2>1, Sources
  <2>3. c.produced = NoResult /\ c.validation # "passed"
    BY <1>1, <2>1, <2>2 DEF RowFacts, Validation, Done
  <2>4. new = [c EXCEPT !.approved = TRUE, !.produced = c.produced,
                        !.validation = c.validation, !.step = "start_production"]
    BY <1>1, <2>1 DEF Row
  <2>5. "start_production" \notin Validation
    BY DEF Validation
  <2>6. c.produced \in Count \cup {NoResult} /\ c.validation \in {"", "passed", "failed"}
    BY <1>1, <2>1
  <2> HIDE DEF c, new
  <2> QED BY <2>1, <2>2, <2>3, <2>4, <2>5, <2>6, ProgressKeeps DEF c
<1>4. ASSUME NEW enough \in BOOLEAN, StartProduction(u, t, enough)
      PROVE  IInv'
  <2> DEFINE new == [c EXCEPT !.step = "record_result"]
  <2>1. /\ Applicable(u, t, "start_production")
        /\ Save(t, "start_production", new)
        /\ UNCHANGED Unposted
    BY <1>4 DEF StartProduction
  <2>2. c.step = "start_production"
    BY <1>1, <2>1, Sources
  <2>3. /\ c.produced = NoResult /\ c.validation # "passed" /\ c.approved = TRUE
        /\ c.product # NoProduct /\ c.qty # 0
    <3>1. c.approved \in BOOLEAN
      BY <1>1, <2>1 DEF Row
    <3> QED BY <1>1, <2>1, <2>2, <3>1 DEF RowFacts, Planning, Validation, Done
  <2>4. new = [c EXCEPT !.approved = TRUE, !.produced = c.produced,
                        !.validation = c.validation, !.step = "record_result"]
    BY <1>1, <2>1, <2>3 DEF Row
  <2>5. "record_result" \notin Validation
    BY DEF Validation
  <2>6. c.produced \in Count \cup {NoResult} /\ c.validation \in {"", "passed", "failed"}
    BY <1>1, <2>1
  <2> HIDE DEF c, new
  <2> QED BY <2>1, <2>2, <2>3, <2>4, <2>5, <2>6, ProgressKeeps DEF c
<1>5. ASSUME NEW q \in Count, RecordResult(u, t, q)
      PROVE  IInv'
  <2> DEFINE new == [c EXCEPT !.produced = q, !.validation = "", !.step = "verify_result"]
  <2>1. /\ Applicable(u, t, "record_result")
        /\ Save(t, "record_result", new)
        /\ UNCHANGED Unposted
    BY <1>5 DEF RecordResult
  <2>2. c.step = "record_result"
    BY <1>1, <2>1, Sources
  <2>3. c.approved = TRUE /\ c.product # NoProduct /\ c.qty # 0
    <3>1. c.approved \in BOOLEAN
      BY <1>1, <2>1 DEF Row
    <3> QED BY <1>1, <2>1, <2>2, <3>1 DEF RowFacts, Planning
  <2>4. new = [c EXCEPT !.approved = TRUE, !.produced = q, !.validation = "",
                        !.step = "verify_result"]
    BY <1>1, <2>1, <2>3 DEF Row
  <2>5. "verify_result" \in Validation /\ q # NoResult /\ q \in Count \cup {NoResult}
    BY <1>2 DEF Validation
  <2> HIDE DEF c, new
  <2> QED BY <2>1, <2>2, <2>3, <2>4, <2>5, ProgressKeeps DEF c
<1>6. ASSUME VerifyResult(u, t)
      PROVE  IInv'
  <2> DEFINE new == [c EXCEPT !.validation = "passed", !.step = "confirm_completion"]
  <2>1. /\ Applicable(u, t, "verify_result")
        /\ Save(t, "verify_result", new)
        /\ UNCHANGED Unposted
        /\ c.produced # NoResult
    BY <1>6 DEF VerifyResult
  <2>2. c.step = "verify_result"
    BY <1>1, <2>1, Sources
  <2>3. c.approved = TRUE /\ c.product # NoProduct /\ c.qty # 0
    <3>1. c.approved \in BOOLEAN
      BY <1>1, <2>1 DEF Row
    <3> QED BY <1>1, <2>1, <2>2, <3>1 DEF RowFacts, Planning
  <2>4. new = [c EXCEPT !.approved = TRUE, !.produced = c.produced,
                        !.validation = "passed", !.step = "confirm_completion"]
    BY <1>1, <2>1, <2>3 DEF Row
  <2>5. "confirm_completion" \in Validation /\ c.produced \in Count \cup {NoResult}
    BY <1>1, <2>1 DEF Validation
  <2> HIDE DEF c, new
  <2> QED BY <2>1, <2>2, <2>3, <2>4, <2>5, ProgressKeeps DEF c
<1>7. ASSUME CorrectResult(u, t)
      PROVE  IInv'
  <2> DEFINE new == [c EXCEPT !.produced = NoResult, !.validation = "failed",
                              !.step = "record_result"]
  <2>1. /\ Applicable(u, t, "correct_result")
        /\ Save(t, "correct_result", new)
        /\ UNCHANGED Unposted
    BY <1>7 DEF CorrectResult
  <2>2. c.step \in Validation
    BY <1>1, <2>1, Sources
  <2>3. c.approved = TRUE /\ c.product # NoProduct /\ c.qty # 0 /\ c.step # "completed"
    <3>1. c.approved \in BOOLEAN
      BY <1>1, <2>1 DEF Row
    <3> QED BY <1>1, <2>1, <2>2, <3>1 DEF RowFacts, Planning, Validation
  <2>4. new = [c EXCEPT !.approved = TRUE, !.produced = NoResult,
                        !.validation = "failed", !.step = "record_result"]
    BY <1>1, <2>1, <2>3 DEF Row
  <2>5. "record_result" \notin Validation /\ NoResult \in Count \cup {NoResult}
    BY DEF Validation
  <2> HIDE DEF c, new
  <2> QED BY <2>1, <2>3, <2>4, <2>5, ProgressKeeps DEF c
<1> QED BY <1>3, <1>4, <1>5, <1>6, <1>7

(* The requests that hold, resume or close a task. *)
LEMMA StatusRequests ==
  ASSUME IInv, NEW u \in User, NEW t \in Task
  PROVE  /\ Pause(u, t) => IInv'
         /\ Resume(u, t) => IInv'
         /\ Cancel(u, t) => IInv'
         /\ Fail(u, t) => IInv'
<1>1. \A key \in {"pause", "resume", "cancel", "fail"} :
        Definitions[key].from \subseteq Ongoing
  BY Sources
<1>2. Pause(u, t) => IInv'
  BY <1>1, StatusKeeps DEF Pause
<1>3. Resume(u, t) => IInv'
  BY <1>1, StatusKeeps DEF Resume
<1>4. Cancel(u, t) => IInv'
  BY <1>1, StatusKeeps DEF Cancel
<1>5. Fail(u, t) => IInv'
  BY <1>1, StatusKeeps DEF Fail
<1> QED BY <1>2, <1>3, <1>4, <1>5

-----------------------------------------------------------------------------
(* The other writers. *)

(* Posting closes the task with the posted quantity as its result.           *)
LEMMA FinishPostingKeeps ==
  ASSUME IInv, NEW u \in User, NEW t \in Task, NEW q \in Pieces, FinishPosting(u, t, q)
  PROVE  IInv'
<1> DEFINE r == task[t]
           new == [r EXCEPT !.produced = q, !.status = "completed", !.step = "completed"]
<1>1. /\ Exists(t)
      /\ r.fsm = 1 /\ r.step = "confirm_completion" /\ r.validation = "passed"
      /\ Save(t, "production_posted", new)
      /\ UNCHANGED Unposted
  BY DEF FinishPosting, CompletionTask, CanPost
<1>2. r \in Row /\ RowFacts(r)
  BY <1>1 DEF IInv, TypeOK, StageFacts, Exists
<1>3. q \in Count \cup {NoResult} /\ q # NoResult
  BY CountAssumption DEF Pieces, NoResult
<1>4. "completed" \in Status /\ "completed" \in Step /\ "completed" \notin Foreground
  BY DEF Status, Closed, Step, Done, Foreground
<1> HIDE DEF r
<1>5. new \in Row
  BY <1>2, <1>3, <1>4 DEF Row
<1>6. /\ new.type = r.type /\ new.status = "completed" /\ new.assignee = r.assignee
      /\ new.produced = q /\ new.validation = r.validation /\ new.product = r.product
      /\ new.qty = r.qty /\ new.fsm = r.fsm /\ new.step = "completed"
      /\ new.approved = r.approved
  BY <1>2 DEF Row
<1> HIDE DEF new
<1>7. RowFacts(new)
  BY <1>1, <1>2, <1>3, <1>6 DEF RowFacts, Planning, Validation, Done, NoResult
<1> QED BY <1>1, <1>4, <1>5, <1>6, <1>7, SaveKeeps DEF r, new

(* A new task starts in planning, in an empty foreground.                    *)
LEMMA CreationKeeps ==
  ASSUME IInv, CreationStep
  PROVE  IInv'
<1>1. ASSUME NEW t \in Task, NEW type \in TaskType, NEW u \in User, NEW a \in User,
             NEW p \in Product \cup {NoProduct}, NEW q \in Quantity, NEW st \in Planning,
             NEW f \in {0, 1}, f = 0 <=> st = "legacy", f = 1 => type \in SharedType,
             st \in {"set_quantity", "confirm_task"} => p # NoProduct,
             Insert(t, NewRow(type, u, a, p, q, st, f)),
             ~ \E s \in Task : Holds(s, a)
      PROVE  IInv'
  <2> DEFINE n == NewRow(type, u, a, p, q, st, f)
  <2>1. st \in Step
    BY DEF Step
  <2>2. n \in Row
    BY <2>1, NewRowFits
  <2>3. /\ n.type = type /\ n.status = "active" /\ n.step = st /\ n.fsm = f
        /\ n.assignee = a /\ n.product = p
        /\ n.approved = FALSE /\ n.produced = NoResult /\ n.validation = ""
    BY DEF NewRow
  <2>4. st \notin Validation \cup Done
    BY DEF Planning, Validation, Done
  <2>5. Insert(t, n) /\ ~ \E s \in Task : Holds(s, n.assignee)
    BY <1>1, <2>3
  <2> HIDE DEF n
  <2>6. RowFacts(n)
    BY <1>1, <2>3, <2>4 DEF RowFacts, Planning, Validation, Done
  <2> QED BY <2>2, <2>5, <2>6, InsertKeeps
<1>2. /\ \A st \in {"select_product", "set_quantity", "confirm_task", "legacy"} :
           st \in Planning
      /\ SharedType \subseteq TaskType /\ {"production", "assembly"} \subseteq SharedType
      /\ Pieces \subseteq Quantity /\ Product \subseteq Product \cup {NoProduct}
  BY DEF Planning, TaskType, SharedType, Pieces, Quantity
<1>3. ASSUME NEW u \in User, NEW t \in Task, NEW p \in Product \cup {NoProduct},
             NEW q \in Quantity, Create(u, t, p, q)
      PROVE  IInv'
  <2>1. CASE p = NoProduct
    BY <1>1, <1>2, <1>3, <2>1 DEF Create
  <2>2. CASE p # NoProduct
    BY <1>1, <1>2, <1>3, <2>2 DEF Create
  <2> QED BY <2>1, <2>2
<1>4. ASSUME NEW u \in User, NEW t \in Task, NEW a \in User, NEW p \in Product,
             NEW q \in Pieces, ConfirmAssemblyDraft(u, t, a, p, q)
      PROVE  IInv'
  BY <1>1, <1>2, <1>4, ProductAssumption DEF ConfirmAssemblyDraft
<1>5. ASSUME NEW u \in User, NEW t \in Task, NEW kind \in TaskType,
             NEW p \in Product, NEW q \in Quantity,
             CreateWorkingMemory(u, t, kind, p, q)
      PROVE  IInv'
  BY <1>1, <1>2, <1>5 DEF CreateWorkingMemory
<1> QED BY <1>3, <1>4, <1>5 DEF CreationStep

(* Reassigning a task counts its version and gives it to an executor whose   *)
(* foreground holds nothing else.                                            *)
LEMMA AssignKeeps ==
  ASSUME IInv, NEW u \in User, NEW t \in Task, NEW a \in User, AssignTask(u, t, a)
  PROVE  IInv'
<1> DEFINE r == task[t]
           moved == [r EXCEPT !.assignee = a]
           new == [moved EXCEPT !.version = r.version + 1]
<1>1. /\ Exists(t)
      /\ r.version < MaxVersion
      /\ task' = [task EXCEPT ![t].assignee = a, ![t].version = @ + 1]
      /\ ~ \E s \in Task \ {t} : Holds(s, a)
      /\ UNCHANGED Unposted
  BY DEF AssignTask
<1>2. task \in [Task -> Row \cup {NoRow}] /\ r \in Row /\ RowFacts(r)
  BY <1>1 DEF IInv, TypeOK, StageFacts, Exists
<1>3. r.version \in 1 .. MaxVersion
  BY <1>2 DEF Row
<1>4. r.version + 1 \in 1 .. MaxVersion
  BY <1>1, <1>3, VersionAssumption
<1>5. task' = [task EXCEPT ![t] = new]
  BY <1>1, <1>2 DEF Row
<1> HIDE DEF r
<1>6. /\ moved \in Row
      /\ moved.type = r.type /\ moved.status = r.status /\ moved.step = r.step
      /\ moved.fsm = r.fsm /\ moved.assignee = a /\ moved.product = r.product
      /\ moved.qty = r.qty /\ moved.approved = r.approved
      /\ moved.produced = r.produced /\ moved.validation = r.validation
  BY <1>2 DEF Row
<1> HIDE DEF moved
<1>7. new \in Row
  BY <1>4, <1>6, VersionField
<1>8. /\ new.type = moved.type /\ new.status = moved.status /\ new.step = moved.step
      /\ new.fsm = moved.fsm /\ new.assignee = moved.assignee
      /\ new.product = moved.product /\ new.qty = moved.qty
      /\ new.approved = moved.approved /\ new.produced = moved.produced
      /\ new.validation = moved.validation /\ new.version = r.version + 1
  BY <1>6, VersionField
<1> HIDE DEF new
<1>9. RowFacts(new)
  BY <1>2, <1>6, <1>8, Zenon DEF RowFacts
<1>10. TypeOK'
  BY <1>1, <1>2, <1>5, <1>7 DEF IInv, TypeOK, MembersTypeOK, Unposted, memberVars
<1>11. StageFacts'
  BY <1>2, <1>5, <1>9 DEF IInv, StageFacts, Exists
<1>12. OneForeground'
  <2>1. ASSUME NEW s \in Task, NEW v \in User, Holds(s, v)', s # t
        PROVE  Holds(s, v)
    BY <1>2, <1>5, <2>1 DEF Holds, Exists
  <2>2. ASSUME NEW v \in User, Holds(t, v)'
        PROVE  v = a
    BY <1>2, <1>5, <1>6, <1>8, <2>2 DEF Holds, Exists
  <2>3. ASSUME NEW s \in Task, NEW v \in User, Holds(s, v)', Holds(t, v)'
        PROVE  s = t
    BY <1>1, <2>1, <2>2, <2>3
  <2> QED BY <2>1, <2>3 DEF IInv, OneForeground
<1>13. VersionIdentifiesRow'
  <2>1. ASSUME card # NoCard
        PROVE  /\ task'[card.id] # NoRow
               /\ card.row.version <= task'[card.id].version
               /\ card.row.version = task'[card.id].version
                    => card.row = task'[card.id]
    <3>1. card.id \in Task /\ card.row \in Row
      BY <2>1 DEF IInv, TypeOK
    <3>2. card.row.version \in 1 .. MaxVersion
      BY <3>1 DEF Row
    <3>3. /\ task[card.id] # NoRow
          /\ card.row.version <= task[card.id].version
          /\ card.row.version = task[card.id].version => card.row = task[card.id]
      BY <2>1 DEF IInv, VersionIdentifiesRow, Exists
    <3>4. CASE card.id = t
      <4>1. task'[card.id] = new /\ new # NoRow
        BY <1>2, <1>5, <1>7, <3>1, <3>4, RowAssumption
      <4>2. card.row.version <= r.version
        BY <3>3, <3>4 DEF r
      <4> QED BY <1>3, <1>8, <3>2, <4>1, <4>2, VersionAssumption
    <3>5. CASE card.id # t
      BY <1>2, <1>5, <3>1, <3>3, <3>5
    <3> QED BY <3>4, <3>5
  <2> QED BY <1>1, <2>1 DEF VersionIdentifiesRow, Exists, Unposted
<1> QED BY <1>10, <1>11, <1>12, <1>13 DEF IInv

(* Kept apart: the backend that knows numbers loses them among the rows.     *)
LEMMA ZeroIsNotOne == 0 # 1
  OBVIOUS

(* The assistant's writes to a legacy row.                                   *)
LEMMA LegacyKeeps ==
  ASSUME IInv, LegacyStep
  PROVE  IInv'
<1>1. ASSUME NEW t \in Task, NEW u \in User, Exists(t), task[t].fsm = 0,
             NEW q \in Quantity, NEW s \in Status, s # "paused",
             s \in Foreground => task[t].status \in Foreground,
             NEW va \in {"", "passed", "failed"}, va # "passed",
             NEW key, NEW new,
             new = [task[t] EXCEPT !.qty = q, !.status = s, !.approved = FALSE,
                                   !.validation = va],
             Save(t, key, new), UNCHANGED Unposted
      PROVE  IInv'
  <2> DEFINE r == task[t]
  <2>1. r \in Row /\ RowFacts(r)
    BY <1>1 DEF IInv, TypeOK, StageFacts, Exists
  <2>2. r.fsm = 0
    BY <1>1
  <2> HIDE DEF r
  <2>3. r.step = "legacy"
    BY <2>1, <2>2 DEF RowFacts
  <2>6. r.fsm # 1
    BY <2>2, ZeroIsNotOne, Zenon
  <2>4. /\ new \in Row
        /\ new.type = r.type /\ new.status = s /\ new.step = r.step
        /\ new.fsm = r.fsm /\ new.assignee = r.assignee /\ new.product = r.product
        /\ new.approved = FALSE /\ new.produced = r.produced /\ new.validation = va
    BY <1>1, <2>1 DEF r, Row
  <2>5. RowFacts(new)
    <3>1. /\ r.step \in Planning /\ r.step \notin Validation \cup Done
          /\ r.step \notin {"set_quantity", "confirm_task", "confirm_completion", "completed"}
      BY <2>3 DEF Planning, Validation, Done
    <3> QED BY <1>1, <2>1, <2>2, <2>3, <2>4, <2>6, <3>1, Zenon DEF RowFacts
  <2> QED BY <1>1, <2>4, <2>5, SaveKeeps DEF r
<1>2. ASSUME NEW t \in Task, Exists(t), task[t].fsm = 0
      PROVE  /\ task[t] \in Row
             /\ task[t].approved = FALSE
             /\ task[t].qty \in Quantity
             /\ task[t].validation \in {"", "passed", "failed"}
             /\ task[t].validation # "passed"
  <2>1. task[t] \in Row /\ RowFacts(task[t])
    BY <1>2 DEF IInv, TypeOK, StageFacts, Exists
  <2>2. task[t].approved \in BOOLEAN /\ task[t].step = "legacy"
    BY <1>2, <2>1 DEF Row, RowFacts
  <2> QED BY <2>1, <2>2 DEF RowFacts, Row, Planning
<1>3. ASSUME NEW u \in User, NEW t \in Task, NEW q \in Quantity, LegacyUpdate(u, t, q)
      PROVE  IInv'
  <2>1. Exists(t) /\ task[t].fsm = 0 /\ UNCHANGED Unposted
    BY <1>3 DEF LegacyUpdate
  <2>2. PICK new :
          /\ new = [task[t] EXCEPT !.qty = q, !.status = "active", !.approved = FALSE,
                                   !.validation = ""]
          /\ Save(t, "legacy_update", new)
    BY <1>2, <1>3, <2>1 DEF LegacyUpdate, Row
  <2>3. task[t].status \in Foreground
    BY <2>2 DEF Save, Matches, Definitions, Def
  <2>4. "active" \in Status
    BY DEF Status, Foreground
  <2> QED BY <1>1, <2>1, <2>2, <2>3, <2>4
<1>4. ASSUME NEW u \in User, NEW t \in Task, NEW key \in {"legacy_complete", "legacy_cancel"},
             LegacyClose(u, t, key)
      PROVE  IInv'
  <2>1. Exists(t) /\ task[t].fsm = 0 /\ UNCHANGED Unposted
    BY <1>4 DEF LegacyClose
  <2>2. PICK s \in {"cancelled", "completed"} :
          Save(t, key, [task[t] EXCEPT !.status = s])
    BY <1>4 DEF LegacyClose
  <2> DEFINE new == [task[t] EXCEPT !.status = s]
  <2>3. new = [task[t] EXCEPT !.qty = task[t].qty, !.status = s, !.approved = FALSE,
                              !.validation = task[t].validation]
    BY <1>2, <2>1, <2>2 DEF Row
  <2>4. s \in Status /\ s # "paused" /\ s \notin Foreground
    BY DEF Status, Closed, Foreground
  <2>5. /\ task[t].qty \in Quantity
        /\ task[t].validation \in {"", "passed", "failed"} /\ task[t].validation # "passed"
    BY <1>2, <2>1
  <2> QED BY <1>1, <2>1, <2>2, <2>3, <2>4, <2>5
<1> QED BY <1>3, <1>4 DEF LegacyStep

-----------------------------------------------------------------------------
(* The steps that leave the tasks alone. *)

(* Membership, the selected workshop, the rule and a screen that shows a     *)
(* stored row.                                                               *)
LEMMA MemberTypes ==
  ASSUME MembersTypeOK,
         \/ MemberStep
         \/ \E u \in User : SelectHere(u) \/ SelectElsewhere(u) \/ LoseContext(u)
  PROVE  MembersTypeOK'
<1>1. ASSUME NEW actor \in User, NEW u \in User, NEW r \in GivenRole,
             ChangeRole(actor, u, r) \/ Activate(actor, u, r)
      PROVE  MembersTypeOK'
  BY <1>1, GivenRoleAssumption DEF ChangeRole, Activate, MembersTypeOK, MemberRole
<1>2. ASSUME NEW actor \in User, NEW u \in User,
             Deactivate(actor, u) \/ TransferOwnership(actor, u)
      PROVE  MembersTypeOK'
  BY <1>2 DEF Deactivate, TransferOwnership, MembersTypeOK, MemberRole, Assignable
<1>3. ASSUME NEW u \in User, SelectHere(u) \/ SelectElsewhere(u) \/ LoseContext(u)
      PROVE  MembersTypeOK'
  BY <1>3 DEF SelectHere, SelectElsewhere, LoseContext, MembersTypeOK
<1> QED BY <1>1, <1>2, <1>3 DEF MemberStep

(* The invariant says nothing about members but their types.                 *)
LEMMA TasksAlone ==
  ASSUME IInv, UNCHANGED task, MembersTypeOK', materialCheck' \in BOOLEAN,
         \/ UNCHANGED card
         \/ \E t \in Task : Exists(t) /\ card' = [id |-> t, row |-> task[t]]
  PROVE  IInv'
<1>1. StageFacts' /\ OneForeground'
  BY DEF IInv, StageFacts, OneForeground, Holds, Exists
<1>2. CASE UNCHANGED card
  BY <1>1, <1>2 DEF IInv, TypeOK, VersionIdentifiesRow, Exists
<1>3. ASSUME NEW t \in Task, Exists(t), card' = [id |-> t, row |-> task[t]]
      PROVE  IInv'
  <2>1. task[t] \in Row /\ task[t] # NoRow
    BY <1>3 DEF IInv, TypeOK, Exists
  <2>2. card' \in [id : Task, row : Row]
    BY <1>3, <2>1
  <2>3. card'.id = t /\ card'.row = task[t]
    BY <1>3
  <2>4. task[t].version \in 1 .. MaxVersion
    BY <2>1 DEF Row
  <2>5. task[t].version <= task[t].version
    BY <2>4, VersionAssumption
  <2>6. VersionIdentifiesRow'
    BY <2>1, <2>3, <2>5 DEF VersionIdentifiesRow, Exists
  <2> QED BY <1>1, <2>2, <2>6 DEF IInv, TypeOK
<1> QED BY <1>2, <1>3

-----------------------------------------------------------------------------
(* The theorems. *)

LEMMA InitInv ==
  ASSUME Init
  PROVE  IInv
<1>1. ASSUME NEW t \in Task, Exists(t)
      PROVE  task[t] \in Row /\ RowFacts(task[t])
  BY <1>1, StoredAssumption DEF Init, Exists
<1>2. StageFacts /\ OneForeground /\ VersionIdentifiesRow
  BY <1>1 DEF Init, StageFacts, OneForeground, VersionIdentifiesRow
<1>3. task \in [Task -> Row \cup {NoRow}]
  BY <1>1 DEF Init, Exists
<1>4. MembersTypeOK
  BY GivenRoleAssumption DEF Init, MembersInit, MembersTypeOK, MemberRole
<1> QED BY <1>2, <1>3, <1>4 DEF Init, IInv, TypeOK

LEMMA NextInv ==
  ASSUME IInv, [Next]_vars
  PROVE  IInv'
<1>1. CASE LifecycleStep
  BY <1>1, PlanningRequests, ProgressRequests, StatusRequests, AssignKeeps
     DEF LifecycleStep
<1>2. CASE CreationStep
  BY <1>2, CreationKeeps
<1>3. CASE LegacyStep
  BY <1>3, LegacyKeeps
<1>4. ASSUME NEW u \in User, NEW t \in Task, View(u, t)
      PROVE  IInv'
  BY <1>4, TasksAlone DEF View, IInv, TypeOK, MembersTypeOK, memberVars
<1>5. ASSUME NEW u \in User, UpdateConfirmed(u)
      PROVE  IInv'
  BY <1>5, TasksAlone DEF UpdateConfirmed, IInv, TypeOK, MembersTypeOK, memberVars
<1>6. CASE (MemberStep /\ UNCHANGED taskVars) \/ ContextStep
  BY <1>6, MemberTypes, TasksAlone DEF ContextStep, taskVars, IInv, TypeOK
<1>7. CASE StockStep
  BY <1>7, ProgressRequests, FinishPostingKeeps DEF StockStep
<1>8. CASE UNCHANGED vars
  BY <1>8, TasksAlone DEF vars, taskVars, memberVars, IInv, TypeOK, MembersTypeOK
<1> QED BY <1>1, <1>2, <1>3, <1>4, <1>5, <1>6, <1>7, <1>8 DEF Next, IndependentStep

(* The inductive invariant holds in every state the workshop reaches.        *)
THEOREM Invariance == Spec => []IInv
<1>1. Init => IInv
  BY InitInv
<1>2. IInv /\ [Next]_vars => IInv'
  BY NextInv
<1> QED BY <1>1, <1>2, PTL DEF Spec

(* Rows keep the shape the columns and CHECKs of working_memory give them.   *)
THEOREM TypeCorrect == Spec => []TypeOK
<1>1. IInv => TypeOK
  BY DEF IInv
<1> QED BY <1>1, Invariance, PTL

(* No executor ever has two tasks in the foreground.                         *)
THEOREM ForegroundCorrect == Spec => []OneForeground
<1>1. IInv => OneForeground
  BY DEF IInv
<1> QED BY <1>1, Invariance, PTL

(* The columns of a row always agree with its step.                          *)
THEOREM StagesCorrect == Spec => []StageFacts
<1>1. IInv => StageFacts
  BY DEF IInv
<1> QED BY <1>1, Invariance, PTL

(* The version a screen carries always stands for the whole row.             *)
THEOREM VersionsCorrect == Spec => []VersionIdentifiesRow
<1>1. IInv => VersionIdentifiesRow
  BY DEF IInv
<1> QED BY <1>1, Invariance, PTL

-----------------------------------------------------------------------------
(* What a step may do to a task that exists. *)

(* A request: it came from the screen that shows the stored version, and one *)
(* that only holds or closes the task leaves its step alone.                 *)
Requested(t) ==
  \E u \in User : \E key, new :
    /\ Applicable(u, t, key)
    /\ Save(t, key, new)
    /\ key \in Releasing => new.step = Current(t).step

(* A write of the assistant: executor and step stay.                         *)
Noted(t) ==
  \E key, new :
    /\ Save(t, key, new)
    /\ new.step = task[t].step
    /\ new.assignee = task[t].assignee

(* Whoever changes the row of a task is one of four.                         *)
LEMMA Writers ==
  ASSUME IInv, [Next]_vars, NEW t \in Task, Exists(t), task'[t] # task[t]
  PROVE  \/ Requested(t)
         \/ Noted(t)
         \/ \E u \in User, a \in User : AssignTask(u, t, a)
         \/ \E u \in User, q \in Pieces : FinishPosting(u, t, q)
<1>1. task \in [Task -> Row \cup {NoRow}] /\ task[t] \in Row
  BY DEF IInv, TypeOK, Exists
<1>2. ASSUME NEW s \in Task, NEW row, task' = [task EXCEPT ![s] = row]
      PROVE  s = t
  BY <1>1, <1>2
<1>3. ASSUME NEW s \in Task, NEW key, NEW new, Save(s, key, new)
      PROVE  s = t
  BY <1>2, <1>3 DEF Save
<1>4. CASE LifecycleStep
  <2>1. PICK u \in User, s \in Task :
          \/ \E p \in Product : SelectProduct(u, s, p)
          \/ \E q \in Pieces : SetQuantity(u, s, q)
          \/ EditParameters(u, s)
          \/ ConfirmTask(u, s)
          \/ \E q \in Count : RecordResult(u, s, q)
          \/ VerifyResult(u, s)
          \/ CorrectResult(u, s)
          \/ Pause(u, s)
          \/ Resume(u, s)
          \/ Cancel(u, s)
          \/ Fail(u, s)
          \/ AdoptTask(u, s)
          \/ \E a \in User : AssignTask(u, s, a)
    BY <1>4 DEF LifecycleStep
  <2>2. ASSUME NEW key, NEW new, Applicable(u, s, key), Save(s, key, new),
               key \notin Releasing
        PROVE  Requested(t)
    BY <1>3, <2>2 DEF Requested
  <2>3. ASSUME NEW key, NEW st, Applicable(u, s, key),
               Save(s, key, [Current(s) EXCEPT !.status = st])
        PROVE  Requested(t)
    <3>1. s = t /\ Current(t) \in Row
      BY <1>3, <2>3, CurrentFits
    <3>2. [Current(t) EXCEPT !.status = st].step = Current(t).step
      BY <3>1 DEF Row
    <3> QED BY <2>3, <3>1, <3>2 DEF Requested
  <2>4. \A key \in {"select_product", "set_quantity", "edit_parameters", "confirm_task",
                    "record_result", "verify_result", "correct_result", "adopt_task"} :
          key \notin Releasing
    BY DEF Releasing
  <2>5. ASSUME NEW p \in Product, SelectProduct(u, s, p)
        PROVE  Requested(t)
    BY <2>2, <2>4, <2>5 DEF SelectProduct
  <2>6. ASSUME NEW q \in Pieces, SetQuantity(u, s, q)
        PROVE  Requested(t)
    BY <2>2, <2>4, <2>6 DEF SetQuantity
  <2>7. ASSUME NEW q \in Count, RecordResult(u, s, q)
        PROVE  Requested(t)
    BY <2>2, <2>4, <2>7 DEF RecordResult
  <2>8. CASE EditParameters(u, s)
    BY <2>2, <2>4, <2>8 DEF EditParameters
  <2>9. CASE ConfirmTask(u, s)
    BY <2>2, <2>4, <2>9 DEF ConfirmTask
  <2>10. CASE VerifyResult(u, s)
    BY <2>2, <2>4, <2>10 DEF VerifyResult
  <2>11. CASE CorrectResult(u, s)
    BY <2>2, <2>4, <2>11 DEF CorrectResult
  <2>12. CASE AdoptTask(u, s)
    BY <2>2, <2>4, <2>12 DEF AdoptTask
  <2>13. CASE Pause(u, s)
    BY <2>3, <2>13 DEF Pause
  <2>14. CASE Resume(u, s)
    BY <2>3, <2>14 DEF Resume
  <2>15. CASE Cancel(u, s)
    BY <2>3, <2>15 DEF Cancel
  <2>16. CASE Fail(u, s)
    BY <2>3, <2>16 DEF Fail
  <2>17. ASSUME NEW a \in User, AssignTask(u, s, a)
         PROVE  AssignTask(u, t, a)
    BY <1>1, <2>17 DEF AssignTask
  <2> QED BY <2>1, <2>5, <2>6, <2>7, <2>8, <2>9, <2>10, <2>11, <2>12, <2>13, <2>14,
             <2>15, <2>16, <2>17
<1>5. ~CreationStep
  <2>1. ASSUME NEW s \in Task, NEW row, Insert(s, row)
        PROVE  FALSE
    BY <1>1, <2>1 DEF Insert
  <2> QED BY <2>1 DEF CreationStep, Create, ConfirmAssemblyDraft, CreateWorkingMemory
<1>6. CASE LegacyStep
  <2>1. ASSUME NEW u \in User, NEW s \in Task, NEW q \in Quantity, LegacyUpdate(u, s, q)
        PROVE  Noted(t)
    <3>1. s = t
      BY <1>3, <2>1 DEF LegacyUpdate
    <3> DEFINE new == [task[t] EXCEPT !.qty = q, !.status = "active",
                                      !.approved = FALSE, !.validation = ""]
    <3>2. Save(t, "legacy_update", new)
      BY <2>1, <3>1 DEF LegacyUpdate
    <3>3. new.step = task[t].step /\ new.assignee = task[t].assignee
      BY <1>1 DEF Row
    <3> QED BY <3>2, <3>3 DEF Noted
  <2>2. ASSUME NEW u \in User, NEW s \in Task,
               NEW key \in {"legacy_complete", "legacy_cancel"}, LegacyClose(u, s, key)
        PROVE  Noted(t)
    <3>1. s = t
      BY <1>3, <2>2 DEF LegacyClose
    <3>2. PICK st : Save(t, key, [task[t] EXCEPT !.status = st])
      BY <2>2, <3>1 DEF LegacyClose
    <3>3. /\ [task[t] EXCEPT !.status = st].step = task[t].step
          /\ [task[t] EXCEPT !.status = st].assignee = task[t].assignee
      BY <1>1 DEF Row
    <3> QED BY <3>2, <3>3 DEF Noted
  <2> QED BY <1>6, <2>1, <2>2 DEF LegacyStep
<1>7. CASE StockStep
  <2>1. ASSUME NEW u \in User, NEW s \in Task, NEW enough \in BOOLEAN,
               StartProduction(u, s, enough)
        PROVE  Requested(t)
    <3>1. "start_production" \notin Releasing
      BY DEF Releasing
    <3> QED BY <1>3, <2>1, <3>1 DEF StartProduction, Requested
  <2>2. ASSUME NEW u \in User, NEW s \in Task, NEW q \in Pieces, FinishPosting(u, s, q)
        PROVE  FinishPosting(u, t, q)
    <3>1. s = t
      BY <1>3, <2>2 DEF FinishPosting
    <3> QED BY <2>2, <3>1
  <2> QED BY <1>7, <2>1, <2>2 DEF StockStep
<1>8. task' # task
  OBVIOUS
<1> QED BY <1>4, <1>5, <1>6, <1>7, <1>8
        DEF Next, IndependentStep, ContextStep, View, UpdateConfirmed, vars, taskVars

(* A closed task is never written again.                                     *)
THEOREM ClosedForever == Spec => ClosedFrozen
<1>1. ASSUME IInv, [Next]_vars, NEW t \in Task, Exists(t), task[t].status \in Closed
      PROVE  task'[t] = task[t]
  <2>1. ASSUME NEW key, NEW new, Save(t, key, new)
        PROVE  FALSE
    BY <1>1, <2>1 DEF Save, Matches
  <2>2. ASSUME NEW u, NEW a, AssignTask(u, t, a)
        PROVE  FALSE
    BY <1>1, <2>2 DEF AssignTask, Closed, Foreground
  <2> QED BY <1>1, <2>1, <2>2, Writers DEF Requested, Noted, FinishPosting
<1>2. IInv /\ [Next]_vars =>
        [\A t \in Task : Exists(t) /\ task[t].status \in Closed => task'[t] = task[t]]_vars
  BY <1>1
<1> QED BY <1>2, Invariance, PTL DEF Spec, ClosedFrozen

(* What a person confirms is what the person was shown.                      *)
THEOREM ConfirmationsAreShown == Spec => ConfirmedAsShown
<1>1. ASSUME IInv, [Next]_vars, NEW t \in Task, Exists(t), Confirming(task[t], task'[t])
      PROVE  card # NoCard /\ card.id = t /\ card.row = task[t]
  <2>1. task \in [Task -> Row \cup {NoRow}] /\ task[t] \in Row
    BY <1>1 DEF IInv, TypeOK, Exists
  <2>2. task'[t] # task[t]
    BY <1>1 DEF Confirming
  <2>3. ASSUME Shown(t)
        PROVE  card # NoCard /\ card.id = t /\ card.row = task[t]
    BY <1>1, <2>3 DEF Shown, IInv, VersionIdentifiesRow
  <2>5. CASE Requested(t)
    BY <2>3, <2>5 DEF Requested, Applicable
  <2>6. ~Noted(t)
    <3>1. ASSUME NEW key, NEW new, Save(t, key, new), new.step = task[t].step,
                 new.assignee = task[t].assignee
          PROVE  FALSE
      <4> DEFINE v == task[t].version + 1
      <4>1. task'[t] = [new EXCEPT !.version = v]
        BY <2>1, <3>1 DEF Save
      <4>2. /\ [new EXCEPT !.version = v].step = new.step
            /\ [new EXCEPT !.version = v].assignee = new.assignee
        OBVIOUS
      <4> QED BY <1>1, <3>1, <4>1, <4>2 DEF Confirming
    <3> QED BY <3>1 DEF Noted
  <2>7. ASSUME NEW u \in User, NEW a \in User, AssignTask(u, t, a)
        PROVE  Shown(t)
    BY <2>7 DEF AssignTask
  <2>8. ASSUME NEW u \in User, NEW q \in Pieces, FinishPosting(u, t, q)
        PROVE  FALSE
    <3> DEFINE v == task[t].version + 1
               new == [task[t] EXCEPT !.produced = q, !.status = "completed",
                                      !.step = "completed"]
    <3>1. task'[t] = [new EXCEPT !.version = v]
      BY <2>1, <2>8 DEF FinishPosting, Save
    <3>2. /\ [new EXCEPT !.version = v].step = "completed"
          /\ [new EXCEPT !.version = v].assignee = task[t].assignee
      BY <2>1 DEF Row
    <3> QED BY <1>1, <3>1, <3>2 DEF Confirming
  <2> QED BY <1>1, <2>2, <2>3, <2>5, <2>6, <2>7, <2>8, Writers
<1>2. IInv /\ [Next]_vars =>
        [\A t \in Task : Exists(t) /\ Confirming(task[t], task'[t]) =>
           card # NoCard /\ card.id = t /\ card.row = task[t]]_vars
  BY <1>1
<1> QED BY <1>2, Invariance, PTL DEF Spec, ConfirmedAsShown

(* Work advances only for an executor who may execute it.                    *)
THEOREM ExecutorsAllowed == Spec => ExecutorAllowed
<1>1. ASSUME IInv, [Next]_vars, NEW t \in Task, Exists(t), task[t].fsm = 1,
             task'[t].step # task[t].step
      PROVE  Can(task[t].assignee, "tasks.execute")
  <2>1. task \in [Task -> Row \cup {NoRow}] /\ task[t] \in Row
    BY <1>1 DEF IInv, TypeOK, Exists
  <2>2. Current(t) = task[t]
    BY <1>1 DEF Current, Adopted
  <2>3. ASSUME NEW key, NEW new, Save(t, key, new), new.step = task[t].step
        PROVE  FALSE
    <3> DEFINE v == task[t].version + 1
    <3>1. task'[t] = [new EXCEPT !.version = v]
      BY <2>1, <2>3 DEF Save
    <3>2. [new EXCEPT !.version = v].step = new.step
      OBVIOUS
    <3> QED BY <1>1, <2>3, <3>1, <3>2
  <2>4. CASE Requested(t)
    BY <2>2, <2>3, <2>4 DEF Requested, Applicable
  <2>5. ~Noted(t)
    BY <2>3 DEF Noted
  <2>6. ASSUME NEW u \in User, NEW a \in User, AssignTask(u, t, a)
        PROVE  FALSE
    <3>1. task'[t] = [task[t] EXCEPT !.assignee = a, !.version = @ + 1]
      BY <2>1, <2>6 DEF AssignTask
    <3>2. [task[t] EXCEPT !.assignee = a, !.version = @ + 1].step = task[t].step
      BY <2>1 DEF Row
    <3> QED BY <1>1, <3>1, <3>2
  <2>7. ASSUME NEW u \in User, NEW q \in Pieces, FinishPosting(u, t, q)
        PROVE  Can(task[t].assignee, "tasks.execute")
    BY <2>7 DEF FinishPosting
  <2> QED BY <1>1, <2>4, <2>5, <2>6, <2>7, Writers
<1>2. IInv /\ [Next]_vars =>
        [\A t \in Task :
           Exists(t) /\ task[t].fsm = 1 /\ task'[t].step # task[t].step =>
             Can(task[t].assignee, "tasks.execute")]_vars
  BY <1>1
<1> QED BY <1>2, Invariance, PTL DEF Spec, ExecutorAllowed

(* A workshop always has one owner.                                          *)
THEOREM OwnerUnique == Spec => []OneOwner
<1>1. Init => OneOwner
  BY DEF Init, MembersInit, OneOwner
<1>2. ASSUME IInv, OneOwner, [Next]_vars
      PROVE  OneOwner'
  <2>1. CASE UNCHANGED role
    BY <1>2, <2>1 DEF OneOwner
  <2>2. CASE MemberStep
    <3>1. role \in [User -> MemberRole \cup {"NONE"}] /\ "OWNER" \notin GivenRole
      BY <1>2, GivenRoleAssumption DEF IInv, TypeOK, MembersTypeOK, Assignable
    <3>2. ASSUME NEW actor \in User, NEW u \in User, NEW r \in GivenRole,
                 ChangeRole(actor, u, r) \/ Activate(actor, u, r)
          PROVE  OneOwner'
      BY <1>2, <3>1, <3>2 DEF ChangeRole, Activate, OneOwner
    <3>3. ASSUME NEW actor \in User, NEW u \in User, Deactivate(actor, u)
          PROVE  OneOwner'
      BY <1>2, <3>1, <3>3 DEF Deactivate, OneOwner
    <3>4. ASSUME NEW from \in User, NEW to \in User, TransferOwnership(from, to)
          PROVE  OneOwner'
      <4>1. role[from] = "OWNER" /\ from # to
        BY <3>1, <3>4 DEF TransferOwnership, Can, Permissions, ReadSet, ExecuteSet,
                          ManageSet, MemberRole, Assignable
      <4> QED BY <1>2, <3>1, <3>4, <4>1 DEF TransferOwnership, OneOwner
    <3> QED BY <2>2, <3>2, <3>3, <3>4 DEF MemberStep
  <2>3. UNCHANGED role \/ MemberStep
    <3>1. ASSUME LifecycleStep
          PROVE  UNCHANGED role
      <4>1. ASSUME NEW u \in User, NEW t \in Task
            PROVE  /\ \A p \in Product : SelectProduct(u, t, p) => UNCHANGED role
                   /\ \A q \in Pieces : SetQuantity(u, t, q) => UNCHANGED role
                   /\ \A q \in Count : RecordResult(u, t, q) => UNCHANGED role
                   /\ \A a \in User : AssignTask(u, t, a) => UNCHANGED role
        BY DEF SelectProduct, SetQuantity, RecordResult, AssignTask, Unposted, memberVars
      <4>2. ASSUME NEW u \in User, NEW t \in Task
            PROVE  /\ EditParameters(u, t) => UNCHANGED role
                   /\ ConfirmTask(u, t) => UNCHANGED role
                   /\ VerifyResult(u, t) => UNCHANGED role
                   /\ CorrectResult(u, t) => UNCHANGED role
        BY DEF EditParameters, ConfirmTask, VerifyResult, CorrectResult, Unposted, memberVars
      <4>3. ASSUME NEW u \in User, NEW t \in Task
            PROVE  /\ Pause(u, t) => UNCHANGED role
                   /\ Resume(u, t) => UNCHANGED role
                   /\ Cancel(u, t) => UNCHANGED role
                   /\ Fail(u, t) => UNCHANGED role
                   /\ AdoptTask(u, t) => UNCHANGED role
        BY DEF Pause, Resume, Cancel, Fail, AdoptTask, Unposted, memberVars
      <4> QED BY <3>1, <4>1, <4>2, <4>3 DEF LifecycleStep
    <3>2. CreationStep => UNCHANGED role
      BY DEF CreationStep, Create, ConfirmAssemblyDraft, CreateWorkingMemory, Insert,
         Unposted, memberVars
    <3>3. LegacyStep \/ StockStep => UNCHANGED role
      BY DEF LegacyStep, LegacyUpdate, LegacyClose, StockStep, StartProduction,
         FinishPosting, Unposted, memberVars
    <3>4. ContextStep => UNCHANGED role
      BY DEF ContextStep, SelectHere, SelectElsewhere, LoseContext
    <3>5. \A u \in User, t \in Task : View(u, t) => UNCHANGED role
      BY DEF View, memberVars
    <3>6. UNCHANGED vars => UNCHANGED role
      BY DEF vars, memberVars
    <3>7. IndependentStep => MemberStep \/ UNCHANGED role
      <4>1. (\E u \in User : UpdateConfirmed(u)) => UNCHANGED role
        BY DEF UpdateConfirmed, memberVars
      <4>2. (\E u \in User, t \in Task : View(u, t)) => UNCHANGED role
        BY <3>5
      <4> QED BY <3>1, <3>2, <3>3, <4>1, <4>2 DEF IndependentStep
    <3> QED BY <1>2, <3>3, <3>4, <3>6, <3>7 DEF Next
  <2> QED BY <2>1, <2>2, <2>3
<1> QED BY <1>1, <1>2, Invariance, PTL DEF Spec

-----------------------------------------------------------------------------
(* Completion. *)

\* A preview is consumed only by the posting of its task.
ConsumedPosted ==
  \A k \in Token : intent[k] # NoIntent /\ intent[k].state = "consumed" =>
                     record[intent[k].task] # NoRecord

CInv ==
  /\ IInv
  /\ PostingTypeOK
  /\ RecordIffCompleted
  /\ OnePreview
  /\ PreviewVersionIdentifiesRow
  /\ ConsumedPosted

-----------------------------------------------------------------------------
(* What a step other than a posting does to the table of tasks. *)

Opened(t) == task[t] = NoRow /\ task'[t] \in Row /\ task'[t].status = "active"

Moved(t) ==
  /\ task[t] \in Row /\ task[t].status \notin Closed
  /\ task'[t] \in Row
  /\ task'[t].version = task[t].version + 1
  /\ task'[t].fsm = 1 => task'[t].status # "completed"

\* One row at most is opened or moved, and none is posted.
OneTask ==
  \/ UNCHANGED task
  \/ \E t \in Task : /\ Opened(t) \/ Moved(t)
                     /\ \A s \in Task \ {t} : task'[s] = task[s]

(* Only the posting and the end of an unshared note complete a task.         *)
LEMMA Targets ==
  \A key \in DOMAIN Definitions \ {"production_posted", "legacy_complete"} :
    "completed" \notin Definitions[key].toStatus
BY DEF Definitions, Def, Stay, Foreground

LEMMA SaveMoves ==
  ASSUME IInv, NEW t \in Task, NEW key \in DOMAIN Definitions \ {"production_posted"},
         NEW new \in Row, Exists(t), Save(t, key, new),
         key = "legacy_complete" => new.fsm = 0
  PROVE  OneTask
<1> DEFINE saved == [new EXCEPT !.version = task[t].version + 1]
<1>1. /\ task \in [Task -> Row \cup {NoRow}] /\ task[t] \in Row
      /\ task' = [task EXCEPT ![t] = saved]
      /\ task[t].status \notin Closed
      /\ task[t].version < MaxVersion /\ task[t].version \in 1 .. MaxVersion
  BY DEF IInv, TypeOK, Exists, Save, Matches, Row
<1>2. /\ saved \in Row /\ saved.version = task[t].version + 1
      /\ saved.status = new.status /\ saved.fsm = new.fsm
  <2>1. task[t].version + 1 \in 1 .. MaxVersion
    BY <1>1, VersionAssumption
  <2> QED
    BY <2>1, VersionField
<1>3. new.fsm = 1 => new.status # "completed"
  <2>1. Reaches(Definitions[key].toStatus, task[t].status, new.status)
    BY DEF Save
  <2>2. CASE key = "legacy_complete"
    BY <2>2
  <2>3. CASE key # "legacy_complete"
    BY <1>1, <2>1, <2>3, Targets DEF Reaches, Closed
  <2> QED
    BY <2>2, <2>3
<1> HIDE DEF saved
<1>4. task'[t] = saved /\ \A s \in Task \ {t} : task'[s] = task[s]
  BY <1>1
<1> QED
  BY <1>1, <1>2, <1>3, <1>4 DEF OneTask, Moved

LEMMA InsertMoves ==
  ASSUME IInv, NEW t \in Task, NEW row \in Row, row.status = "active", Insert(t, row)
  PROVE  OneTask
BY DEF IInv, TypeOK, Insert, Exists, OneTask, Opened

(* The requests of the state machine.                                        *)
LEMMA RequestMoves ==
  ASSUME IInv, NEW u \in User, NEW t \in Task,
         NEW key \in DOMAIN Definitions \ {"production_posted", "legacy_complete"},
         Applicable(u, t, key), NEW new, Save(t, key, new),
         Current(t) \in Row => new \in Row
  PROVE  OneTask
BY CurrentFits, SaveMoves DEF Applicable

LEMMA LifecycleMoves ==
  ASSUME IInv, LifecycleStep
  PROVE  OneTask
<1>1. PICK u \in User, t \in Task :
        \/ \E p \in Product : SelectProduct(u, t, p)
        \/ \E q \in Pieces : SetQuantity(u, t, q)
        \/ EditParameters(u, t)
        \/ ConfirmTask(u, t)
        \/ \E q \in Count : RecordResult(u, t, q)
        \/ VerifyResult(u, t)
        \/ CorrectResult(u, t)
        \/ Pause(u, t)
        \/ Resume(u, t)
        \/ Cancel(u, t)
        \/ Fail(u, t)
        \/ AdoptTask(u, t)
        \/ \E a \in User : AssignTask(u, t, a)
  BY DEF LifecycleStep
<1> DEFINE Key == DOMAIN Definitions \ {"production_posted", "legacy_complete"}
<1>2. {"select_product", "set_quantity", "edit_parameters", "confirm_task", "record_result",
       "verify_result", "correct_result", "pause", "resume", "cancel", "fail", "adopt_task"}
        \subseteq Key
  BY DEF Definitions
<1>3. ASSUME NEW key \in Key, Applicable(u, t, key), NEW new, Save(t, key, new),
             Current(t) \in Row => new \in Row
      PROVE  OneTask
  BY <1>3, RequestMoves
<1> HIDE DEF Key
<1>4. ASSUME NEW p \in Product, SelectProduct(u, t, p)
      PROVE  OneTask
  <2>1. Current(t) \in Row => [Current(t) EXCEPT !.product = p, !.step = "set_quantity"] \in Row
    BY DEF Row, Step, Planning
  <2> QED
    BY <1>2, <1>3, <1>4, <2>1 DEF SelectProduct
<1>5. ASSUME NEW q \in Pieces, SetQuantity(u, t, q)
      PROVE  OneTask
  <2>1. Current(t) \in Row =>
          [Current(t) EXCEPT !.qty = q, !.approved = FALSE, !.step = "confirm_task"] \in Row
    BY DEF Row, Step, Planning, Quantity, Pieces
  <2> QED
    BY <1>2, <1>3, <1>5, <2>1 DEF SetQuantity
<1>6. CASE EditParameters(u, t)
  <2>1. Current(t) \in Row =>
          [Current(t) EXCEPT !.approved = FALSE, !.step = "select_product"] \in Row
    BY DEF Row, Step, Planning
  <2> QED
    BY <1>2, <1>3, <1>6, <2>1 DEF EditParameters
<1>7. CASE ConfirmTask(u, t)
  <2>1. Current(t) \in Row =>
          [Current(t) EXCEPT !.approved = TRUE, !.step = "start_production"] \in Row
    BY DEF Row, Step, Execution
  <2> QED
    BY <1>2, <1>3, <1>7, <2>1 DEF ConfirmTask
<1>8. ASSUME NEW q \in Count, RecordResult(u, t, q)
      PROVE  OneTask
  <2>1. Current(t) \in Row =>
          [Current(t) EXCEPT !.produced = q, !.validation = "", !.step = "verify_result"] \in Row
    BY DEF Row, Step, Validation
  <2> QED
    BY <1>2, <1>3, <1>8, <2>1 DEF RecordResult
<1>9. CASE VerifyResult(u, t)
  <2>1. Current(t) \in Row =>
          [Current(t) EXCEPT !.validation = "passed", !.step = "confirm_completion"] \in Row
    BY DEF Row, Step, Validation
  <2> QED
    BY <1>2, <1>3, <1>9, <2>1 DEF VerifyResult
<1>10. CASE CorrectResult(u, t)
  <2>1. Current(t) \in Row =>
          [Current(t) EXCEPT !.produced = NoResult, !.validation = "failed",
                             !.step = "record_result"] \in Row
    BY DEF Row, Step, Execution
  <2> QED
    BY <1>2, <1>3, <1>10, <2>1 DEF CorrectResult
<1>11. ASSUME NEW s \in Status
       PROVE  Current(t) \in Row => [Current(t) EXCEPT !.status = s] \in Row
  BY DEF Row
<1>12. CASE Pause(u, t) \/ Resume(u, t)
  <2>1. "paused" \in Status /\ "active" \in Status
    BY DEF Status, Foreground
  <2> QED
    BY <1>2, <1>3, <1>11, <1>12, <2>1 DEF Pause, Resume
<1>13. CASE Cancel(u, t) \/ Fail(u, t)
  <2>1. "cancelled" \in Status /\ "failed" \in Status
    BY DEF Status, Closed
  <2> QED
    BY <1>2, <1>3, <1>11, <1>13, <2>1 DEF Cancel, Fail
<1>14. CASE AdoptTask(u, t)
  BY <1>2, <1>3, <1>14 DEF AdoptTask
<1>15. ASSUME NEW a \in User, AssignTask(u, t, a)
       PROVE  OneTask
  <2> DEFINE new == [task[t] EXCEPT !.assignee = a, !.version = task[t].version + 1]
  <2>1. /\ task \in [Task -> Row \cup {NoRow}] /\ task[t] \in Row
        /\ task[t].status \in Foreground \cup {"paused"}
        /\ task[t].version \in 1 .. MaxVersion /\ task[t].version < MaxVersion
        /\ task' = [task EXCEPT ![t] = new]
    BY <1>15 DEF AssignTask, IInv, TypeOK, Exists, Row
  <2>2. task[t].version + 1 \in 1 .. MaxVersion
    BY <2>1, VersionAssumption
  <2>3. new \in Row /\ new.version = task[t].version + 1 /\ new.status = task[t].status
    BY <2>1, <2>2 DEF Row
  <2>4. task[t].status \notin Closed /\ new.status # "completed"
    BY <2>1, <2>3 DEF Foreground, Closed
  <2> HIDE DEF new
  <2> QED
    BY <2>1, <2>3, <2>4 DEF OneTask, Moved
<1> QED
  BY <1>1, <1>4, <1>5, <1>6, <1>7, <1>8, <1>9, <1>10, <1>12, <1>13, <1>14, <1>15

LEMMA StartMoves ==
  ASSUME IInv, NEW u \in User, NEW t \in Task, NEW enough, StartProduction(u, t, enough)
  PROVE  OneTask
<1>1. "start_production" \in DOMAIN Definitions \ {"production_posted", "legacy_complete"}
  BY DEF Definitions
<1>2. Current(t) \in Row => [Current(t) EXCEPT !.step = "record_result"] \in Row
  BY DEF Row, Step, Execution
<1> QED
  BY <1>1, <1>2, RequestMoves DEF StartProduction

LEMMA CreationMoves ==
  ASSUME IInv, CreationStep
  PROVE  OneTask
<1>1. ASSUME NEW t \in Task, NEW type \in TaskType, NEW u \in User, NEW a \in User,
             NEW p \in Product \cup {NoProduct}, NEW q \in Quantity, NEW st \in Step,
             NEW f \in {0, 1}, Insert(t, NewRow(type, u, a, p, q, st, f))
      PROVE  OneTask
  <2>1. NewRow(type, u, a, p, q, st, f) \in Row
    BY NewRowFits
  <2>2. NewRow(type, u, a, p, q, st, f).status = "active"
    BY DEF NewRow
  <2> QED
    BY <1>1, <2>1, <2>2, InsertMoves
<1>2. {"select_product", "set_quantity", "confirm_task", "legacy"} \subseteq Step
  BY DEF Step, Planning
<1>3. Pieces \subseteq Quantity /\ {"production", "assembly"} \subseteq TaskType
  BY DEF Pieces, Quantity, TaskType, SharedType
<1>4. PICK u \in User, t \in Task :
        \/ \E p \in Product \cup {NoProduct}, q \in Quantity : Create(u, t, p, q)
        \/ \E a \in User, p \in Product, q \in Pieces : ConfirmAssemblyDraft(u, t, a, p, q)
        \/ \E kind \in TaskType, p \in Product, q \in Quantity :
             CreateWorkingMemory(u, t, kind, p, q)
  BY DEF CreationStep
<1>5. ASSUME NEW p \in Product \cup {NoProduct}, NEW q \in Quantity, Create(u, t, p, q)
      PROVE  OneTask
  <2>1. (IF p = NoProduct THEN "select_product" ELSE "set_quantity") \in Step
    BY <1>2
  <2> QED
    BY <1>1, <1>3, <1>5, <2>1 DEF Create
<1>6. ASSUME NEW a \in User, NEW p \in Product, NEW q \in Pieces,
             ConfirmAssemblyDraft(u, t, a, p, q)
      PROVE  OneTask
  BY <1>1, <1>2, <1>3, <1>6 DEF ConfirmAssemblyDraft
<1>7. ASSUME NEW kind \in TaskType, NEW p \in Product, NEW q \in Quantity,
             CreateWorkingMemory(u, t, kind, p, q)
      PROVE  OneTask
  BY <1>1, <1>2, <1>7 DEF CreateWorkingMemory
<1> QED
  BY <1>4, <1>5, <1>6, <1>7

LEMMA LegacyMoves ==
  ASSUME IInv, LegacyStep
  PROVE  OneTask
<1>1. PICK u \in User, t \in Task :
        \/ \E q \in Quantity : LegacyUpdate(u, t, q)
        \/ \E key \in {"legacy_complete", "legacy_cancel"} : LegacyClose(u, t, key)
  BY DEF LegacyStep
<1>2. Exists(t) /\ task[t] \in Row
  BY <1>1 DEF LegacyUpdate, LegacyClose, Exists, IInv, TypeOK
<1>3. {"legacy_update", "legacy_complete", "legacy_cancel"}
        \subseteq DOMAIN Definitions \ {"production_posted"}
  BY DEF Definitions
<1>4. ASSUME NEW q \in Quantity, LegacyUpdate(u, t, q)
      PROVE  OneTask
  <2>1. [task[t] EXCEPT !.qty = q, !.status = "active", !.approved = FALSE,
                        !.validation = ""] \in Row
    BY <1>2 DEF Row, Status, Foreground
  <2> QED
    BY <1>2, <1>3, <1>4, <2>1, SaveMoves DEF LegacyUpdate
<1>5. ASSUME NEW key \in {"legacy_complete", "legacy_cancel"}, LegacyClose(u, t, key)
      PROVE  OneTask
  <2> DEFINE new == [task[t] EXCEPT !.status = IF key = "legacy_cancel" THEN "cancelled"
                                               ELSE "completed"]
  <2>1. new \in Row /\ new.fsm = task[t].fsm
    BY <1>2 DEF Row, Status, Closed
  <2>2. Save(t, key, new) /\ task[t].fsm = 0
    BY <1>5 DEF LegacyClose
  <2> HIDE DEF new
  <2> QED
    BY <1>2, <1>3, <2>1, <2>2, SaveMoves
<1> QED
  BY <1>1, <1>4, <1>5

LEMMA IndependentMoves ==
  ASSUME IInv, IndependentStep
  PROVE  OneTask
<1>1. CASE LifecycleStep \/ CreationStep \/ LegacyStep
  BY <1>1, LifecycleMoves, CreationMoves, LegacyMoves
<1>2. CASE \/ \E u \in User, t \in Task : View(u, t)
           \/ \E u \in User : UpdateConfirmed(u)
           \/ MemberStep /\ UNCHANGED taskVars
  BY <1>2 DEF View, UpdateConfirmed, taskVars, OneTask
<1> QED
  BY <1>1, <1>2 DEF IndependentStep

-----------------------------------------------------------------------------
(* Steps that post nothing. *)

\* The tables besides the tasks, the records and the previews have their types.
OthersFit ==
  /\ session \in [User -> [Chat -> 0 .. MaxSession]]
  /\ lastSession \in 0 .. MaxSession
  /\ stock \in [Material -> Nat]
  /\ recipe \in [Product -> Recipe]
  /\ goods \in [Product -> Nat]
  /\ corrected \in [Material -> Int]

(* Tasks move, the rest stays.                                               *)
LEMMA TasksKeep ==
  ASSUME CInv, IInv', OneTask, UNCHANGED <<intent, record>>, OthersFit'
  PROVE  CInv'
<1> USE DEF CInv
<1>1. PostingTypeOK' /\ OnePreview' /\ ConsumedPosted'
  BY DEF PostingTypeOK, OthersFit, OnePreview, ConsumedPosted, IInv
<1>2. RecordIffCompleted'
  <2>1. ASSUME NEW t \in Task
        PROVE  \/ task'[t] = task[t]
               \/ /\ record[t] = NoRecord
                  /\ ~(task'[t].fsm = 1 /\ task'[t].status = "completed")
    <3>1. CASE Opened(t)
      BY <3>1 DEF Opened, RecordIffCompleted, Exists
    <3>2. CASE Moved(t)
      BY <3>2 DEF Moved, RecordIffCompleted, Closed
    <3>3. CASE task'[t] = task[t]
      BY <3>3
    <3> QED
      BY <3>1, <3>2, <3>3 DEF OneTask
  <2> QED
    BY <2>1 DEF RecordIffCompleted, Exists
<1>3. PreviewVersionIdentifiesRow'
  <2>1. ASSUME NEW k \in Token, intent[k] # NoIntent
        PROVE  LET i == intent[k] IN
               /\ task'[i.task] # NoRow
               /\ i.row.version <= task'[i.task].version
               /\ i.row.version = task'[i.task].version => i.row = task'[i.task]
    <3> DEFINE i == intent[k]
    <3>1. /\ i.task \in Task /\ i.row \in Row
          /\ task[i.task] # NoRow /\ i.row.version <= task[i.task].version
          /\ i.row.version = task[i.task].version => i.row = task[i.task]
      BY <2>1 DEF PostingTypeOK, Intent, PreviewVersionIdentifiesRow, Exists
    <3>2. CASE task'[i.task] = task[i.task]
      BY <3>1, <3>2
    <3>3. CASE Moved(i.task)
      <4>1. task'[i.task] # NoRow
        BY <3>3, RowAssumption DEF Moved
      <4>2. i.row.version \in Nat /\ task[i.task].version \in Nat
        <5>1. i.row.version \in 1 .. MaxVersion /\ task[i.task].version \in 1 .. MaxVersion
          BY <3>1, <3>3 DEF Row, Moved
        <5> QED
          BY <5>1, VersionAssumption
      <4>3. task'[i.task].version = task[i.task].version + 1
        BY <3>3 DEF Moved
      <4>4. i.row.version <= task'[i.task].version /\ i.row.version # task'[i.task].version
        <5> HIDE DEF i
        <5> QED
          BY <3>1, <4>2, <4>3
      <4> QED
        BY <4>1, <4>4
    <3>4. task'[i.task] = task[i.task] \/ Moved(i.task)
      BY <3>1 DEF OneTask, Opened
    <3> QED
      BY <3>2, <3>3, <3>4
  <2> QED
    BY <2>1 DEF PreviewVersionIdentifiesRow, Exists
<1> QED
  BY <1>1, <1>2, <1>3

\* Previews stay or expire.
Lapses ==
  \A k \in Token : \/ intent'[k] = intent[k]
                   \/ intent[k] # NoIntent /\ intent'[k] = [intent[k] EXCEPT !.state = "expired"]

(* An expired preview is the same but for its state.                         *)
LEMMA Expired ==
  ASSUME NEW i \in Intent
  PROVE  LET e == [i EXCEPT !.state = "expired"] IN
         /\ e \in Intent /\ e.user = i.user /\ e.chat = i.chat /\ e.session = i.session
         /\ e.task = i.task /\ e.row = i.row /\ e.qty = i.qty /\ e.need = i.need
         /\ e.state = "expired"
BY DEF Intent

LEMMA LapsesKeep ==
  ASSUME CInv, IInv', UNCHANGED <<task, record>>, OthersFit',
         intent' = [k \in Token |-> intent'[k]], Lapses
  PROVE  CInv'
<1> USE DEF CInv
<1>1. ASSUME NEW k \in Token, intent'[k] # NoIntent
      PROVE  /\ intent[k] # NoIntent /\ intent[k] \in Intent /\ intent'[k] \in Intent
             /\ intent'[k].user = intent[k].user /\ intent'[k].chat = intent[k].chat
             /\ intent'[k].task = intent[k].task /\ intent'[k].row = intent[k].row
             /\ intent'[k].state \in {"live", "consumed"} =>
                  intent'[k].state = intent[k].state
  <2>1. intent[k] \in Intent \cup {NoIntent}
    BY DEF PostingTypeOK
  <2>2. CASE intent'[k] = intent[k]
    BY <1>1, <2>1, <2>2
  <2>3. CASE intent[k] # NoIntent /\ intent'[k] = [intent[k] EXCEPT !.state = "expired"]
    BY <2>1, <2>3, Expired
  <2> QED
    BY <2>2, <2>3 DEF Lapses
<1>2. intent' \in [Token -> Intent \cup {NoIntent}]
  BY <1>1
<1>3. PostingTypeOK'
  BY <1>2 DEF PostingTypeOK, OthersFit, IInv
<1>4. RecordIffCompleted'
  BY DEF RecordIffCompleted, Exists
<1>5. OnePreview'
  BY <1>1 DEF OnePreview
<1>6. PreviewVersionIdentifiesRow'
  BY <1>1 DEF PreviewVersionIdentifiesRow, Exists
<1>7. ConsumedPosted'
  BY <1>1 DEF ConsumedPosted
<1> QED
  BY <1>3, <1>4, <1>5, <1>6, <1>7

LEMMA OthersKept ==
  ASSUME CInv, UNCHANGED <<session, lastSession, stock, recipe, goods, corrected>>
  PROVE  OthersFit'
BY DEF CInv, PostingTypeOK, OthersFit

(* The sessions, and the previews that end with them.                        *)
LEMMA SessionsKeep ==
  ASSUME CInv, IInv', NEW u \in User,
         \/ Reselect(u)
         \/ \E c \in Chat : EnsureSession(u, c) \/ EndSession(u, c) \/ CancelCompletion(u, c)
  PROVE  CInv'
<1>1. session \in [User -> [Chat -> 0 .. MaxSession]] /\ lastSession \in 0 .. MaxSession
      /\ MaxSession \in Nat
  BY BoundAssumption DEF CInv, PostingTypeOK
<1>2. CASE Reselect(u)
  <2>1. session' \in [User -> [Chat -> 0 .. MaxSession]]
    BY <1>1, <1>2 DEF Reselect
  <2>2. OthersFit'
    BY <1>1, <1>2, <2>1 DEF Reselect, CInv, PostingTypeOK, OthersFit
  <2>3. Lapses /\ intent' = [k \in Token |-> intent'[k]]
    BY <1>2 DEF Reselect, Lapse, Unused, Lapses
  <2> QED
    BY <1>2, <2>2, <2>3, LapsesKeep DEF Reselect, taskVars
<1>3. ASSUME NEW c \in Chat, CancelCompletion(u, c)
      PROVE  CInv'
  <2>1. OthersFit'
    BY <1>3, OthersKept DEF CancelCompletion
  <2>2. Lapses /\ intent' = [k \in Token |-> intent'[k]]
    BY <1>3 DEF CancelCompletion, Lapse, Unused, Lapses
  <2> QED
    BY <1>3, <2>1, <2>2, LapsesKeep DEF CancelCompletion, vars, taskVars
<1>4. ASSUME NEW c \in Chat, EnsureSession(u, c) \/ EndSession(u, c)
      PROVE  CInv'
  <2>1. lastSession' \in 0 .. MaxSession
    BY <1>1, <1>4 DEF EnsureSession, EndSession
  <2>2. session' \in [User -> [Chat -> 0 .. MaxSession]]
    BY <1>1, <1>4, <2>1 DEF EnsureSession, EndSession
  <2>3. OthersFit'
    BY <1>4, <2>1, <2>2 DEF EnsureSession, EndSession, CInv, PostingTypeOK, OthersFit
  <2>4. UNCHANGED <<task, record, intent>>
    BY <1>4 DEF EnsureSession, EndSession, vars, taskVars
  <2> QED
    BY <2>3, <2>4, TasksKeep DEF OneTask
<1> QED
  BY <1>2, <1>3, <1>4

LEMMA ExpiryKeeps ==
  ASSUME CInv, IInv', NEW k \in Token, IntentExpires(k)
  PROVE  CInv'
<1>1. OthersFit'
  BY OthersKept DEF IntentExpires
<1>2. Lapses /\ intent' = [j \in Token |-> intent'[j]]
  BY DEF IntentExpires, Lapses, CInv, PostingTypeOK
<1> QED
  BY <1>1, <1>2, LapsesKeep DEF IntentExpires, vars, taskVars

(* Corrections of the stock and changes of a composition.                    *)
LEMMA StockKeeps ==
  ASSUME CInv, IInv',
         \/ \E u \in User, m \in Material, n \in 0 .. MaxStock : ChangeStock(u, m, n)
         \/ \E u \in User, p \in Product, b \in Recipe : ApplyBOMChange(u, p, b)
  PROVE  CInv'
<1>1. UNCHANGED <<task, record, intent>>
  BY DEF ChangeStock, ApplyBOMChange, vars, taskVars
<1>2. OthersFit'
  <2>1. ASSUME NEW u \in User, NEW m \in Material, NEW n \in 0 .. MaxStock, ChangeStock(u, m, n)
        PROVE  OthersFit'
    <3>1. stock \in [Material -> Nat] /\ corrected \in [Material -> Int] /\ n \in Nat
      BY BoundAssumption DEF CInv, PostingTypeOK
    <3>2. stock' \in [Material -> Nat] /\ corrected' \in [Material -> Int]
      BY <2>1, <3>1 DEF ChangeStock
    <3> QED
      BY <2>1, <3>2 DEF ChangeStock, CInv, PostingTypeOK, OthersFit
  <2>2. ASSUME NEW u \in User, NEW p \in Product, NEW b \in Recipe, ApplyBOMChange(u, p, b)
        PROVE  OthersFit'
    BY <2>2 DEF ApplyBOMChange, CInv, PostingTypeOK, OthersFit
  <2> QED
    BY <2>1, <2>2
<1> QED
  BY <1>1, <1>2, TasksKeep DEF OneTask

-----------------------------------------------------------------------------
(* A new preview retires the others of its chat. *)

LEMMA NeedFits ==
  ASSUME CInv, NEW p \in Product, NEW q \in Pieces
  PROVE  Need(p, q) \in Composition
<1>1. recipe[p] \in [Material -> Nat] /\ q \in Nat
  BY RecipeAssumption, CountAssumption DEF CInv, PostingTypeOK, Composition, Pieces
<1>2. \A m \in Material : recipe[p][m] * q \in Nat
  BY <1>1
<1> QED
  BY <1>2 DEF Need, Composition

(* A task that may be posted has a product.                                  *)
LEMMA PostableFits ==
  ASSUME CInv, NEW t \in Task, Exists(t), CanPost(task[t])
  PROVE  task[t] \in Row /\ task[t].product \in Product /\ task[t].status = "active"
<1>1. task[t] \in Row /\ RowFacts(task[t])
  BY DEF CInv, IInv, TypeOK, StageFacts, Exists
<1>2. task[t].step \notin Planning
  BY DEF CanPost, Planning
<1> QED
  BY <1>1, <1>2 DEF RowFacts, CanPost, Row

LEMMA PrepareKeeps ==
  ASSUME CInv, IInv', NEW u \in User, NEW c \in Chat, NEW t \in Task, NEW q \in Pieces,
         NEW k \in Token, PrepareCompletion(u, c, t, q, k)
  PROVE  CInv'
<1> DEFINE fresh == [user |-> u, chat |-> c, session |-> session[u][c], task |-> t,
                     row |-> task[t], qty |-> q, need |-> Need(task[t].product, q),
                     state |-> "live"]
<1>1. /\ intent[k] = NoIntent /\ Exists(t) /\ CanPost(task[t]) /\ session[u][c] # 0
      /\ intent' = [j \in Token |->
                      IF j = k THEN fresh
                      ELSE IF j \in Unused(u, {c})
                           THEN [intent[j] EXCEPT !.state = "expired"] ELSE intent[j]]
      /\ UNCHANGED <<vars, session, lastSession, stock, recipe, record, goods, corrected>>
  BY DEF PrepareCompletion, CompletionTask
<1>2. task[t] \in Row /\ Need(task[t].product, q) \in Composition
  BY <1>1, PostableFits, NeedFits
<1>3. session[u][c] \in 1 .. MaxSession
  <2>1. session[u][c] \in 0 .. MaxSession
    BY DEF CInv, PostingTypeOK
  <2> QED
    BY <1>1, <2>1, BoundAssumption
<1>4. fresh \in Intent
  BY <1>2, <1>3 DEF Intent
<1>5. /\ fresh.user = u /\ fresh.chat = c /\ fresh.task = t /\ fresh.row = task[t]
      /\ fresh.state = "live"
  OBVIOUS
<1>6. intent'[k] = fresh
  BY <1>1
<1> HIDE DEF fresh
<1>7. ASSUME NEW j \in Token \ {k}, intent'[j] # NoIntent
      PROVE  /\ intent[j] # NoIntent /\ intent[j] \in Intent /\ intent'[j] \in Intent
             /\ intent'[j].user = intent[j].user /\ intent'[j].chat = intent[j].chat
             /\ intent'[j].task = intent[j].task /\ intent'[j].row = intent[j].row
             /\ intent'[j].state \in {"live", "consumed"} => intent'[j].state = intent[j].state
             /\ intent'[j].state = "live" => ~(intent[j].user = u /\ intent[j].chat = c)
  <2>1. intent[j] \in Intent \cup {NoIntent}
    BY DEF CInv, PostingTypeOK
  <2>2. CASE j \in Unused(u, {c})
    <3>1. intent[j] # NoIntent /\ intent'[j] = [intent[j] EXCEPT !.state = "expired"]
      BY <1>1, <2>2 DEF Unused
    <3> QED
      BY <2>1, <3>1, Expired
  <2>3. CASE j \notin Unused(u, {c})
    <3>1. intent'[j] = intent[j]
      BY <1>1, <2>3
    <3>2. ~(intent[j].user = u /\ intent[j].chat = c /\ intent[j].state # "consumed")
      BY <1>7, <2>3, <3>1 DEF Unused
    <3> QED
      BY <1>7, <2>1, <3>1, <3>2
  <2> QED
    BY <2>2, <2>3
<1>8. UNCHANGED <<task, record>> /\ OthersFit'
  BY <1>1, OthersKept DEF vars, taskVars
<1>9. PostingTypeOK'
  <2>1. intent' \in [Token -> Intent \cup {NoIntent}]
    BY <1>1, <1>4, <1>6, <1>7
  <2> QED
    BY <1>8, <2>1 DEF CInv, PostingTypeOK, OthersFit, IInv
<1>10. RecordIffCompleted'
  BY <1>8 DEF CInv, RecordIffCompleted, Exists
<1>11. OnePreview'
  BY <1>5, <1>6, <1>7 DEF CInv, OnePreview
<1>12. PreviewVersionIdentifiesRow'
  <2>1. task[t].version <= task[t].version
    <3>1. task[t].version \in 1 .. MaxVersion
      BY <1>2 DEF Row
    <3> QED
      BY <3>1, VersionAssumption
  <2>2. SUFFICES ASSUME NEW j \in Token, intent'[j] # NoIntent
                 PROVE  /\ task'[intent'[j].task] # NoRow
                        /\ intent'[j].row.version <= task'[intent'[j].task].version
                        /\ intent'[j].row.version = task'[intent'[j].task].version
                             => intent'[j].row = task'[intent'[j].task]
    BY DEF PreviewVersionIdentifiesRow, Exists
  <2>3. CASE j = k
    <3>1. intent'[j].task = t /\ intent'[j].row = task[t] /\ task[t] # NoRow
      BY <1>1, <1>5, <1>6, <2>3 DEF Exists
    <3> QED
      BY <1>8, <2>1, <3>1
  <2>4. CASE j # k
    BY <1>5, <1>6, <1>7, <1>8, <2>2, <2>4 DEF CInv, PreviewVersionIdentifiesRow, Exists
  <2> QED
    BY <2>3, <2>4
<1>13. ConsumedPosted'
  BY <1>5, <1>6, <1>7, <1>8 DEF CInv, ConsumedPosted
<1> QED
  BY <1>9, <1>10, <1>11, <1>12, <1>13 DEF CInv

-----------------------------------------------------------------------------
(* The posting. *)

\* What PostCompletion does, in one place: the preview k was live and of this very
\* row, and the record, the stock and the task move by what it says.
Posts(k) ==
  LET i == intent[k]  t == i.task IN
  /\ i \in Intent /\ i.state = "live" /\ i.session = session[i.user][i.chat]
  /\ i.row = task[t]
  /\ intent' = [intent EXCEPT ![k].state = "consumed"]
  /\ task[t] \in Row /\ task[t].product \in Product /\ task[t].status = "active"
  /\ task'[t] \in Row
  /\ task'[t].fsm = 1 /\ task'[t].status = "completed"
  /\ task'[t].produced = i.qty /\ task'[t].product = task[t].product
  /\ task'[t].version = task[t].version + 1
  /\ \A s \in Task \ {t} : task'[s] = task[s]
  /\ record[t] = NoRecord
  /\ record'[t] \in Record
  /\ record'[t].product = task[t].product
  /\ record'[t].qty = i.qty /\ record'[t].need = i.need
  /\ record' = [s \in Task |-> IF s = t THEN record'[t] ELSE record[s]]
  /\ \A m \in Material : i.need[m] <= stock[m]
  /\ stock' = [m \in Material |-> stock[m] - i.need[m]]
  /\ goods' = [goods EXCEPT ![task[t].product] = @ + i.qty]
  /\ UNCHANGED <<session, lastSession, recipe, corrected>>

LEMMA PostingPosts ==
  ASSUME CInv, NEW u \in User, NEW c \in Chat, NEW k \in Token, PostCompletion(u, c, k)
  PROVE  Posts(k)
<1> DEFINE i == intent[k]
           t == i.task
           r == task[t]
           new == [r EXCEPT !.produced = i.qty, !.status = "completed", !.step = "completed"]
           saved == [new EXCEPT !.version = r.version + 1]
           made == [product |-> r.product, qty |-> i.qty, need |-> i.need,
                    creator |-> r.owner, assignee |-> r.assignee]
<1>1. i \in Intent /\ t \in Task /\ i.qty \in Pieces /\ i.need \in [Material -> Nat]
  BY DEF PostCompletion, Valid, CInv, PostingTypeOK, Intent, Composition
<1>2. /\ i # NoIntent /\ i.user = u /\ i.chat = c /\ i.state # "expired"
      /\ i.session = session[u][c] /\ r.version = i.row.version
  BY DEF PostCompletion, Valid
<1>3. /\ ~Short(i.need) /\ record[t] = NoRecord
      /\ record' = [record EXCEPT ![t] = made]
      /\ stock' = [m \in Material |-> stock[m] - i.need[m]]
      /\ goods' = [goods EXCEPT ![r.product] = @ + i.qty]
  BY DEF PostCompletion, PostProduction
<1>4. /\ Exists(t) /\ CanPost(r) /\ Save(t, "production_posted", new)
  BY DEF PostCompletion, FinishPosting, CompletionTask
<1>5. /\ intent' = [intent EXCEPT ![k].state = "consumed"]
      /\ UNCHANGED <<session, lastSession, recipe, corrected>>
  BY DEF PostCompletion
<1>6. r \in Row /\ r.product \in Product /\ r.status = "active"
  BY <1>1, <1>4, PostableFits
<1>7. i.state = "live" /\ i.row = r
  <2>1. i.state # "consumed"
    BY <1>2, <1>3 DEF CInv, ConsumedPosted
  <2>2. i.row = r
    BY <1>2 DEF CInv, PreviewVersionIdentifiesRow
  <2> QED
    BY <1>1, <1>2, <2>1, <2>2 DEF Intent
<1>8. /\ task' = [task EXCEPT ![t] = saved] /\ task \in [Task -> Row \cup {NoRow}]
      /\ r.version \in 1 .. MaxVersion /\ r.version < MaxVersion
  BY <1>4, <1>6 DEF Save, CInv, IInv, TypeOK, Row
<1>9. /\ new \in Row /\ new.fsm = 1 /\ new.status = "completed" /\ new.produced = i.qty
      /\ new.product = r.product
  BY <1>1, <1>4, <1>6 DEF Row, Status, Closed, Step, Done, Pieces, CanPost
<1>10. /\ saved \in Row /\ saved.fsm = 1 /\ saved.status = "completed"
       /\ saved.produced = i.qty /\ saved.product = r.product
       /\ saved.version = r.version + 1
  <2>1. r.version + 1 \in 1 .. MaxVersion
    BY <1>8, VersionAssumption
  <2> HIDE DEF new
  <2> QED
    BY <1>9, <2>1, VersionField
<1>11. made \in Record
  BY <1>1, <1>6 DEF Record, Row, Composition
<1>12. made.product = r.product /\ made.qty = i.qty /\ made.need = i.need
  OBVIOUS
<1>13. \A m \in Material : i.need[m] <= stock[m]
  BY <1>1, <1>3 DEF Short, CInv, PostingTypeOK
<1>14. record \in [Task -> Record \cup {NoRecord}]
  BY DEF CInv, PostingTypeOK
<1> HIDE DEF saved, new, made
<1>15. task'[t] = saved /\ \A s \in Task \ {t} : task'[s] = task[s]
  BY <1>1, <1>8
<1>16. record'[t] = made /\ record' = [s \in Task |-> IF s = t THEN record'[t] ELSE record[s]]
  BY <1>1, <1>3, <1>14
<1> QED
  BY <1>1, <1>2, <1>3, <1>5, <1>6, <1>7, <1>10, <1>11, <1>12, <1>13, <1>15, <1>16 DEF Posts

LEMMA PostKeeps ==
  ASSUME CInv, IInv', NEW k \in Token, Posts(k)
  PROVE  CInv'
<1> DEFINE i == intent[k]
           t == i.task
<1>1. i \in Intent /\ i # NoIntent /\ t \in Task /\ i.qty \in Nat /\ i.need \in [Material -> Nat]
  BY IntentAssumption, CountAssumption DEF Posts, Intent, Composition, Pieces
<1>2. record'[t] # NoRecord
  BY RecordAssumption DEF Posts
<1>3. ASSUME NEW j \in Token, intent'[j] # NoIntent
      PROVE  /\ intent[j] # NoIntent /\ intent[j] \in Intent /\ intent'[j] \in Intent
             /\ intent'[j].user = intent[j].user /\ intent'[j].chat = intent[j].chat
             /\ intent'[j].task = intent[j].task /\ intent'[j].row = intent[j].row
             /\ intent'[j].state = "live" => intent[j].state = "live"
             /\ intent'[j].state = "consumed" => j = k \/ intent[j].state = "consumed"
  <2>1. intent \in [Token -> Intent \cup {NoIntent}]
    BY DEF CInv, PostingTypeOK
  <2>2. CASE j = k
    <3>1. intent'[k] = [i EXCEPT !.state = "consumed"]
      BY <2>1 DEF Posts
    <3> QED
      BY <1>1, <2>2, <3>1 DEF Intent
  <2>3. CASE j # k
    BY <1>3, <2>1, <2>3 DEF Posts
  <2> QED
    BY <2>2, <2>3
<1>4. PostingTypeOK'
  <2>1. intent' \in [Token -> Intent \cup {NoIntent}]
    BY <1>3 DEF Posts, CInv, PostingTypeOK
  <2>2. stock' \in [Material -> Nat]
    BY <1>1 DEF Posts, CInv, PostingTypeOK
  <2>3. goods' \in [Product -> Nat]
    BY <1>1 DEF Posts, CInv, PostingTypeOK
  <2>4. record' \in [Task -> Record \cup {NoRecord}]
    BY DEF Posts, CInv, PostingTypeOK
  <2>5. /\ session' \in [User -> [Chat -> 0 .. MaxSession]] /\ lastSession' \in 0 .. MaxSession
        /\ recipe' \in [Product -> Recipe] /\ corrected' \in [Material -> Int]
    BY DEF Posts, CInv, PostingTypeOK
  <2> QED
    BY <2>1, <2>2, <2>3, <2>4, <2>5 DEF PostingTypeOK, IInv
<1>5. RecordIffCompleted'
  <2>1. ASSUME NEW s \in Task \ {t}
        PROVE  task'[s] = task[s] /\ record'[s] = record[s]
    BY DEF Posts
  <2>2. task'[t] # NoRow
    BY RowAssumption DEF Posts
  <2> QED
    BY <1>2, <2>1, <2>2 DEF Posts, CInv, RecordIffCompleted, Exists
<1>6. OnePreview'
  BY <1>3 DEF CInv, OnePreview
<1>7. PreviewVersionIdentifiesRow'
  <2>1. ASSUME NEW j \in Token, intent'[j] # NoIntent
        PROVE  LET o == intent'[j] IN
               /\ task'[o.task] # NoRow
               /\ o.row.version <= task'[o.task].version
               /\ o.row.version = task'[o.task].version => o.row = task'[o.task]
    <3> DEFINE o == intent[j]
    <3>1. /\ o.task \in Task /\ o.row \in Row
          /\ task[o.task] # NoRow /\ o.row.version <= task[o.task].version
          /\ o.row.version = task[o.task].version => o.row = task[o.task]
      BY <1>3, <2>1 DEF CInv, Intent, PreviewVersionIdentifiesRow, Exists
    <3>2. CASE o.task = t
      <4>1. task'[t] # NoRow /\ task'[t].version = task[t].version + 1
        BY RowAssumption DEF Posts
      <4>2. o.row.version \in Nat /\ task[t].version \in Nat
        <5>1. o.row.version \in 1 .. MaxVersion /\ task[t].version \in 1 .. MaxVersion
          BY <3>1 DEF Row, Posts
        <5> QED
          BY <5>1, VersionAssumption
      <4>3. ~(o.row.version = task'[t].version) /\ o.row.version <= task'[t].version
        BY <3>1, <3>2, <4>1, <4>2
      <4> QED
        BY <1>3, <2>1, <3>2, <4>1, <4>3
    <3>3. CASE o.task # t
      <4>1. task'[o.task] = task[o.task]
        BY <3>1, <3>3 DEF Posts
      <4> QED
        BY <1>3, <2>1, <3>1, <4>1
    <3> QED
      BY <3>2, <3>3
  <2> QED
    BY <2>1 DEF PreviewVersionIdentifiesRow, Exists
<1>8. ConsumedPosted'
  <2>1. ASSUME NEW j \in Token, intent'[j] # NoIntent, intent'[j].state = "consumed"
        PROVE  record'[intent'[j].task] # NoRecord
    <3>1. intent'[j].task = intent[j].task /\ intent[j].task \in Task
      BY <1>3, <2>1 DEF Intent
    <3>2. CASE intent[j].task = t
      BY <1>2, <3>1, <3>2
    <3>3. CASE intent[j].task # t
      <4>1. j # k
        BY <3>3
      <4>2. record[intent[j].task] # NoRecord
        BY <1>3, <2>1, <4>1 DEF CInv, ConsumedPosted
      <4>3. record'[intent[j].task] = record[intent[j].task]
        BY <3>1, <3>3 DEF Posts
      <4> QED
        BY <3>1, <4>2, <4>3
    <3> QED
      BY <3>2, <3>3
  <2> QED
    BY <2>1 DEF ConsumedPosted
<1> QED
  BY <1>4, <1>5, <1>6, <1>7, <1>8 DEF CInv

-----------------------------------------------------------------------------
(* Every step. *)

LEMMA CompletionStart ==
  ASSUME CompletionInit
  PROVE  CInv
<1>1. IInv
  BY InitInv DEF CompletionInit
<1>2. PostingTypeOK
  <2>1. 0 .. MaxStock \subseteq Nat /\ 0 \in 0 .. MaxSession
    BY BoundAssumption
  <2> QED
    BY <1>1, <2>1 DEF CompletionInit, PostingTypeOK, IInv
<1>3. RecordIffCompleted
  BY DEF CompletionInit, RecordIffCompleted, Closed
<1>4. OnePreview /\ PreviewVersionIdentifiesRow /\ ConsumedPosted
  BY DEF CompletionInit, OnePreview, PreviewVersionIdentifiesRow, ConsumedPosted
<1> QED
  BY <1>1, <1>2, <1>3, <1>4 DEF CInv

(* A step of Completion is a step of the state machine, or leaves its tables. *)
LEMMA StepsOfTheMachine ==
  ASSUME CInv, CompletionNext
  PROVE  [Next]_vars
<1>1. CASE IndependentStep /\ UNCHANGED postingVars
  BY <1>1 DEF Next
<1>2. ASSUME NEW u \in User, NEW t \in Task, StartCalculated(u, t)
      PROVE  Next
  <2>1. Sufficient(task[t]) \in BOOLEAN
    BY DEF Sufficient
  <2> QED
    BY <1>2, <2>1 DEF StartCalculated, StockStep, Next
<1>3. ASSUME NEW u \in User, Reselect(u) \/ Forget(u)
      PROVE  Next
  BY <1>3 DEF Reselect, Forget, ContextStep, Next
<1>4. ASSUME NEW u \in User, NEW c \in Chat,
             \/ EnsureSession(u, c) \/ EndSession(u, c) \/ CancelCompletion(u, c)
             \/ \E t \in Task, q \in Pieces, k \in Token : PrepareCompletion(u, c, t, q, k)
      PROVE  UNCHANGED vars
  BY <1>4 DEF EnsureSession, EndSession, CancelCompletion, PrepareCompletion
<1>5. ASSUME NEW u \in User, NEW c \in Chat, NEW k \in Token, PostCompletion(u, c, k)
      PROVE  Next
  <2>1. intent[k] \in Intent
    BY <1>5 DEF PostCompletion, Valid, CInv, PostingTypeOK
  <2>2. intent[k].task \in Task /\ intent[k].qty \in Pieces
    BY <2>1 DEF Intent
  <2> QED
    BY <1>5, <2>2 DEF PostCompletion, StockStep, Next
<1>6. CASE \E k \in Token : IntentExpires(k)
  BY <1>6 DEF IntentExpires
<1>7. CASE \/ \E u \in User, m \in Material, n \in 0 .. MaxStock : ChangeStock(u, m, n)
           \/ \E u \in User, p \in Product, b \in Recipe : ApplyBOMChange(u, p, b)
  BY <1>7 DEF ChangeStock, ApplyBOMChange
<1> QED
  BY <1>1, <1>2, <1>3, <1>4, <1>5, <1>6, <1>7 DEF CompletionNext

\* What Next of Completion comes to: the record and the stock move only in a posting,
\* the stock also by a correction.
Quiet ==
  /\ UNCHANGED record
  /\ OneTask
  /\ UNCHANGED stock \/ (UNCHANGED task /\ stock' \in [Material -> Nat])

LEMMA CompletionStep ==
  ASSUME CInv, [CompletionNext]_allVars
  PROVE  CInv' /\ (Quiet \/ \E k \in Token : Posts(k))
<1>1. IInv'
  <2>1. CASE UNCHANGED allVars
    BY <2>1, NextInv DEF allVars, CInv
  <2> QED
    BY <2>1, StepsOfTheMachine, NextInv DEF CInv
<1>2. CASE IndependentStep /\ UNCHANGED postingVars
  <2>1. OneTask
    BY <1>2, IndependentMoves DEF CInv
  <2> QED
    BY <1>1, <1>2, <2>1, OthersKept, TasksKeep DEF postingVars, Quiet
<1>3. ASSUME NEW u \in User, NEW t \in Task, StartCalculated(u, t)
      PROVE  CInv' /\ Quiet
  <2>1. OneTask
    BY <1>3, StartMoves DEF StartCalculated, CInv
  <2> QED
    BY <1>1, <1>3, <2>1, OthersKept, TasksKeep DEF StartCalculated, postingVars, Quiet
<1>4. ASSUME NEW u \in User, Forget(u)
      PROVE  CInv' /\ Quiet
  BY <1>1, <1>4, OthersKept, TasksKeep DEF Forget, taskVars, postingVars, Quiet, OneTask
<1>5. ASSUME NEW u \in User,
             \/ Reselect(u)
             \/ \E c \in Chat : EnsureSession(u, c) \/ EndSession(u, c) \/ CancelCompletion(u, c)
      PROVE  CInv' /\ Quiet
  <2>1. UNCHANGED <<task, record, stock>>
    BY <1>5 DEF Reselect, EnsureSession, EndSession, CancelCompletion, vars, taskVars
  <2> QED
    BY <1>1, <1>5, <2>1, SessionsKeep DEF Quiet, OneTask
<1>6. ASSUME NEW u \in User, NEW c \in Chat, NEW t \in Task, NEW q \in Pieces, NEW k \in Token,
             PrepareCompletion(u, c, t, q, k)
      PROVE  CInv' /\ Quiet
  <2>1. UNCHANGED <<task, record, stock>>
    BY <1>6 DEF PrepareCompletion, vars, taskVars
  <2> QED
    BY <1>1, <1>6, <2>1, PrepareKeeps DEF Quiet, OneTask
<1>7. ASSUME NEW u \in User, NEW c \in Chat, NEW k \in Token, PostCompletion(u, c, k)
      PROVE  CInv' /\ Posts(k)
  BY <1>1, <1>7, PostingPosts, PostKeeps
<1>8. ASSUME NEW k \in Token, IntentExpires(k)
      PROVE  CInv' /\ Quiet
  <2>1. UNCHANGED <<task, record, stock>>
    BY <1>8 DEF IntentExpires, vars, taskVars
  <2> QED
    BY <1>1, <1>8, <2>1, ExpiryKeeps DEF Quiet, OneTask
<1>9. CASE \/ \E u \in User, m \in Material, n \in 0 .. MaxStock : ChangeStock(u, m, n)
           \/ \E u \in User, p \in Product, b \in Recipe : ApplyBOMChange(u, p, b)
  <2>1. UNCHANGED <<task, record>>
    BY <1>9 DEF ChangeStock, ApplyBOMChange, vars, taskVars
  <2>2. CInv'
    BY <1>1, <1>9, StockKeeps
  <2>3. stock' \in [Material -> Nat]
    BY <2>2 DEF CInv, PostingTypeOK
  <2> QED
    BY <2>1, <2>2, <2>3 DEF Quiet, OneTask
<1>10. CASE UNCHANGED allVars
  BY <1>1, <1>10, OthersKept, TasksKeep
  DEF allVars, vars, taskVars, postingVars, Quiet, OneTask
<1> QED
  BY <1>2, <1>3, <1>4, <1>5, <1>6, <1>7, <1>8, <1>9, <1>10 DEF CompletionNext

(* The inductive invariant holds in every reachable state.                   *)
THEOREM CompletionInvariance == CompletionSpec => []CInv
<1>1. CompletionInit => CInv
  BY CompletionStart
<1>2. CInv /\ [CompletionNext]_allVars => CInv'
  BY CompletionStep
<1> QED
  BY <1>1, <1>2, PTL DEF CompletionSpec

(* The tables of the posting keep their types: no stock is ever negative     *)
(* (PostProductionTx).                                                       *)
THEOREM PostingTypesCorrect == CompletionSpec => []PostingTypeOK
<1>1. CInv => PostingTypeOK
  BY DEF CInv
<1> QED
  BY <1>1, CompletionInvariance, PTL

-----------------------------------------------------------------------------
(* The books. *)

(* What is consumed adds up, in whatever order the records are taken.        *)
LEMMA ConsumedIs ==
  ASSUME NEW rec, NEW m, IsFiniteSet(Recorded(rec)), NEW f, NEW G,
         Adds(G, f, Recorded(rec)), \A t \in Recorded(rec) : f[t] = rec[t].need[m]
  PROVE  Consumed(rec, m) = G[Recorded(rec)]
<1> DEFINE D == Recorded(rec)
           iter[u \in SUBSET D] ==
             IF u = {} THEN 0
             ELSE LET x == CHOOSE x \in u : TRUE IN rec[x].need[m] + iter[u \ {x}]
<1>1. Consumed(rec, m) = iter[D]
  BY DEF Consumed, MapThenSumSet, MapThenFoldSet
<1>2. iter = [u \in SUBSET D |->
                IF u = {} THEN 0
                ELSE rec[CHOOSE x \in u : TRUE].need[m] + iter[u \ {CHOOSE x \in u : TRUE}]]
  <2>1. ASSUME NEW u \in SUBSET D
        PROVE  G[u] = IF u = {} THEN 0
                      ELSE rec[CHOOSE x \in u : TRUE].need[m]
                             + G[u \ {CHOOSE x \in u : TRUE}]
    <3>1. CASE u = {}
      BY <3>1 DEF Adds
    <3>2. CASE u # {}
      <4>1. (CHOOSE x \in u : TRUE) \in u
        BY <3>2
      <4> QED
        BY <3>2, <4>1 DEF Adds
    <3> QED
      BY <3>1, <3>2
  <2>2. G = [u \in SUBSET D |->
               IF u = {} THEN 0
               ELSE rec[CHOOSE x \in u : TRUE].need[m] + G[u \ {CHOOSE x \in u : TRUE}]]
    BY <2>1 DEF Adds
  <2> QED
    BY <2>2
<1>3. Follows(iter, f, D)
  <2>1. iter[{}] = 0
    BY <1>2
  <2>2. ASSUME NEW u \in SUBSET D, u # {}
        PROVE  \E x \in u : iter[u] = f[x] + iter[u \ {x}]
    <3>1. (CHOOSE x \in u : TRUE) \in u
      BY <2>2
    <3>2. iter[u] = rec[CHOOSE x \in u : TRUE].need[m]
                      + iter[u \ {CHOOSE x \in u : TRUE}]
      BY <1>2, <2>2
    <3> QED
      BY <3>1, <3>2
  <2> QED
    BY <2>1, <2>2 DEF Follows
<1> HIDE DEF iter, D
<1>4. \A u \in SUBSET D : iter[u] = G[u]
  BY <1>3, FoldAdds DEF D
<1> QED
  BY <1>1, <1>4 DEF D

(* And so does what is made.                                                 *)
LEMMA MadeIs ==
  ASSUME NEW rec, NEW p, IsFiniteSet(MadeOf(rec, p)), NEW f, NEW G,
         Adds(G, f, MadeOf(rec, p)), \A t \in MadeOf(rec, p) : f[t] = rec[t].qty
  PROVE  Made(rec, p) = G[MadeOf(rec, p)]
<1> DEFINE D == MadeOf(rec, p)
           iter[u \in SUBSET D] ==
             IF u = {} THEN 0
             ELSE LET x == CHOOSE x \in u : TRUE IN rec[x].qty + iter[u \ {x}]
<1>1. Made(rec, p) = iter[D]
  BY DEF Made, MapThenSumSet, MapThenFoldSet
<1>2. iter = [u \in SUBSET D |->
                IF u = {} THEN 0
                ELSE rec[CHOOSE x \in u : TRUE].qty + iter[u \ {CHOOSE x \in u : TRUE}]]
  <2>1. ASSUME NEW u \in SUBSET D
        PROVE  G[u] = IF u = {} THEN 0
                      ELSE rec[CHOOSE x \in u : TRUE].qty + G[u \ {CHOOSE x \in u : TRUE}]
    <3>1. CASE u = {}
      BY <3>1 DEF Adds
    <3>2. CASE u # {}
      <4>1. (CHOOSE x \in u : TRUE) \in u
        BY <3>2
      <4> QED
        BY <3>2, <4>1 DEF Adds
    <3> QED
      BY <3>1, <3>2
  <2>2. G = [u \in SUBSET D |->
               IF u = {} THEN 0
               ELSE rec[CHOOSE x \in u : TRUE].qty + G[u \ {CHOOSE x \in u : TRUE}]]
    BY <2>1 DEF Adds
  <2> QED
    BY <2>2
<1>3. Follows(iter, f, D)
  <2>1. iter[{}] = 0
    BY <1>2
  <2>2. ASSUME NEW u \in SUBSET D, u # {}
        PROVE  \E x \in u : iter[u] = f[x] + iter[u \ {x}]
    <3>1. (CHOOSE x \in u : TRUE) \in u
      BY <2>2
    <3>2. iter[u] = rec[CHOOSE x \in u : TRUE].qty + iter[u \ {CHOOSE x \in u : TRUE}]
      BY <1>2, <2>2
    <3> QED
      BY <3>1, <3>2
  <2> QED
    BY <2>1, <2>2 DEF Follows
<1> HIDE DEF iter, D
<1>4. \A u \in SUBSET D : iter[u] = G[u]
  BY <1>3, FoldAdds DEF D
<1> QED
  BY <1>1, <1>4 DEF D

\* after has one record more than before: r, of the task t.
OneMore(before, after, t, r) ==
  /\ before \in [Task -> Record \cup {NoRecord}] /\ IsFiniteSet(Recorded(before))
  /\ t \in Task /\ before[t] = NoRecord /\ r \in Record
  /\ after = [s \in Task |-> IF s = t THEN r ELSE before[s]]

(* The fields of a record are numbers.                                       *)
LEMMA RecordCounts ==
  ASSUME NEW rec \in [Task -> Record \cup {NoRecord}], NEW t \in Recorded(rec)
  PROVE  /\ rec[t] \in Record /\ rec[t].qty \in Nat
         /\ \A m \in Material : rec[t].need[m] \in Nat
BY CountAssumption DEF Recorded, Record, Composition, Pieces

(* One record more consumes what it says.                                    *)
LEMMA ConsumedMore ==
  ASSUME NEW before, NEW after, NEW t, NEW r, OneMore(before, after, t, r),
         NEW m \in Material
  PROVE  /\ Recorded(after) = Recorded(before) \cup {t} /\ IsFiniteSet(Recorded(after))
         /\ Consumed(before, m) \in Int /\ r.need[m] \in Int
         /\ Consumed(after, m) = r.need[m] + Consumed(before, m)
<1> DEFINE S == Recorded(before)
           f == [s \in S \cup {t} |-> after[s].need[m]]
           g == [s \in S |-> before[s].need[m]]
<1>1. /\ before \in [Task -> Record \cup {NoRecord}] /\ IsFiniteSet(S)
      /\ t \in Task /\ t \notin S /\ r \in Record /\ r # NoRecord
      /\ after = [s \in Task |-> IF s = t THEN r ELSE before[s]]
      /\ after \in [Task -> Record \cup {NoRecord}]
  BY RecordAssumption DEF OneMore, Recorded
<1>2. Recorded(after) = S \cup {t}
  BY <1>1 DEF Recorded
<1>3. IsFiniteSet(S \cup {t})
  BY <1>1, FS_AddElement
<1>4. f \in [S \cup {t} -> Int] /\ f[t] = r.need[m]
  <2>1. \A s \in S \cup {t} : after[s].need[m] \in Int
    BY <1>1, <1>2, RecordCounts
  <2>2. after[t] = r
    BY <1>1
  <2> QED
    BY <2>1, <2>2
<1>5. \A s \in S : f[s] = g[s] /\ g[s] = before[s].need[m]
  BY <1>1 DEF Recorded
<1>6. \A s \in S \cup {t} : f[s] = after[s].need[m]
  OBVIOUS
<1> HIDE DEF f, g
<1>7. PICK G : Adds(G, f, S \cup {t})
  <2> HIDE DEF S
  <2> QED
    BY <1>3, <1>4, AdderExists
<1>8. /\ G[S] \in Int /\ G[S \cup {t}] = f[t] + G[S]
      /\ \E H : Adds(H, g, S) /\ H[S] = G[S]
  <2> DEFINE T == S \cup {t}
  <2>1. Joins(t, S, T)
    BY <1>1 DEF Joins
  <2>2. Agree(f, g, S)
    BY <1>5 DEF Agree
  <2>3. Adds(G, f, T)
    BY <1>7
  <2> HIDE DEF S, T
  <2>4. /\ G[S] \in Int /\ G[T] = f[t] + G[S]
        /\ \E H : Adds(H, g, S) /\ H[S] = G[S]
    BY <2>1, <2>2, <2>3, SumGrows
  <2> QED
    BY <2>4 DEF T
<1>9. PICK H : Adds(H, g, S) /\ H[S] = G[S]
  BY <1>8
<1>10. Consumed(after, m) = G[S \cup {t}]
  <2>1. /\ IsFiniteSet(Recorded(after)) /\ Adds(G, f, Recorded(after))
        /\ \A s \in Recorded(after) : f[s] = after[s].need[m]
    BY <1>2, <1>3, <1>6, <1>7
  <2>2. Consumed(after, m) = G[Recorded(after)]
    BY <2>1, ConsumedIs
  <2> QED
    BY <1>2, <2>2
<1>11. Consumed(before, m) = H[S]
  BY <1>1, <1>5, <1>9, ConsumedIs
<1> HIDE DEF S
<1> QED
  BY <1>2, <1>3, <1>4, <1>8, <1>9, <1>10, <1>11 DEF S

(* And makes its pieces of its product.                                      *)
LEMMA MadeMore ==
  ASSUME NEW before, NEW after, NEW t, NEW r, OneMore(before, after, t, r),
         NEW p \in Product
  PROVE  /\ Made(before, p) \in Int /\ r.qty \in Int
         /\ Made(after, p) = IF p = r.product THEN r.qty + Made(before, p)
                             ELSE Made(before, p)
<1> DEFINE S == MadeOf(before, p)
           f == [s \in S \cup {t} |-> after[s].qty]
           g == [s \in S |-> before[s].qty]
<1>1. /\ before \in [Task -> Record \cup {NoRecord}] /\ IsFiniteSet(Recorded(before))
      /\ t \in Task /\ t \notin Recorded(before) /\ r \in Record /\ r # NoRecord
      /\ after = [s \in Task |-> IF s = t THEN r ELSE before[s]]
      /\ after \in [Task -> Record \cup {NoRecord}]
  BY RecordAssumption DEF OneMore, Recorded
<1>2. MadeOf(after, p) = IF p = r.product THEN S \cup {t} ELSE S
  BY <1>1 DEF Recorded, MadeOf
<1>3. IsFiniteSet(S) /\ IsFiniteSet(S \cup {t}) /\ t \notin S
      /\ S \subseteq Recorded(before) /\ S \cup {t} \subseteq Recorded(after)
  <2>1. S \subseteq Recorded(before)
    BY DEF MadeOf
  <2>2. IsFiniteSet(S)
    BY <1>1, <2>1, FS_Subset
  <2>3. Recorded(after) = Recorded(before) \cup {t}
    BY <1>1 DEF Recorded
  <2> QED
    BY <1>1, <2>1, <2>2, <2>3, FS_AddElement
<1>4. f \in [S \cup {t} -> Int] /\ f[t] = r.qty
  <2>1. \A s \in S \cup {t} : after[s].qty \in Int
    <3>1. ASSUME NEW s \in S \cup {t} PROVE after[s].qty \in Int
      <4>1. s \in Recorded(after)
        BY <1>3
      <4> QED
        BY <1>1, <4>1, RecordCounts
    <3> QED
      BY <3>1
  <2>2. after[t] = r
    BY <1>1
  <2> QED
    BY <2>1, <2>2
<1>5. \A s \in S : f[s] = g[s] /\ g[s] = before[s].qty /\ g[s] = after[s].qty
  BY <1>1 DEF Recorded, MadeOf
<1>6. \A s \in S \cup {t} : f[s] = after[s].qty
  OBVIOUS
<1> HIDE DEF f, g
<1>7. PICK G : Adds(G, f, S \cup {t})
  <2> HIDE DEF S
  <2> QED
    BY <1>3, <1>4, AdderExists
<1>8. /\ G[S] \in Int /\ G[S \cup {t}] = f[t] + G[S]
      /\ \E H : Adds(H, g, S) /\ H[S] = G[S]
  <2> DEFINE T == S \cup {t}
  <2>1. Joins(t, S, T)
    BY <1>3 DEF Joins
  <2>2. Agree(f, g, S)
    BY <1>5 DEF Agree
  <2>3. Adds(G, f, T)
    BY <1>7
  <2> HIDE DEF S, T
  <2>4. /\ G[S] \in Int /\ G[T] = f[t] + G[S]
        /\ \E H : Adds(H, g, S) /\ H[S] = G[S]
    BY <2>1, <2>2, <2>3, SumGrows
  <2> QED
    BY <2>4 DEF T
<1>9. PICK H : Adds(H, g, S) /\ H[S] = G[S]
  BY <1>8
<1>10. Made(before, p) = H[S]
  BY <1>3, <1>5, <1>9, MadeIs
<1>11. CASE p = r.product
  <2>1. Made(after, p) = G[S \cup {t}]
    <3>1. MadeOf(after, p) = S \cup {t}
      BY <1>2, <1>11
    <3>2. /\ IsFiniteSet(MadeOf(after, p)) /\ Adds(G, f, MadeOf(after, p))
          /\ \A s \in MadeOf(after, p) : f[s] = after[s].qty
      BY <1>3, <1>6, <1>7, <3>1
    <3>3. Made(after, p) = G[MadeOf(after, p)]
      BY <3>2, MadeIs
    <3> QED
      BY <3>1, <3>3
  <2> HIDE DEF S
  <2> QED
    BY <1>4, <1>8, <1>9, <1>10, <1>11, <2>1
<1>12. CASE p # r.product
  <2>1. Made(after, p) = H[S]
    BY <1>2, <1>3, <1>5, <1>9, <1>12, MadeIs
  <2> HIDE DEF S
  <2> QED
    BY <1>4, <1>8, <1>9, <1>10, <1>12, <2>1
<1> QED
  BY <1>11, <1>12

BooksInv == CInv /\ IsFiniteSet(Recorded(record)) /\ StockLedger

(* The books begin without a record.                                         *)
LEMMA BooksBegin ==
  ASSUME CompletionInit
  PROVE  BooksInv
<1>1. CInv
  BY CompletionStart
<1>2. Recorded(record) = {} /\ \A p : MadeOf(record, p) = {}
  BY DEF CompletionInit, Recorded, MadeOf
<1>3. IsFiniteSet({})
  BY FS_EmptySet
<1> DEFINE z == [x \in {} |-> 0]
<1>4. PICK G : Adds(G, z, {})
  <2>1. z \in [{} -> Int]
    OBVIOUS
  <2> HIDE DEF z
  <2> QED
    BY <1>3, <2>1, AdderExists
<1>5. G[{}] = 0
  BY <1>4 DEF Adds
<1> HIDE DEF z
<1>6. ASSUME NEW m \in Material PROVE Consumed(record, m) = 0
  BY <1>2, <1>3, <1>4, <1>5, ConsumedIs
<1>7. ASSUME NEW p \in Product PROVE Made(record, p) = 0
  BY <1>2, <1>3, <1>4, <1>5, MadeIs
<1>8. stock = corrected /\ goods = [p \in Product |-> 0] /\ corrected \in [Material -> Int]
  BY <1>1 DEF CompletionInit, CInv, PostingTypeOK
<1>9. StockLedger
  <2>1. \A m \in Material : stock[m] = corrected[m] - Consumed(record, m)
    BY <1>6, <1>8
  <2>2. \A p \in Product : goods[p] = Made(record, p)
    BY <1>7, <1>8
  <2> QED
    BY <2>1, <2>2 DEF StockLedger
<1> QED
  BY <1>1, <1>2, <1>3, <1>9 DEF BooksInv

(* A step without a new record changes a stock as the movements say.         *)
LEMMA BalanceKept ==
  ASSUME CInv, [CompletionNext]_allVars, record' = record
  PROVE  /\ goods' = goods
         /\ \A m \in Material : /\ stock'[m] - corrected'[m] = stock[m] - corrected[m]
                               /\ {stock[m], corrected[m], stock'[m], corrected'[m]} \subseteq Int
<1>1. stock \in [Material -> Nat] /\ corrected \in [Material -> Int] /\ MaxStock \in Nat
  BY BoundAssumption DEF CInv, PostingTypeOK
<1>2. CASE UNCHANGED <<stock, goods, corrected>>
  BY <1>1, <1>2
<1>3. ASSUME NEW u \in User, NEW m \in Material, NEW n \in 0 .. MaxStock, ChangeStock(u, m, n)
      PROVE  /\ goods' = goods
             /\ \A k \in Material :
                  /\ stock'[k] - corrected'[k] = stock[k] - corrected[k]
                  /\ {stock[k], corrected[k], stock'[k], corrected'[k]} \subseteq Int
  <2>1. /\ goods' = goods /\ n \in Int
        /\ stock' = [stock EXCEPT ![m] = n]
        /\ corrected' = [corrected EXCEPT ![m] = @ + n - stock[m]]
    BY <1>1, <1>3 DEF ChangeStock
  <2>2. ASSUME NEW k \in Material
        PROVE  /\ stock'[k] - corrected'[k] = stock[k] - corrected[k]
               /\ {stock[k], corrected[k], stock'[k], corrected'[k]} \subseteq Int
    <3>1. stock[k] \in Int /\ corrected[k] \in Int
      BY <1>1
    <3>2. CASE k = m
      BY <1>1, <2>1, <3>1, <3>2
    <3>3. CASE k # m
      BY <1>1, <2>1, <3>1, <3>3
    <3> QED
      BY <3>2, <3>3
  <2> QED
    BY <2>1, <2>2
<1>4. ASSUME NEW u \in User, NEW c \in Chat, NEW k \in Token, PostCompletion(u, c, k)
      PROVE  FALSE
  <2>1. Posts(k)
    BY <1>4, PostingPosts
  <2>2. record'[intent[k].task] \in Record /\ record[intent[k].task] = NoRecord
    BY <2>1 DEF Posts
  <2> QED
    BY <2>2, RecordAssumption
<1>5. ASSUME \/ IndependentStep /\ UNCHANGED postingVars
             \/ \E u \in User, t \in Task : StartCalculated(u, t)
             \/ UNCHANGED allVars
      PROVE  UNCHANGED <<stock, goods, corrected>>
  BY <1>5 DEF postingVars, allVars, StartCalculated
<1>6. ASSUME NEW u \in User, Reselect(u) \/ Forget(u)
      PROVE  UNCHANGED <<stock, goods, corrected>>
  BY <1>6 DEF postingVars, Reselect, Forget
<1>7. ASSUME NEW u \in User, NEW c \in Chat,
             \/ EnsureSession(u, c) \/ EndSession(u, c) \/ CancelCompletion(u, c)
             \/ \E t \in Task, q \in Pieces, k \in Token : PrepareCompletion(u, c, t, q, k)
      PROVE  UNCHANGED <<stock, goods, corrected>>
  BY <1>7 DEF EnsureSession, EndSession, CancelCompletion, PrepareCompletion
<1>8. ASSUME \/ \E k \in Token : IntentExpires(k)
             \/ \E u \in User, p \in Product, b \in Recipe : ApplyBOMChange(u, p, b)
      PROVE  UNCHANGED <<stock, goods, corrected>>
  BY <1>8 DEF IntentExpires, ApplyBOMChange
<1> QED
  BY <1>2, <1>3, <1>4, <1>5, <1>6, <1>7, <1>8 DEF CompletionNext

(* Every step keeps the books.                                               *)
LEMMA BooksKept ==
  ASSUME BooksInv, [CompletionNext]_allVars
  PROVE  BooksInv'
<1>1. CInv /\ CInv' /\ (Quiet \/ \E k \in Token : Posts(k))
  BY CompletionStep DEF BooksInv
<1>2. /\ IsFiniteSet(Recorded(record))
      /\ \A m \in Material : stock[m] = corrected[m] - Consumed(record, m)
      /\ \A p \in Product : goods[p] = Made(record, p)
  BY DEF BooksInv, StockLedger
<1>3. /\ stock \in [Material -> Nat] /\ corrected \in [Material -> Int]
      /\ goods \in [Product -> Nat] /\ record \in [Task -> Record \cup {NoRecord}]
  BY <1>1 DEF CInv, PostingTypeOK
<1>4. CASE Quiet
  <2>1. record' = record
    BY <1>4 DEF Quiet
  <2>2. /\ goods' = goods
        /\ \A m \in Material :
             /\ stock'[m] - corrected'[m] = stock[m] - corrected[m]
             /\ {stock[m], corrected[m], stock'[m], corrected'[m]} \subseteq Int
    BY <1>1, <2>1, BalanceKept
  <2>3. ASSUME NEW m \in Material PROVE stock'[m] = corrected'[m] - Consumed(record', m)
    <3>1. \A a, b, c, d, e \in Int : a = b - e /\ c - d = a - b => c = d - e
      OBVIOUS
    <3>2. Consumed(record, m) \in Int
      <4> DEFINE f == [t \in Recorded(record) |-> record[t].need[m]]
      <4>1. f \in [Recorded(record) -> Int]
        BY <1>3, RecordCounts
      <4>2. \A t \in Recorded(record) : f[t] = record[t].need[m]
        OBVIOUS
      <4> HIDE DEF f
      <4>3. PICK G : Adds(G, f, Recorded(record))
        BY <1>2, <4>1, AdderExists
      <4>4. Consumed(record, m) = G[Recorded(record)]
        BY <1>2, <4>2, <4>3, ConsumedIs
      <4> QED
        BY <4>3, <4>4 DEF Adds
    <3> QED
      BY <1>2, <2>1, <2>2, <3>1, <3>2
  <2> QED
    BY <1>1, <1>2, <2>1, <2>2, <2>3 DEF BooksInv, StockLedger
<1>5. ASSUME NEW k \in Token, Posts(k) PROVE BooksInv'
  <2> DEFINE i == intent[k]
             t == i.task
             r == record'[t]
  <2>1. /\ t \in Task /\ record[t] = NoRecord /\ r \in Record
        /\ r.product = task[t].product /\ r.qty = i.qty /\ r.need = i.need
        /\ task[t].product \in Product
        /\ record' = [s \in Task |-> IF s = t THEN r ELSE record[s]]
        /\ stock' = [m \in Material |-> stock[m] - i.need[m]]
        /\ goods' = [goods EXCEPT ![task[t].product] = @ + i.qty]
        /\ corrected' = corrected
    BY <1>5 DEF Posts, Intent
  <2> HIDE DEF r
  <2>2. OneMore(record, record', t, r)
    BY <1>2, <1>3, <2>1 DEF OneMore
  <2>3. ASSUME NEW m \in Material PROVE stock'[m] = corrected'[m] - Consumed(record', m)
    <3>1. /\ Consumed(record, m) \in Int /\ r.need[m] \in Int
          /\ Consumed(record', m) = r.need[m] + Consumed(record, m)
      BY <2>2, ConsumedMore
    <3>2. /\ stock'[m] = stock[m] - r.need[m] /\ corrected'[m] = corrected[m]
          /\ stock[m] = corrected[m] - Consumed(record, m) /\ corrected[m] \in Int
      BY <1>2, <1>3, <2>1
    <3> QED
      BY <3>1, <3>2
  <2>4. ASSUME NEW p \in Product PROVE goods'[p] = Made(record', p)
    <3>1. /\ Made(record, p) \in Int /\ r.qty \in Int
          /\ Made(record', p) = IF p = r.product THEN r.qty + Made(record, p)
                                ELSE Made(record, p)
      BY <2>2, MadeMore
    <3>2. goods[p] = Made(record, p) /\ goods[p] \in Nat
      BY <1>2, <1>3
    <3>3. goods'[p] = IF p = r.product THEN goods[p] + r.qty ELSE goods[p]
      BY <1>3, <2>1
    <3> QED
      BY <3>1, <3>2, <3>3
  <2>5. IsFiniteSet(Recorded(record'))
    <3>1. Recorded(record') = Recorded(record) \cup {t}
      BY <1>3, <2>1, RecordAssumption DEF Recorded
    <3> QED
      BY <1>2, <3>1, FS_AddElement
  <2> QED
    BY <1>1, <2>3, <2>4, <2>5 DEF BooksInv, StockLedger
<1> QED
  BY <1>1, <1>4, <1>5

(* The tables have their types, a task is completed exactly when its record  *)
(* says so, and the stock is what people counted and corrected minus what    *)
(* the records consumed, each once; the goods are the records'               *)
(* (PostCompletion, PostProductionTx, changeStockByID).                      *)
THEOREM BooksCorrect == CompletionSpec => []BooksAgree
<1>1. CompletionInit => BooksInv
  BY BooksBegin
<1>2. BooksInv /\ [CompletionNext]_allVars => BooksInv'
  BY BooksKept
<1>3. BooksInv => BooksAgree
  BY DEF BooksInv, BooksAgree, CInv
<1> QED
  BY <1>1, <1>2, <1>3, PTL DEF CompletionSpec

-----------------------------------------------------------------------------
(* A task is completed exactly when it has its one production record, of its  *)
(* product and of the quantity it says was produced (PostCompletion).        *)
THEOREM RecordsCorrect == CompletionSpec => []RecordIffCompleted
<1>1. CInv => RecordIffCompleted
  BY DEF CInv
<1> QED
  BY <1>1, CompletionInvariance, PTL

(* A chat has one live preview at most, and the version kept with a preview   *)
(* stands for the row it was computed from (PrepareCompletion).              *)
THEOREM PreviewsCorrect == CompletionSpec => []PreviewsAgree
<1>1. CInv => PreviewsAgree
  BY DEF CInv, PreviewsAgree
<1> QED
  BY <1>1, CompletionInvariance, PTL

(* One executor has one task in the foreground, whatever is posted beside it. *)
THEOREM ForegroundKept == CompletionSpec => []OneForeground
<1>1. CInv => OneForeground
  BY DEF CInv, IInv
<1> QED
  BY <1>1, CompletionInvariance, PTL

(* What is posted is a live preview of this very row, in a dialogue that has  *)
(* not ended since (PostCompletion).                                         *)
THEOREM PostingsArePreviewed == CompletionSpec => PostedAsPreviewed
<1>1. ASSUME CInv, [CompletionNext]_allVars, NEW t \in Task, record'[t] # record[t]
      PROVE  \E k \in Token :
               /\ intent[k] # NoIntent
               /\ intent[k].state = "live"
               /\ intent[k].task = t /\ intent[k].row = task[t]
               /\ intent[k].session = session[intent[k].user][intent[k].chat]
               /\ record'[t].qty = intent[k].qty /\ record'[t].need = intent[k].need
  <2>1. PICK k \in Token : Posts(k)
    BY <1>1, CompletionStep DEF Quiet
  <2>2. intent[k].task = t
    BY <1>1, <2>1 DEF Posts
  <2> QED
    BY <2>1, <2>2, IntentAssumption DEF Posts
<1> DEFINE Previewed ==
      \A t \in Task : record'[t] # record[t] =>
        \E k \in Token :
          /\ intent[k] # NoIntent
          /\ intent[k].state = "live"
          /\ intent[k].task = t /\ intent[k].row = task[t]
          /\ intent[k].session = session[intent[k].user][intent[k].chat]
          /\ record'[t].qty = intent[k].qty /\ record'[t].need = intent[k].need
<1>2. CInv /\ [CompletionNext]_allVars => Previewed
  BY <1>1
<1>3. Previewed => [\A t \in Task : record'[t] # record[t] =>
        \E k \in Token :
          /\ intent[k] # NoIntent
          /\ intent[k].state = "live"
          /\ intent[k].task = t /\ intent[k].row = task[t]
          /\ intent[k].session = session[intent[k].user][intent[k].chat]
          /\ record'[t].qty = intent[k].qty /\ record'[t].need = intent[k].need]_allVars
  OBVIOUS
<1> HIDE DEF Previewed
<1> QED
  BY <1>2, <1>3, CompletionInvariance, PTL DEF CompletionSpec, PostedAsPreviewed

-----------------------------------------------------------------------------
(* The refinement of PostingLedger. *)

LEMMA LedgerStart ==
  ASSUME CompletionInit
  PROVE  Ledger!LedgerInit
<1>1. 0 .. MaxStock \subseteq Nat
  BY BoundAssumption
<1> QED
  BY <1>1 DEF CompletionInit, Ledger!LedgerInit, Outcome

(* The outcome of one task is decided by its row.                            *)
LEMMA OutcomeOfOne ==
  ASSUME NEW t \in Task, \A s \in Task \ {t} : task'[s] = task[s]
  PROVE  Outcome' = [Outcome EXCEPT ![t] = Outcome'[t]]
BY DEF Outcome, Exists

LEMMA QuietIsLedger ==
  ASSUME CInv, Quiet
  PROVE  [Ledger!LedgerNext]_<<Outcome, record, stock>>
<1>1. CASE UNCHANGED task
  <2>1. Outcome' = Outcome
    BY <1>1 DEF Outcome, Exists
  <2> QED
    BY <2>1 DEF Quiet, Ledger!LedgerNext, Ledger!Correct
<1>2. ASSUME NEW t \in Task, Opened(t) \/ Moved(t),
             \A s \in Task \ {t} : task'[s] = task[s], UNCHANGED stock
      PROVE  [Ledger!LedgerNext]_<<Outcome, record, stock>>
  <2>1. Outcome' = [Outcome EXCEPT ![t] = Outcome'[t]] /\ UNCHANGED <<record, stock>>
    BY <1>2, OutcomeOfOne DEF Quiet
  <2>2. CASE Opened(t)
    <3>1. Outcome[t] = "none" /\ Outcome'[t] = "open"
      BY <2>2, RowAssumption DEF Opened, Outcome, Exists, Closed
    <3> QED
      BY <2>1, <3>1 DEF Ledger!LedgerNext, Ledger!Open
  <2>3. CASE Moved(t)
    <3>1. Outcome[t] = "open" /\ Outcome'[t] \in {"open", "dropped"}
      BY <2>3, RowAssumption DEF Moved, Outcome, Exists
    <3>2. CASE Outcome'[t] = "open"
      <4>1. Outcome' = Outcome
        BY <2>1, <3>1, <3>2 DEF Outcome
      <4> QED
        BY <2>1, <4>1
    <3>3. CASE Outcome'[t] = "dropped"
      BY <2>1, <3>1, <3>3 DEF Ledger!LedgerNext, Ledger!Drop
    <3> QED
      BY <3>1, <3>2, <3>3
  <2> QED
    BY <1>2, <2>2, <2>3
<1> QED
  BY <1>1, <1>2 DEF Quiet, OneTask

LEMMA PostIsLedger ==
  ASSUME CInv, NEW k \in Token, Posts(k)
  PROVE  Ledger!Post(intent[k].task)
<1> DEFINE t == intent[k].task
<1>1. t \in Task
  BY DEF Posts, Intent
<1>2. Outcome' = [Outcome EXCEPT ![t] = Outcome'[t]]
  BY <1>1, OutcomeOfOne DEF Posts
<1>3. Outcome[t] = "open" /\ Outcome'[t] = "posted"
  BY <1>1, RowAssumption DEF Posts, Outcome, Exists, Closed
<1>4. /\ record[t] = NoRecord /\ record'[t] # NoRecord
      /\ \A s \in Task \ {t} : record'[s] = record[s]
      /\ \A m \in Material : record'[t].need[m] <= stock[m]
      /\ stock' = [m \in Material |-> stock[m] - record'[t].need[m]]
  BY RecordAssumption DEF Posts
<1> QED
  BY <1>2, <1>3, <1>4 DEF Ledger!Post

(* Completion implements PostingLedger: through every session, preview,       *)
(* version and correction, a task is opened once and then dropped or posted,  *)
(* once, with its record and its materials (PostCompletion, finishPosting).   *)
THEOREM LedgerKept == CompletionSpec => KeepsLedger
<1>1. CompletionInit => Ledger!LedgerInit
  BY LedgerStart
<1>2. CInv /\ [CompletionNext]_allVars => [Ledger!LedgerNext]_<<Outcome, record, stock>>
  <2> SUFFICES ASSUME CInv, [CompletionNext]_allVars
               PROVE  [Ledger!LedgerNext]_<<Outcome, record, stock>>
    OBVIOUS
  <2>1. ASSUME NEW k \in Token, Posts(k)
        PROVE  Ledger!LedgerNext
    <3>1. intent[k].task \in Task
      BY <2>1 DEF Posts, Intent
    <3> QED
      BY <2>1, <3>1, PostIsLedger DEF Ledger!LedgerNext
  <2> QED
    BY <2>1, CompletionStep, QuietIsLedger
<1> QED
  BY <1>1, <1>2, CompletionInvariance, PTL DEF CompletionSpec, KeepsLedger, Ledger!LedgerSpec
=============================================================================
