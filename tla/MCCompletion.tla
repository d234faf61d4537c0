---------------------------- MODULE MCCompletion ----------------------------
(***************************************************************************)
(* Instances of Completion for TLC: the bot starts on a database with one  *)
(* or two tasks an earlier run left verified or about to be.               *)
(***************************************************************************)
EXTENDS Completion, TLC

CONSTANTS u1, u2, p1, m1

VARIABLE scene

MCUser == {u1, u2}

\* A piece takes one unit, or two, or the composition is incomplete.
MCRecipe == [{m1} -> {0, 1, 2}]

\* Rows an earlier run of the bot left at a step past planning.
Left(u, step) ==
  [NewRow("assembly", u, u, p1, 1, step, 1) EXCEPT
     !.approved = TRUE,
     !.produced = IF step \in Validation THEN 1 ELSE NoResult,
     !.validation = IF step = "confirm_completion" THEN "passed" ELSE ""]

Verified(u) == Left(u, "confirm_completion")
Paused(u) == [Verified(u) EXCEPT !.status = "paused"]
Planned(u) == [NewRow("production", u, u, p1, 1, "set_quantity", 1) EXCEPT !.status = "paused"]
LeftRows == {Verified(u1), Verified(u2), Paused(u1), Paused(u2), Planned(u1), Planned(u2)}

\* Tasks, previews and chats are interchangeable in these runs.
Interchangeable == Permutations(Task) \cup Permutations(Token) \cup Permutations(Chat)

Stored == {t \in Task : Exists(t)}
Alone == role[u2] = "NONE"
OwnerPresent == \A u \in User : role[u] = "OWNER" => here[u]
Together == role[u1] = "OWNER" /\ role[u2] = "EMPLOYEE" /\ \A u \in User : here[u]

\* race: two people and the one verified task of u2, pieces of one.
\* rework: one person, one task, recorded and verified again with other counts.
\* tasks: one person with up to two tasks.
\* edited: one person, one task, and the composition changes.
\* given: two people with two paused tasks, one of them still planned, resumed and
\*        given to one another.
OfOne == /\ \A t \in Stored : task[t].qty = 1 \/ task[t].qty = 0
         /\ \A k \in Token : intent[k] # NoIntent => intent[k].qty = 1
         /\ \A t \in Stored : task[t].produced # 2
         /\ \A m \in Material : stock[m] <= 1

Fixed == \A m \in Material : recipe[p1][m] = 1
UpTo(v) == \A t \in Stored : task[t].version <= v

\* A task begun here stays as it was created.
LeftOrNew ==
  \A t \in Stored :
    task[t].approved \/ task[t] \in {NewRow("production", u1, u1, p1, 1, "set_quantity", 1)}

InScene ==
  /\ ~materialCheck
  /\ scene \in {"rework", "edited", "tasks"} => Alone
  /\ scene # "race" => lastSession <= 1
  /\ scene \in {"race", "rework", "edited"} => Cardinality(Stored) = 1
  /\ CASE scene = "race"   -> Fixed /\ OfOne /\ UpTo(2) /\ OwnerPresent
       [] scene = "rework" -> Fixed
       [] scene = "edited" -> UpTo(2) /\ \A k \in Token : intent[k] # NoIntent => intent[k].qty = 1
       [] scene = "tasks"  -> Fixed /\ OfOne /\ UpTo(3) /\ LeftOrNew
       [] scene = "given"  -> /\ Fixed /\ OfOne /\ UpTo(3) /\ Together
                              /\ Cardinality(Stored) = 2 /\ lastSession = 0
                              /\ \A m \in Material : stock[m] = 0
                              /\ \A k \in Token : intent[k] = NoIntent

SceneInit ==
  /\ CompletionInit
  /\ scene \in {"race", "rework", "edited", "tasks", "given"}
  /\ InScene
  /\ \A t \in Stored :
       CASE scene = "race"   -> task[t] = Verified(u2)
         [] scene = "tasks"  -> task[t] \in {Verified(u1), Paused(u1)}
         [] scene = "given"  -> task[t] \in {Paused(u1), Paused(u2), Planned(u1), Planned(u2)}
         [] OTHER            -> task[t] = Verified(u1)

\* Stale screens, switching the rule and tasks at their beginning are explored
\* by the run of TaskFSM: here a screen that has become stale is looked at
\* again before anything else happens.
LookAgain == card # NoCard /\ card.row # task[card.id] => card' # card
\* Nothing leaves the scene.
Within == InScene'

SceneSpec == SceneInit /\ [][CompletionNext /\ UNCHANGED scene]_<<allVars, scene>>

=============================================================================
