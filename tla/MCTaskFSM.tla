----------------------------- MODULE MCTaskFSM -----------------------------
(***************************************************************************)
(* Instances of TaskFSM for TLC.                                           *)
(***************************************************************************)
EXTENDS TaskFSM, TLC

CONSTANTS u1, u2, half

MCUser == {u1, u2}
MCFraction == {half}

\* One imported task, its quantity whole, fractional or missing.
ImportedStock ==
  {r \in ImportedRow : r.owner = u2 /\ r.status # "waiting_input"}

\* A viewer among the members is followed over the first versions of the task.
ViewersEarly ==
  \A u \in User, t \in Task : role[u] = "VIEWER" /\ Exists(t) => task[t].version <= 4
=============================================================================
