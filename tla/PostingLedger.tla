--------------------------- MODULE PostingLedger ---------------------------
(***************************************************************************)
(* What the workshop is promised about its production, with no screens,    *)
(* versions, sessions or previews: a task is opened at most once, and is   *)
(* then either dropped, leaving the stock alone, or posted, once, taking   *)
(* out of stock exactly what its record says, never more than there is.    *)
(* Besides postings only a person's correction changes a stock.            *)
(***************************************************************************)
EXTENDS Integers

CONSTANTS Task, Material,
          NoRecord           \* a task without a production record

VARIABLES
  outcome,                   \* outcome[t]: "none", "open", "dropped" or "posted"
  record,                    \* record[t]: the production record of t
  stock                      \* stock[m]: what is left of material m

LedgerInit ==
  /\ outcome \in [Task -> {"none", "open"}]
  /\ record = [t \in Task |-> NoRecord]
  /\ stock \in [Material -> Nat]

Open(t) ==
  /\ outcome[t] = "none"
  /\ outcome' = [outcome EXCEPT ![t] = "open"]
  /\ UNCHANGED <<record, stock>>

Drop(t) ==
  /\ outcome[t] = "open"
  /\ outcome' = [outcome EXCEPT ![t] = "dropped"]
  /\ UNCHANGED <<record, stock>>

\* The record, the stock and the task move together or not at all.
Post(t) ==
  /\ outcome[t] = "open"
  /\ record[t] = NoRecord
  /\ outcome' = [outcome EXCEPT ![t] = "posted"]
  /\ record'[t] # NoRecord
  /\ \A s \in Task \ {t} : record'[s] = record[s]
  /\ \A m \in Material : record'[t].need[m] <= stock[m]
  /\ stock' = [m \in Material |-> stock[m] - record'[t].need[m]]

Correct ==
  /\ stock' \in [Material -> Nat]
  /\ UNCHANGED <<outcome, record>>

LedgerNext == Correct \/ \E t \in Task : Open(t) \/ Drop(t) \/ Post(t)

LedgerSpec == LedgerInit /\ [][LedgerNext]_<<outcome, record, stock>>
=============================================================================
