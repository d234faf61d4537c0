---------------------------- MODULE Ozon_proofs ----------------------------
(***************************************************************************)
(* Nothing is saved from two accounts, and a query confirms rows of one run *)
(* only, for any accounts, members, SKUs and number of switches and runs;   *)
(* no client of Ozon sends before its own deadline, for any number of       *)
(* revisions, any waits and any length of time.                             *)
(***************************************************************************)
EXTENDS Ozon, OzonLimit, FiniteSetTheorems, TLAPS

-----------------------------------------------------------------------------
(* The deadlines of the clients.                                             *)
USE OzonLimitAssumption

\* Only the request inside the gate of a client moves that client's deadline, and it
\* does so after it was sent; so what was read on the way through the gate holds.
Due == \A c \in Client : request[c].at = "cleared" => clock >= until[c]
LimitInv == OzonLimitTypeOK /\ Due

(* Every part of the client's state has its type and a request that passed   *)
(* the deadlines is not early, whatever the other clients and the clock do   *)
(* (Client.send, Client.attempt).                                            *)
THEOREM LimitInvariance == OzonLimitSpec => []LimitInv
<1>1. OzonLimitInit => LimitInv
  BY DEF OzonLimitInit, LimitInv, OzonLimitTypeOK, Due, Free, Client
<1>2. LimitInv /\ [OzonLimitNext]_limitVars => LimitInv'
  <2> SUFFICES ASSUME LimitInv, [OzonLimitNext]_limitVars PROVE LimitInv'
    OBVIOUS
  <2> USE DEF LimitInv, OzonLimitTypeOK, Due
  <2>1. CASE ClockTick
    BY <2>1 DEF ClockTick
  <2>2. CASE NextClient
    BY <2>2 DEF NextClient, Client
  <2>3. CASE LimitRestart
    BY <2>3 DEF LimitRestart, Free
  <2>4. ASSUME NEW c \in Client, Begin(c) PROVE LimitInv'
    BY <2>4 DEF Begin, Moves, Free
  <2>5. ASSUME NEW c \in Client, Clear(c) PROVE LimitInv'
    BY <2>5 DEF Clear, Moves, Leaves, Free, Later
  <2>6. ASSUME NEW c \in Client, Send(c) PROVE LimitInv'
    BY <2>6 DEF Send, Moves
  <2>7. ASSUME NEW c \in Client, Limited(c) PROVE LimitInv'
    <3>1. PICK wait \in Wait :
            /\ until' = [until EXCEPT ![c] = Later(@, clock + wait)]
            /\ request' = [request EXCEPT ![c].at = "limited", ![c].till = clock + wait]
      BY <2>7 DEF Limited
    <3>2. clock + wait \in Nat /\ Later(until[c], clock + wait) \in Nat
      BY DEF Later
    <3>3. UNCHANGED <<clock, revision, cooldown>> /\ request[c].at = "sent"
      BY <2>7 DEF Limited
    <3>4. OzonLimitTypeOK'
      <4>1. until' \in [Client -> Nat]
        BY <3>1, <3>2
      <4>2. request' \in [Client -> [at : {"free", "due", "cleared", "sent", "limited",
                                          "loaded"}, attempt : {1, 2}, till : Nat]]
        BY <3>1, <3>2
      <4> QED
        BY <3>3, <4>1, <4>2
    <3>5. Due'
      BY <3>1, <3>3
    <3> QED
      BY <3>4, <3>5
  <2>8. ASSUME NEW c \in Client, LoadCooldown(c) PROVE LimitInv'
    BY <2>8 DEF LoadCooldown, Later
  <2>9. ASSUME NEW c \in Client, SaveCooldown(c) PROVE LimitInv'
    BY <2>9 DEF SaveCooldown, Leaves, Free
  <2>10. ASSUME NEW c \in Client, Retry(c) PROVE LimitInv'
    BY <2>10 DEF Retry
  <2>11. ASSUME NEW c \in Client, EndRequest(c) PROVE LimitInv'
    BY <2>11 DEF EndRequest, Leaves, Free
  <2>12. CASE UNCHANGED limitVars
    BY <2>12 DEF limitVars
  <2> QED
    BY <2>1, <2>2, <2>3, <2>4, <2>5, <2>6, <2>7, <2>8, <2>9, <2>10, <2>11, <2>12
    DEF OzonLimitNext
<1> QED
  BY <1>1, <1>2, PTL DEF OzonLimitSpec

(* A client never sends before a deadline Ozon has set for it, though another *)
(* client may have put an earlier one in the row (Client.attempt).            *)
THEOREM OwnDeadlineKept == OzonLimitSpec => KeepsOwnDeadline
<1>1. LimitInv /\ [OzonLimitNext]_limitVars =>
        [\A c \in Client :
           request[c].at = "cleared" /\ request'[c].at = "sent" => clock >= until[c]]_limitVars
  BY DEF LimitInv, Due
<1> QED
  BY <1>1, LimitInvariance, PTL DEF OzonLimitSpec, KeepsOwnDeadline

-----------------------------------------------------------------------------
(* The connection, its flights and its queries.                              *)
USE OzonAssumption, NoneAssumption

\* The row names the account of this process.
OfProcess == connection # None /\ connection.account = account

\* Whoever has passed Execute's check, and every flight, works for the account of the row.
Bound ==
  /\ \A u \in User : refresh[u].at = "bound" => OfProcess
  /\ \A key \in Key : flight[key] # None => OfProcess

\* What a query has collected is of the run its last page was of; before the first
\* page it has nothing.
Paged ==
  query # None =>
    CASE query.at = "answered" -> \A r \in query.rows : r[2] = query.seen
      [] OTHER -> /\ query.offset = 0 => query.rows = {}
                  /\ \A r \in query.rows : r[2] = query.run

OzonInv == OzonTypeOK /\ Bound /\ OneAccount /\ Paged

-----------------------------------------------------------------------------
(* The members of the workshop keep their types, whoever does what.          *)
LEMMA MembersKeepType ==
  ASSUME MembersTypeOK, Others
  PROVE  MembersTypeOK'
<1> USE GivenRoleAssumption DEF MembersTypeOK, MemberRole, Assignable
<1>1. CASE MemberStep
  <2>1. PICK actor \in User, u \in User :
          \/ \E r \in GivenRole : ChangeRole(actor, u, r) \/ Activate(actor, u, r)
          \/ Deactivate(actor, u)
          \/ TransferOwnership(actor, u)
    BY <1>1 DEF MemberStep
  <2>2. CASE \E r \in GivenRole : ChangeRole(actor, u, r) \/ Activate(actor, u, r)
    BY <2>2 DEF ChangeRole, Activate
  <2>3. CASE Deactivate(actor, u) \/ TransferOwnership(actor, u)
    BY <2>3 DEF Deactivate, TransferOwnership
  <2> QED
    BY <2>1, <2>2, <2>3
<1>2. CASE \E u \in User : SelectHere(u) \/ SelectElsewhere(u)
  BY <1>2 DEF SelectHere, SelectElsewhere
<1> QED
  BY <1>1, <1>2 DEF Others

(* Only a page of the catalogue's rows is ever counted.                      *)
LEMMA PageIsFinite ==
  ASSUME NEW n \in Nat
  PROVE  Cardinality(PageAt(n)) \in Nat
<1>1. PageAt(n) \subseteq Sku
  BY DEF PageAt, Listed
<1> QED
  BY <1>1, FS_Subset, FS_CardinalityType

-----------------------------------------------------------------------------
(* Switching the connection: it stays bound to its account, and the first    *)
(* attach finds nothing saved and nobody at work.                            *)
LEMMA AttachKeeps ==
  ASSUME OzonInv, NEW u \in User, Attach(u)
  PROVE  OzonInv'
<1> USE DEF OzonInv
<1>1. UNCHANGED <<memberVars, account, refresh, flight, rowVars, query>>
  BY DEF Attach
<1>2. CASE connection = None /\ connection' = [enabled |-> TRUE, revision |-> 1, account |-> account]
  <2>1. connection' \in Connection /\ connection' # None /\ connection'.account = account
    <3>1. 1 \in Revision /\ account \in Account
      BY DEF Revision, OzonTypeOK
    <3>2. connection' \in Connection
      BY <1>2, <3>1 DEF Connection
    <3> QED
      BY <1>2, <3>2
  <2>2. OneAccount' /\ Bound'
    BY <1>1, <1>2, <2>1 DEF OneAccount, Bound, OfProcess, rowVars
  <2> QED
    BY <1>1, <2>1, <2>2 DEF OzonTypeOK, MembersTypeOK, memberVars, rowVars, Paged
<1>3. CASE /\ connection # None /\ connection.account = account
           /\ connection.revision < MaxRevision
           /\ connection' = [connection EXCEPT !.enabled = TRUE, !.revision = @ + 1]
  <2>1. connection \in Connection /\ connection.revision + 1 \in Revision
    BY <1>3 DEF OzonTypeOK, Connection, Revision
  <2>2. connection' \in Connection /\ connection'.account = connection.account
    BY <1>3, <2>1 DEF Connection
  <2>3. OneAccount' /\ Bound'
    BY <1>1, <1>3, <2>2 DEF OneAccount, Bound, OfProcess, rowVars
  <2> QED
    BY <1>1, <2>2, <2>3 DEF OzonTypeOK, MembersTypeOK, memberVars, rowVars, Paged
<1> QED
  BY <1>2, <1>3 DEF Attach

LEMMA DisableKeeps ==
  ASSUME OzonInv, NEW u \in User, Disable(u)
  PROVE  OzonInv'
<1> USE DEF OzonInv
<1>1. /\ UNCHANGED <<memberVars, account, refresh, flight, rowVars, query>>
      /\ connection # None /\ connection.revision < MaxRevision
      /\ connection' = [connection EXCEPT !.enabled = FALSE, !.revision = @ + 1]
  BY DEF Disable
<1>2. connection \in Connection /\ connection.revision + 1 \in Revision
  BY <1>1 DEF OzonTypeOK, Connection, Revision
<1>3. connection' \in Connection /\ connection'.account = connection.account
  BY <1>1, <1>2 DEF Connection
<1>4. OneAccount' /\ Bound'
  BY <1>1, <1>3 DEF OneAccount, Bound, OfProcess, rowVars
<1> QED
  BY <1>1, <1>3, <1>4 DEF OzonTypeOK, MembersTypeOK, memberVars, rowVars, Paged

-----------------------------------------------------------------------------
(* A step of callers and flights alone keeps the rest if it keeps their      *)
(* types and lets nobody pass whom Execute would stop.                       *)
LEMMA FlightsKeep ==
  ASSUME OzonInv, UNCHANGED <<memberVars, account, connection, rowVars, query>>,
         refresh' \in [User -> Refresh], flight' \in [Key -> Flight \cup {None}], Bound'
  PROVE  OzonInv'
BY DEF OzonInv, OzonTypeOK, MembersTypeOK, memberVars, rowVars, OneAccount, Paged

(* A landing: who waited is told, and the flight is gone.                    *)
LEMMA LandKeeps ==
  ASSUME OzonInv, NEW key \in Key, NEW ok \in BOOLEAN, Land(key, ok),
         UNCHANGED <<account, connection>>
  PROVE  refresh' \in [User -> Refresh] /\ flight' \in [Key -> Flight \cup {None}] /\ Bound'
<1> USE DEF OzonInv
<1>1. flight' \in [Key -> Flight \cup {None}]
      /\ \A k \in Key : flight'[k] # None => flight[k] # None
  BY DEF Land, OzonTypeOK
<1>2. ASSUME NEW u \in User
      PROVE  refresh'[u] \in Refresh /\ (refresh'[u].at = "bound" => refresh[u].at = "bound")
  <2>1. CASE u \in Waiting(key)
    <3>1. refresh[u] \in Refresh \ {Idle}
      BY <2>1 DEF Waiting, OzonTypeOK, Idle
    <3>2. refresh'[u] = [refresh[u] EXCEPT !.at = "answered", !.ok = ok]
      BY <2>1 DEF Land
    <3> QED
      BY <3>1, <3>2 DEF Refresh
  <2>2. CASE u \notin Waiting(key)
    BY <2>2 DEF Land, OzonTypeOK
  <2> QED
    BY <2>1, <2>2
<1>3. refresh' \in [User -> Refresh]
  BY <1>2 DEF Land
<1> QED
  BY <1>1, <1>2, <1>3 DEF Bound, OfProcess

LEMMA PressKeeps ==
  ASSUME OzonInv, NEW u \in User, NEW s \in Asked, Press(u, s)
  PROVE  OzonInv'
<1> USE DEF OzonInv
<1>1. connection \in Connection
  BY DEF Press, Connected, OzonTypeOK
<1>2. refresh' \in [User -> Refresh]
  BY <1>1 DEF Press, OzonTypeOK, Refresh, Source, Connection
<1>3. Bound'
  BY DEF Press, Bound, OfProcess, OzonTypeOK
<1> QED
  BY <1>2, <1>3, FlightsKeep DEF Press, OzonTypeOK

LEMMA BindKeeps ==
  ASSUME OzonInv, NEW u \in User, Bind(u)
  PROVE  OzonInv'
<1> USE DEF OzonInv
<1>1. refresh[u] \in Refresh \ {Idle}
  BY DEF Bind, OzonTypeOK, Idle
<1>2. connection # None => connection \in Connection
  BY DEF OzonTypeOK
<1>3. refresh' \in [User -> Refresh]
  BY <1>1, <1>2 DEF Bind, GivesUp, Connected, OzonTypeOK, Refresh, Connection
<1>4. Bound'
  <2>1. CASE Connected /\ connection.account = account
    BY <2>1 DEF Bind, Bound, OfProcess, Connected
  <2>2. CASE ~(Connected /\ connection.account = account)
    BY <2>2 DEF Bind, GivesUp, Bound, OfProcess, OzonTypeOK, Idle
  <2> QED
    BY <2>1, <2>2
<1> QED
  BY <1>3, <1>4, FlightsKeep DEF Bind, OzonTypeOK

LEMMA JoinKeeps ==
  ASSUME OzonInv, NEW u \in User, Join(u)
  PROVE  OzonInv'
<1> USE DEF OzonInv
<1>1. refresh[u] \in Refresh \ {Idle} /\ OfProcess
  BY DEF Join, OzonTypeOK, Idle, Bound
<1>2. refresh' \in [User -> Refresh]
  BY <1>1 DEF Join, Becomes, OzonTypeOK, Refresh
<1>3. flight' \in [Key -> Flight \cup {None}]
  BY DEF Join, OzonTypeOK, Flight
<1>4. Bound'
  BY <1>1 DEF Join, Bound, OfProcess
<1> QED
  BY <1>2, <1>3, <1>4, FlightsKeep DEF Join

LEMMA LeavingKeeps ==
  ASSUME OzonInv, NEW u \in User, Answer(u) \/ Cancel(u)
  PROVE  OzonInv'
<1> USE DEF OzonInv
<1>1. refresh' \in [User -> Refresh]
      /\ \A v \in User : refresh'[v].at = "bound" => refresh[v].at = "bound"
  BY DEF Answer, Cancel, GivesUp, OzonTypeOK, Refresh, Idle
<1>2. flight' \in [Key -> Flight \cup {None}]
      /\ \A k \in Key : flight'[k] # None => flight[k] # None
  <2>1. CASE UNCHANGED flight
    BY <2>1 DEF OzonTypeOK
  <2>2. CASE Cancel(u)
    <3>1. ASSUME NEW k \in Key
          PROVE  /\ flight'[k] \in Flight \cup {None}
                 /\ flight'[k] # None => flight[k] # None
      <4>1. flight'[k] = IF flight[k] # None /\ flight[k].by = u
                         THEN [flight[k] EXCEPT !.stopped = TRUE] ELSE flight[k]
        BY <2>2 DEF Cancel
      <4>2. flight[k] \in Flight \cup {None}
        BY DEF OzonTypeOK
      <4>3. ASSUME NEW f \in Flight
            PROVE  [f EXCEPT !.stopped = TRUE] \in Flight
        BY DEF Flight
      <4> QED
        BY <4>1, <4>2, <4>3
    <3>2. flight' = [k \in Key |-> flight'[k]]
      BY <2>2 DEF Cancel
    <3> QED
      BY <3>1, <3>2
  <2> QED
    BY <2>1, <2>2 DEF Answer
<1>3. UNCHANGED <<memberVars, account, connection, rowVars, query>>
  BY DEF Answer, Cancel
<1> QED
  BY <1>1, <1>2, <1>3, FlightsKeep DEF Bound, OfProcess

-----------------------------------------------------------------------------
(* A flight that goes on.                                                    *)
LEMMA OnwardKeeps ==
  ASSUME OzonInv, NEW key \in Key, NEW at \in {"fetched", "saved"}, flight[key] # None,
         flight' = [flight EXCEPT ![key].at = at], UNCHANGED <<refresh, account, connection>>
  PROVE  flight' \in [Key -> Flight \cup {None}] /\ Bound'
BY DEF OzonInv, OzonTypeOK, Flight, Bound, OfProcess

LEMMA FetchKeeps ==
  ASSUME OzonInv, NEW key \in Key, Fetch(key)
  PROVE  OzonInv'
<1>1. UNCHANGED <<memberVars, account, connection, rowVars, query>> /\ flight[key] # None
  BY DEF Fetch, In
<1>2. CASE Guarded(key)
  BY <1>1, <1>2, OnwardKeeps, FlightsKeep DEF Fetch, OzonInv, OzonTypeOK
<1>3. CASE ~Guarded(key)
  BY <1>1, <1>3, LandKeeps, FlightsKeep DEF Fetch
<1> QED
  BY <1>2, <1>3

LEMMA ReadBackKeeps ==
  ASSUME OzonInv, NEW key \in Key, ReadBack(key)
  PROVE  OzonInv'
<1>1. Authorize(flight[key].by, "marketplace.read") \in BOOLEAN
  BY DEF Authorize, Can, In, ReadBack, OzonInv, OzonTypeOK, MembersTypeOK, Flight
<1> QED
  BY <1>1, LandKeeps, FlightsKeep DEF ReadBack

(* What a flight saves is of the account the row names.                      *)
LEMMA SaveKeeps ==
  ASSUME OzonInv, NEW key \in Key, Save(key)
  PROVE  OzonInv'
<1> USE DEF OzonInv
<1>1. UNCHANGED <<memberVars, account, connection, query>> /\ flight[key] # None
  BY DEF Save, In
<1>2. CASE /\ IF key[2] = "catalog" THEN SaveCatalog ELSE SaveStocks(flight[key].asked)
           /\ origin' = origin \cup {account}
           /\ flight' = [flight EXCEPT ![key].at = "saved"]
           /\ UNCHANGED refresh
  <2>1. flight' \in [Key -> Flight \cup {None}] /\ Bound'
    BY <1>1, <1>2, OnwardKeeps
  <2>2. OfProcess
    BY <1>1 DEF Bound
  <2>3. OneAccount'
    BY <1>1, <1>2, <2>2 DEF OneAccount, OfProcess
  <2>4. products' \in [Sku -> Product \cup {None}]
    BY <1>2 DEF SaveCatalog, SaveStocks, OzonTypeOK
  <2>5. current' \in [Sku -> 0 .. MaxRun] /\ latest' \in [run : 0 .. MaxRun, status : Status]
    <3>1. CASE SaveCatalog
      BY <3>1 DEF SaveCatalog, OzonTypeOK
    <3>2. CASE SaveStocks(flight[key].asked)
      <4>1. latest.run + 1 \in 0 .. MaxRun
        BY <3>2 DEF SaveStocks, OzonTypeOK
      <4> QED
        BY <3>2, <4>1 DEF SaveStocks, OzonTypeOK
    <3> QED
      BY <1>2, <3>1, <3>2
  <2>6. origin' \subseteq Account
    BY <1>2 DEF OzonTypeOK
  <2> QED
    BY <1>1, <1>2, <2>1, <2>3, <2>4, <2>5, <2>6
    DEF OzonTypeOK, MembersTypeOK, memberVars, Paged
<1>3. CASE Land(key, FALSE) /\ UNCHANGED rowVars
  BY <1>1, <1>3, LandKeeps, FlightsKeep
<1> QED
  BY <1>2, <1>3 DEF Save

-----------------------------------------------------------------------------
(* A step of the query alone.                                                *)
LEMMA QueryKeeps ==
  ASSUME OzonInv, UNCHANGED <<memberVars, account, connection, refresh, flight, rowVars>>,
         query' \in Query \cup {None}, Paged'
  PROVE  OzonInv'
BY DEF OzonInv, OzonTypeOK, MembersTypeOK, memberVars, rowVars, OneAccount, Bound, OfProcess

LEMMA AskKeeps ==
  ASSUME OzonInv, NEW u \in User, Ask(u)
  PROVE  OzonInv'
<1>1. query' \in Query
  BY DEF Ask, Query, Status
<1>2. Paged'
  BY DEF Ask, Paged
<1> QED
  BY <1>1, <1>2, QueryKeeps DEF Ask

LEMMA ReadRunKeeps ==
  ASSUME OzonInv, ReadRun
  PROVE  OzonInv'
<1>1. query \in Query
  BY DEF ReadRun, OzonInv, OzonTypeOK
<1>2. query' \in Query
  BY <1>1 DEF ReadRun, Query, OzonInv, OzonTypeOK
<1>3. Paged'
  BY <1>1 DEF ReadRun, Query, OzonInv, Paged
<1> QED
  BY <1>2, <1>3, QueryKeeps DEF ReadRun

(* A page is joined to what went before only if both are of one run.         *)
LEMMA ReadRowsKeeps ==
  ASSUME OzonInv, ReadRows
  PROVE  OzonInv'
<1> DEFINE next == query.offset + Cardinality(PageAt(query.offset))
<1>1. query \in Query /\ query # None /\ query.at = "rows"
  BY DEF ReadRows, ReadRowsOf, OzonInv, OzonTypeOK
<1>2. Confirmed \subseteq Sku \X (0 .. MaxRun) /\ \A r \in Confirmed : r[2] = query.seen
  <2>1. \A k \in Sku : current[k] \in 0 .. MaxRun
    BY DEF OzonInv, OzonTypeOK
  <2>2. \A r \in Confirmed : \E k \in Sku : r = <<k, current[k]>> /\ current[k] = query.seen
    BY DEF Confirmed, PageAt, Listed
  <2> QED
    BY <2>1, <2>2
<1>3. /\ query.offset = 0 => query.rows = {}
      /\ \A r \in query.rows : r[2] = query.run
  BY <1>1 DEF OzonInv, Paged
<1>4. next \in Nat /\ next >= query.offset
  <2>1. query.offset \in Nat
    BY <1>1 DEF Query
  <2> QED
    BY <2>1, PageIsFinite
<1>5. CASE \E status \in Status, rows \in {{}, query.rows} :
             /\ rows = {} \/ query.offset = 0 \/ query.run = query.seen
             /\ Ends(status, rows)
  <2>1. PICK status \in Status, rows \in {{}, query.rows} :
             /\ rows = {} \/ query.offset = 0 \/ query.run = query.seen
             /\ Ends(status, rows)
    BY <1>5
  <2>2. query' \in Query
    BY <1>1, <2>1 DEF Ends, Query
  <2>3. query'.at = "answered" /\ query'.rows = rows /\ query'.seen = query.seen
    BY <1>1, <2>1 DEF Ends, Query
  <2>4. Paged'
    BY <1>3, <2>1, <2>3 DEF Paged
  <2> QED
    BY <2>2, <2>4, QueryKeeps DEF ReadRows, ReadRowsOf
<1>6. ASSUME query.offset = 0 \/ query.run = query.seen
      PROVE  /\ query.rows \cup Confirmed \subseteq Sku \X (0 .. MaxRun)
             /\ \A r \in query.rows \cup Confirmed : r[2] = query.seen
  BY <1>1, <1>2, <1>3, <1>6 DEF Query
<1>7. CASE /\ query.offset = 0 \/ query.run = query.seen
           /\ Ends(query.status, query.rows \cup Confirmed)
  <2>1. query' \in Query
    BY <1>1, <1>6, <1>7 DEF Ends, Query
  <2>2. query'.at = "answered" /\ query'.rows = query.rows \cup Confirmed
        /\ query'.seen = query.seen
    BY <1>1, <1>7 DEF Ends, Query
  <2>3. Paged'
    BY <1>6, <1>7, <2>2 DEF Paged
  <2> QED
    BY <2>1, <2>3, QueryKeeps DEF ReadRows, ReadRowsOf
<1>8. CASE /\ query.offset = 0 \/ query.run = query.seen
           /\ next # query.offset
           /\ query' = [query EXCEPT !.at = "page", !.offset = next, !.run = query.seen,
                                     !.rows = @ \cup Confirmed]
  <2>1. query' \in Query
    BY <1>1, <1>4, <1>6, <1>8 DEF Query
  <2>2. /\ query'.at = "page" /\ query'.offset = next /\ query'.run = query.seen
        /\ query'.rows = query.rows \cup Confirmed
    BY <1>1, <1>8 DEF Query
  <2>3. next # 0
    BY <1>1, <1>4, <1>8 DEF Query
  <2>4. Paged'
    BY <1>6, <1>8, <2>2, <2>3 DEF Paged
  <2> QED
    BY <2>1, <2>4, QueryKeeps DEF ReadRows, ReadRowsOf
<1>9. query.status \in Status /\ query.offset \in Nat
  BY <1>1 DEF Query
<1>10. \/ Ends("FAILED", {}) \/ Ends("PARTIAL", {})
       \/ /\ query.offset = 0 \/ query.run = query.seen
          /\ \/ Ends(query.status, query.rows \cup Confirmed)
             \/ Ends("PARTIAL", query.rows)
             \/ /\ next # query.offset
                /\ query' = [query EXCEPT !.at = "page", !.offset = next, !.run = query.seen,
                                          !.rows = @ \cup Confirmed]
  BY <1>9 DEF ReadRows, ReadRowsOf
<1> QED
  BY <1>5, <1>7, <1>8, <1>10 DEF Status

-----------------------------------------------------------------------------
LEMMA RestartKeeps ==
  ASSUME OzonInv, Restart
  PROVE  OzonInv'
<1>1. OzonTypeOK'
  BY DEF Restart, OzonInv, OzonTypeOK, MembersTypeOK, memberVars, rowVars, Refresh
<1>2. OneAccount' /\ Paged'
  BY DEF Restart, OzonInv, OneAccount, Paged, rowVars
<1>3. Bound'
  BY DEF Restart, Bound, Idle
<1> QED
  BY <1>1, <1>2, <1>3 DEF OzonInv

LEMMA OzonStart ==
  ASSUME OzonInit
  PROVE  OzonInv
<1>1. MembersTypeOK
  BY GivenRoleAssumption DEF OzonInit, MembersInit, MembersTypeOK, MemberRole, Assignable
<1>2. OzonTypeOK
  BY <1>1 DEF OzonInit, OzonTypeOK, Refresh, Status
<1>3. Bound /\ OneAccount /\ Paged
  BY DEF OzonInit, Bound, OneAccount, Paged, Idle
<1> QED
  BY <1>2, <1>3 DEF OzonInv

(* Every step keeps the invariant.                                           *)
LEMMA OzonStep ==
  ASSUME OzonInv, [OzonNext]_ozonVars
  PROVE  OzonInv'
<1>1. CASE UNCHANGED ozonVars
  BY <1>1 DEF ozonVars, memberVars, rowVars, OzonInv, OzonTypeOK, MembersTypeOK, Bound,
              OfProcess, OneAccount, Paged
<1>2. ASSUME NEW u \in User, Attach(u) \/ Disable(u)
      PROVE  OzonInv'
  BY <1>2, AttachKeeps, DisableKeeps
<1>3. ASSUME NEW u \in User, (\E s \in Asked : Press(u, s)) \/ Bind(u) \/ Join(u)
      PROVE  OzonInv'
  BY <1>3, PressKeeps, BindKeeps, JoinKeeps
<1>4. ASSUME NEW u \in User, Answer(u) \/ Cancel(u) \/ Ask(u)
      PROVE  OzonInv'
  BY <1>4, LeavingKeeps, AskKeeps
<1>5. ASSUME NEW key \in Key, Fly(key)
      PROVE  OzonInv'
  BY <1>5, FetchKeeps, SaveKeeps, ReadBackKeeps DEF Fly
<1>6. CASE ReadRun \/ ReadRows
  BY <1>6, ReadRunKeeps, ReadRowsKeeps
<1>7. CASE Answered
  BY <1>7, QueryKeeps DEF Answered, Paged
<1>8. CASE Restart
  BY <1>8, RestartKeeps
<1>9. CASE Others
  <2>1. MembersTypeOK'
    BY <1>9, MembersKeepType DEF OzonInv, OzonTypeOK
  <2> QED
    BY <1>9, <2>1 DEF Others, rowVars, OzonInv, OzonTypeOK, Bound, OfProcess, OneAccount,
                      Paged
<1> QED
  BY <1>1, <1>2, <1>3, <1>4, <1>5, <1>6, <1>7, <1>8, <1>9 DEF OzonNext

THEOREM OzonInvariance == OzonSpec => []OzonInv
<1>1. OzonInit => OzonInv
  BY OzonStart
<1>2. OzonInv /\ [OzonNext]_ozonVars => OzonInv'
  BY OzonStep
<1> QED
  BY <1>1, <1>2, PTL DEF OzonSpec

(* Whatever account the process is started with, whoever refreshes, and      *)
(* however often the connection is switched: everything saved is of the      *)
(* account the connection is bound to (Service.bound, save).                 *)
THEOREM AccountsNeverMixed == OzonSpec => []OneAccount
<1>1. OzonInv => OneAccount
  BY DEF OzonInv
<1> QED
  BY <1>1, OzonInvariance, PTL

(* However the refreshes fall between the pages of a query, and between the  *)
(* run and the rows of a page, an answer confirms rows of one run (QueryCall). *)
THEOREM QueriesOfOneRun == OzonSpec => []ConfirmedOfOneRun
<1>1. OzonInv => ConfirmedOfOneRun
  BY DEF OzonInv, Paged, ConfirmedOfOneRun
<1> QED
  BY <1>1, OzonInvariance, PTL

(* Connection, flights and rows have their types, and everything ever saved  *)
(* for the workshop is of the account of its connection (bound, save).       *)
THEOREM SavedRowsAgree == OzonSpec => []SavedOfOneAccount
<1>1. OzonInv => SavedOfOneAccount
  BY DEF OzonInv, SavedOfOneAccount
<1> QED
  BY <1>1, OzonInvariance, PTL
=============================================================================
