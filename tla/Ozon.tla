-------------------------------- MODULE Ozon --------------------------------
(***************************************************************************)
(* The Ozon connection of a workshop (internal/marketplace/ozon): refreshes *)
(* that several members may ask for at once and that share one flight,      *)
(* while the connection is switched off and on, members lose the role, turn *)
(* to another workshop or give up waiting, and the process restarts with    *)
(* another account; and the queries that read what is saved page by page.   *)
(***************************************************************************)
EXTENDS Members, Naturals, FiniteSets

CONSTANTS
  Account,       \* values of OZON_CLIENT_ID a process may be started with
  Product, Sku,  \* products of the catalogue, and their SKUs, which are ordered
  Asked,         \* the sources members of the instance refresh
  MaxRevision,   \* bound of the instance on the connection's revision
  MaxRun,        \* bound of the instance on the runs of the seller's stocks
  None           \* no row, no product, nobody

ASSUME OzonAssumption ==
  /\ Sku \subseteq Nat /\ IsFiniteSet(Sku)
  /\ MaxRevision \in Nat \ {0} /\ MaxRun \in Nat
  /\ Asked \subseteq {"catalog", "seller"}
  /\ None \notin Account \cup Product

VARIABLES
  account,     \* the client id of this process
  connection,  \* row 2 of marketplace_connections
  refresh,     \* who waits for Execute, and what came of it
  flight,      \* Service.flights
  products,    \* marketplace_catalog_skus: the product of each SKU
  current,     \* marketplace_stock_current: the run that wrote each row
  latest,      \* the last of marketplace_source_runs of the seller's stocks
  origin,      \* the accounts from which anything was ever saved
  query        \* a QueryCall in progress

ozonVars == <<memberVars, account, connection, refresh, flight, products, current,
              latest, origin, query>>
rowVars == <<products, current, latest, origin>>

Source == {"catalog", "seller"}
Revision == 1 .. MaxRevision
Connection == [enabled : BOOLEAN, revision : Revision, account : Account]
ASSUME NoneAssumption == None \notin Connection
Key == Revision \X Source
Status == {"SUCCESS", "PARTIAL", "FAILED", "UNAVAILABLE"}
Idle == [at |-> "idle"]
Refresh == {Idle} \cup
  [at : {"pressed", "bound", "waiting", "answered"}, source : Source,
   seen : Revision, revision : Revision, ok : BOOLEAN]
Flight == [at : {"fetching", "fetched", "saved"}, by : User, stopped : BOOLEAN,
           asked : SUBSET Sku]
Query == [at : {"page", "rows", "answered"}, by : User, offset : Nat, run : 0 .. MaxRun,
          seen : 0 .. MaxRun, status : Status, rows : SUBSET (Sku \X (0 .. MaxRun))]

OzonTypeOK ==
  /\ MembersTypeOK
  /\ account \in Account
  /\ connection \in Connection \cup {None}
  /\ refresh \in [User -> Refresh]
  /\ flight \in [Key -> Flight \cup {None}]
  /\ products \in [Sku -> Product \cup {None}]
  /\ current \in [Sku -> 0 .. MaxRun]
  /\ latest \in [run : 0 .. MaxRun, status : Status]
  /\ origin \subseteq Account
  /\ query \in Query \cup {None}

-----------------------------------------------------------------------------
\* authorized and resolved.
Authorize(u, p) == Can(u, p) /\ here[u]
Connected == connection # None /\ connection.enabled

\* Attach: the first attach binds the account of the process; later ones need the
\* same account, and switch the connection on under a new revision.
Attach(u) ==
  /\ Authorize(u, "marketplace.manage")
  /\ \/ /\ connection = None
        /\ connection' = [enabled |-> TRUE, revision |-> 1, account |-> account]
     \/ /\ connection # None /\ ~connection.enabled
        /\ connection.account = account /\ connection.revision < MaxRevision
        /\ connection' = [connection EXCEPT !.enabled = TRUE, !.revision = @ + 1]
  /\ UNCHANGED <<memberVars, account, refresh, flight, rowVars, query>>

Disable(u) ==
  /\ Authorize(u, "marketplace.manage")
  /\ connection # None /\ connection.revision < MaxRevision
  /\ connection' = [connection EXCEPT !.enabled = FALSE, !.revision = @ + 1]
  /\ UNCHANGED <<memberVars, account, refresh, flight, rowVars, query>>

\* guard: of the access and the context a request carries.
InForce(u, revision) == /\ Authorize(u, "marketplace.read") /\ Connected
                        /\ connection.revision = revision

-----------------------------------------------------------------------------
(* A refresh, from the button to the answer.                                 *)
Becomes(u, at) == refresh' = [refresh EXCEPT ![u].at = at]
GivesUp(u) == refresh' = [refresh EXCEPT ![u] = Idle]

\* ozonButton: the revision of the screen is kept for the answer.
Press(u, s) ==
  /\ refresh[u] = Idle
  /\ Authorize(u, "marketplace.read") /\ Connected
  /\ refresh' = [refresh EXCEPT ![u] =
       [at |-> "pressed", source |-> s, seen |-> connection.revision,
        revision |-> connection.revision, ok |-> FALSE]]
  /\ UNCHANGED <<memberVars, account, connection, flight, rowVars, query>>

\* Execute, reached by the one-use grant: the account of the process must be the one
\* the row is bound to.  Variant TLC must refute: any account of the process will do.
BindAny(u) ==
  /\ refresh[u].at = "pressed"
  /\ IF Authorize(u, "marketplace.read") /\ Connected
     THEN refresh' = [refresh EXCEPT ![u].at = "bound", ![u].revision = connection.revision]
     ELSE GivesUp(u)
  /\ UNCHANGED <<memberVars, account, connection, flight, rowVars, query>>
Bind(u) ==
  /\ refresh[u].at = "pressed"
  /\ IF Authorize(u, "marketplace.read") /\ Connected /\ connection.account = account
     THEN refresh' = [refresh EXCEPT ![u].at = "bound", ![u].revision = connection.revision]
     ELSE GivesUp(u)
  /\ UNCHANGED <<memberVars, account, connection, flight, rowVars, query>>

\* DoChan: whoever comes first flies, with its own access and context; the SKUs the
\* flight will ask for are the ones of the catalogue now.
KeyOf(u) == <<refresh[u].revision, refresh[u].source>>
Join(u) ==
  /\ refresh[u].at = "bound" /\ Becomes(u, "waiting")
  /\ flight' = IF flight[KeyOf(u)] # None THEN flight
               ELSE [flight EXCEPT ![KeyOf(u)] =
                      [at |-> "fetching", by |-> u, stopped |-> FALSE,
                       asked |-> {k \in Sku : products[k] # None}]]
  /\ UNCHANGED <<memberVars, account, connection, rowVars, query>>

\* The function of the flight returns: everyone who waits for it hears.
Waiting(key) == {u \in User : refresh[u].at = "waiting" /\ KeyOf(u) = key}
LandAlone(key, ok) ==
  /\ flight' = [flight EXCEPT ![key] = None]
  /\ refresh' = [u \in User |->
       IF u \in Waiting(key) /\ u = flight[key].by
       THEN [refresh[u] EXCEPT !.at = "answered", !.ok = ok] ELSE refresh[u]]
Land(key, ok) ==
  /\ flight' = [flight EXCEPT ![key] = None]
  /\ refresh' = [u \in User |-> IF u \in Waiting(key)
                                THEN [refresh[u] EXCEPT !.at = "answered", !.ok = ok]
                                ELSE refresh[u]]
Guarded(key) == ~flight[key].stopped /\ InForce(flight[key].by, key[1])
In(key, at) == flight[key] # None /\ flight[key].at = at

\* Client.Fetch, whose every request is guarded before and after, and the guard
\* after it.
Fetch(key) ==
  /\ In(key, "fetching")
  /\ IF Guarded(key) THEN /\ flight' = [flight EXCEPT ![key].at = "fetched"]
                          /\ UNCHANGED refresh
     ELSE Land(key, FALSE)
  /\ UNCHANGED <<memberVars, account, connection, rowVars, query>>

\* catalog: a product brings its SKUs; one that belongs to another product is refused.
SaveCatalog ==
  /\ \E found \in [Sku -> Product \cup {None}] :
       products' = [k \in Sku |-> IF products[k] = None THEN found[k] ELSE products[k]]
  /\ UNCHANGED <<current, latest>>

\* seller and fbo: the rows that came are of this run, the others stay as they are.
SaveStocks(asked) ==
  /\ latest.run < MaxRun
  /\ \E status \in Status, rows \in SUBSET asked :
       /\ status = "UNAVAILABLE" <=> asked = {}
       /\ latest' = [run |-> latest.run + 1, status |-> status]
       /\ current' = [k \in Sku |-> IF k \in rows THEN latest.run + 1 ELSE current[k]]
  /\ UNCHANGED products

\* save: the scope is read again in the transaction; an error of the storage loses all.
Save(key) ==
  /\ In(key, "fetched")
  /\ \/ /\ Guarded(key)
        /\ IF key[2] = "catalog" THEN SaveCatalog ELSE SaveStocks(flight[key].asked)
        /\ origin' = origin \cup {account}
        /\ flight' = [flight EXCEPT ![key].at = "saved"]
        /\ UNCHANGED refresh
     \/ Land(key, FALSE) /\ UNCHANGED rowVars
  /\ UNCHANGED <<memberVars, account, connection, query>>

\* cached, for the leader: a switch-off is no obstacle here.
ReadBack(key) ==
  /\ In(key, "saved")
  /\ Land(key, Authorize(flight[key].by, "marketplace.read"))
  /\ UNCHANGED <<memberVars, account, connection, rowVars, query>>

\* The guard of each who waited, and the check of the button's revision: the answer,
\* or the news of a failure, is shown to a member of the same connection only.
Answer(u) ==
  /\ refresh[u].at = "answered" /\ GivesUp(u)
  /\ UNCHANGED <<memberVars, account, connection, flight, rowVars, query>>

\* The context of a caller ends: after three minutes, or with the request it is for.
\* The flight it leads goes on without a context, until its next step.
Cancel(u) ==
  /\ refresh[u] # Idle /\ GivesUp(u)
  /\ flight' = [key \in Key |-> IF flight[key] # None /\ flight[key].by = u
                                THEN [flight[key] EXCEPT !.stopped = TRUE] ELSE flight[key]]
  /\ UNCHANGED <<memberVars, account, connection, rowVars, query>>

-----------------------------------------------------------------------------
(* QueryCall: the saved rows of the seller's stocks, page after page; a page *)
(* holds one row here.  cached reads the last run and the rows apart.        *)
Ask(u) ==
  /\ query = None
  /\ Authorize(u, "marketplace.read") /\ Connected
  /\ query' = [at |-> "page", by |-> u, offset |-> 0, run |-> 0, seen |-> 0,
               status |-> "UNAVAILABLE", rows |-> {}]
  /\ UNCHANGED <<memberVars, account, connection, refresh, flight, rowVars>>

ReadRun ==
  /\ query # None /\ query.at = "page"
  /\ query' = [query EXCEPT !.at = "rows", !.seen = latest.run, !.status = latest.status]
  /\ UNCHANGED <<memberVars, account, connection, refresh, flight, rowVars>>

\* The rows of the page, of which the ones of the run are observed and confirmed.
Listed == {k \in Sku : current[k] > 0}
PageAt(offset) == {k \in Listed : Cardinality({j \in Listed : j < k}) = offset}
Confirmed == {<<k, current[k]>> : k \in {k \in PageAt(query.offset) : current[k] = query.seen}}
Ends(status, rows) ==
  query' = [query EXCEPT !.at = "answered", !.status = status, !.rows = rows]

ReadRowsOf(sameRun) ==
  /\ query # None /\ query.at = "rows"
  /\ LET next == query.offset + Cardinality(PageAt(query.offset)) IN
     IF ~Authorize(query.by, "marketplace.read") THEN Ends("FAILED", {})
     ELSE IF query.offset > 0 /\ ~sameRun THEN Ends("PARTIAL", {})
     ELSE IF next >= Cardinality(Listed) THEN Ends(query.status, query.rows \cup Confirmed)
     ELSE IF next = query.offset THEN Ends("PARTIAL", query.rows)
     ELSE query' = [query EXCEPT !.at = "page", !.offset = next, !.run = query.seen,
                                 !.rows = @ \cup Confirmed]
  /\ UNCHANGED <<memberVars, account, connection, refresh, flight, rowVars>>
ReadRowsOfAny == ReadRowsOf(TRUE)
ReadRows == ReadRowsOf(query.run = query.seen)

Answered ==
  /\ query # None /\ query.at = "answered" /\ query' = None
  /\ UNCHANGED <<memberVars, account, connection, refresh, flight, rowVars>>

-----------------------------------------------------------------------------
Restart ==
  /\ account' \in Account
  /\ refresh' = [u \in User |-> Idle] /\ flight' = [key \in Key |-> None]
  /\ query' = None
  /\ UNCHANGED <<memberVars, connection, rowVars>>

Others ==
  /\ MemberStep \/ \E u \in User : SelectHere(u) \/ SelectElsewhere(u)
  /\ UNCHANGED <<account, connection, refresh, flight, rowVars, query>>

OzonInit ==
  /\ MembersInit(CHOOSE u \in User : TRUE)
  /\ account \in Account /\ connection = None
  /\ refresh = [u \in User |-> Idle] /\ flight = [key \in Key |-> None]
  /\ products = [k \in Sku |-> None] /\ current = [k \in Sku |-> 0]
  /\ latest = [run |-> 0, status |-> "UNAVAILABLE"]
  /\ origin = {} /\ query = None

Fly(key) == Fetch(key) \/ Save(key) \/ ReadBack(key)
OzonNext ==
  \/ \E u \in User :
       \/ Attach(u) \/ Disable(u)
       \/ \E s \in Asked : Press(u, s)
       \/ Bind(u) \/ Join(u) \/ Answer(u) \/ Cancel(u) \/ Ask(u)
  \/ \E key \in Key : Fly(key)
  \/ ReadRun \/ ReadRows \/ Answered
  \/ Restart \/ Others

OzonSpec == OzonInit /\ [][OzonNext]_ozonVars

\* Every request ends, by its timeout of 30 seconds at the latest, so the goroutine of
\* a caller goes on, and so does the flight it waits for.
Served(u) ==
  \/ Bind(u) \/ Join(u) \/ Answer(u)
  \/ refresh[u].at = "waiting" /\ Fly(KeyOf(u))
OzonFairSpec == OzonSpec /\ \A u \in User : WF_ozonVars(Served(u))

-----------------------------------------------------------------------------
(* Everything ever saved for the workshop is of the account its connection  *)
(* is bound to, whichever accounts the process was started with.            *)
OneAccount == origin \subseteq IF connection = None THEN {} ELSE {connection.account}

(* Connection, flights and rows have their types, and everything ever saved  *)
(* for the workshop is of the one account its connection is bound to,        *)
(* whichever accounts the process was started with (Service.bound, save).    *)
SavedOfOneAccount == OzonTypeOK /\ OneAccount

(* A query answers with rows of the one run it reports: rows that a refresh *)
(* wrote between two of its pages, or between the run and the rows of one   *)
(* page, never pass for observations of that run.                           *)
ConfirmedOfOneRun ==
  query # None /\ query.at = "answered" => \A r \in query.rows : r[2] = query.seen

(* Whoever asks for a refresh hears what came of it, though the flight may  *)
(* be led by another who gives up, loses the role or turns away meanwhile,  *)
(* and whatever becomes of the connection.                                  *)
RefreshAnswered == \A u \in User : refresh[u] # Idle ~> refresh[u] = Idle
=============================================================================
