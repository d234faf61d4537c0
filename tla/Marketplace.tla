---------------------------- MODULE Marketplace ----------------------------
(***************************************************************************)
(* The Wildberries connection of a workshop and the synchronisation of its *)
(* data (internal/marketplace, with the client and the MCP tools it calls  *)
(* as the source of answers).  A sync is one goroutine that reads and      *)
(* writes the database in separate transactions with requests to WB in     *)
(* between, during which the connection may be switched off and on, the    *)
(* member may lose the role or turn to another workshop, and the process   *)
(* may die and come back with another token.                               *)
(***************************************************************************)
EXTENDS Members, Naturals, Sequences

CONSTANTS
  Token,         \* values of WB_API_TOKEN a process may be started with
  Seller,        \* WB cabinets
  SellerOf,      \* whose token it is
  Variant,       \* sizes of cards (chrtID)
  Barcode,       \* barcodes of variants
  NoBarcode,     \* a mapping of the whole variant
  Position,      \* a variant in a warehouse
  Order,         \* order ids
  Command,       \* the kinds of Start the instance uses
  MaxRevision,   \* bound of the instance on the connection's revision
  None           \* no row, no job, no seller

ASSUME MarketAssumption ==
  /\ SellerOf \in [Token -> Seller]
  /\ NoBarcode \notin Barcode
  /\ MaxRevision \in Nat \ {0}
  /\ Command \subseteq {"check", "stocks", "all", "catalog", "seller_stocks",
                        "wb_stocks", "orders", "read"}
  /\ None \notin Token \cup Seller \cup {"failed", "cancelled"}

VARIABLES
  token,       \* the token of this process
  connection,  \* the one row of marketplace_connections
  sync,        \* the state of each row of marketplace_sync
  variants,    \* marketplace_variants, with the barcodes of each
  mapping,     \* the status of each row of marketplace_mappings
  stock,       \* the positions of marketplace_stocks
  orders,      \* the ids of marketplace_orders
  origin,      \* the cabinets from which anything was ever saved
  work         \* Service.job and its goroutine

marketVars == <<memberVars, token, connection, sync, variants, mapping, stock,
                orders, origin, work>>
dataVars == <<variants, mapping, stock, orders, origin>>

StockKind == {"seller_stocks", "wb_stocks"}
Kind == {"check", "catalog", "orders"} \cup StockKind
State == {"none", "running", "succeeded", "partial", "failed", "cancelled"}
Ended == {"succeeded", "partial", "failed", "cancelled"}
Connection == [enabled : BOOLEAN, revision : 1 .. MaxRevision,
               seller : Seller \cup {None}, print : Token \cup {None}]
MappingKey == Variant \X (Barcode \cup {NoBarcode})

\* What a fetch ended with: everything, some rows and an error, an error, a
\* cancelled context with or without rows, or a save that could not be stored.
Result == {"ok", "part", "failed", "cancelled", "unsaved"}
Work == [at : {"identity", "asking", "identified", "next", "checking", "fetching",
               "saving", "reading", "over"},
         user : User, revision : 1 .. MaxRevision, command : Command,
         todo : Seq(Kind), result : Result \cup {None}, kept : {None, "failed", "cancelled"},
         rows : BOOLEAN, cancelled : BOOLEAN, last : BOOLEAN]
ASSUME NoneAssumption == None \notin Connection \cup Work

MarketTypeOK ==
  /\ MembersTypeOK
  /\ token \in Token
  /\ connection \in Connection \cup {None}
  /\ sync \in [Kind -> State]
  /\ variants \in [Variant -> [present : BOOLEAN, barcodes : SUBSET Barcode]]
  /\ mapping \in [MappingKey -> {"none", "active", "missing"}]
  /\ stock \in [StockKind -> SUBSET Position]
  /\ orders \subseteq Order
  /\ origin \subseteq Seller
  /\ work \in Work \cup {None}

-----------------------------------------------------------------------------
\* authorize and connection, the head of every transaction and of the guard.
Authorize(u, p) == Can(u, p) /\ here[u]
Connected == connection # None /\ connection.enabled
InScope == /\ Authorize(work.user, "marketplace.read") /\ Connected
           /\ connection.revision = work.revision

\* CachedIdentity: the seller of the row is the one this very token was checked for.
\* Variant TLC must refute: any seller the row has will do.
IdentityKnown == connection.seller # None
IdentityValid == connection.seller # None /\ connection.print = token

KindsOf(command) ==
  CASE command = "stocks" -> <<"seller_stocks", "wb_stocks">>
    [] command = "all" -> <<"catalog", "seller_stocks", "wb_stocks", "orders">>
    [] command \in {"check", "read"} -> <<>>
    [] OTHER -> <<command>>
At(at) == work # None /\ work.at = at
Go(at) == work' = [work EXCEPT !.at = at]
Record(kind, state) == sync' = [sync EXCEPT ![kind] = state]

\* Attach: the row is created, or switched on again under a new revision.  A
\* connection of another workshop is refused; this model has the workshop's own.
Attach(u) ==
  /\ Authorize(u, "marketplace.manage")
  /\ \/ /\ connection = None
        /\ connection' = [enabled |-> TRUE, revision |-> 1, seller |-> None, print |-> None]
     \/ /\ connection # None /\ ~connection.enabled
        /\ connection.revision < MaxRevision
        /\ connection' = [connection EXCEPT !.enabled = TRUE, !.revision = @ + 1]
  /\ UNCHANGED <<memberVars, token, sync, dataVars, work>>

\* Disable: the row is switched off in a transaction, then the job is cancelled.
Disable(u) ==
  /\ Authorize(u, "marketplace.manage")
  /\ connection # None /\ connection.revision < MaxRevision
  /\ connection' = [connection EXCEPT !.enabled = FALSE, !.revision = @ + 1]
  /\ work' = IF work = None THEN None ELSE [work EXCEPT !.cancelled = TRUE]
  /\ UNCHANGED <<memberVars, token, sync, dataVars>>

\* Start and MCPRead: one job of the process at a time; a read needs a seller.
Start(u, command) ==
  /\ Authorize(u, "marketplace.read") /\ Connected /\ work = None
  /\ command = "read" => connection.seller # None
  /\ work' = [at |-> CASE command = "read" -> "reading"
                       [] command = "check" \/ ~IdentityValid -> "identity"
                       [] OTHER -> "next",
              user |-> u, revision |-> connection.revision, command |-> command,
              todo |-> KindsOf(command), result |-> None, kept |-> None,
              rows |-> FALSE, cancelled |-> FALSE, last |-> FALSE]
  /\ UNCHANGED <<memberVars, token, connection, sync, dataVars>>

\* MCPRead: whatever the tools answer, nothing of it is stored here.
Read == At("reading") /\ Go("over")
        /\ UNCHANGED <<memberVars, token, connection, sync, dataVars>>

StateOf(result, rows) ==
  CASE result = "ok" -> "succeeded"
    [] result = "cancelled" -> "cancelled"
    [] OTHER -> IF rows THEN "partial" ELSE "failed"

-----------------------------------------------------------------------------
(* Service.identity: who the token belongs to.                               *)
\* kept is the error every kind of the job will carry as its dependency.
AfterIdentity(error) ==
  work' = [work EXCEPT !.at = IF work.todo = <<>> THEN "over" ELSE "next",
                       !.result = None, !.kept = error]
IdentityBegin ==
  /\ At("identity")
  /\ IF InScope THEN Record("check", "running") /\ Go("asking")
     ELSE AfterIdentity("cancelled") /\ UNCHANGED sync
  /\ UNCHANGED <<memberVars, token, connection, dataVars>>

\* Client.Seller with SaveSeller: a seller already recorded is never replaced.
SellerAccepted == Connected /\ connection.seller \in {None, SellerOf[token]}
SellerAnswers ==
  /\ At("asking")
  /\ \/ /\ ~work.cancelled /\ SellerAccepted
        /\ connection' = [connection EXCEPT !.seller = SellerOf[token], !.print = token]
        /\ work' = [work EXCEPT !.at = "identified", !.result = "ok"]
     \/ /\ work' = [work EXCEPT !.at = "identified",
                      !.result = IF work.cancelled THEN "cancelled" ELSE "failed"]
        /\ UNCHANGED connection
  /\ UNCHANGED <<memberVars, token, sync, dataVars>>
IdentityFinish ==
  /\ At("identified")
  /\ Record("check", IF ~InScope THEN "cancelled" ELSE StateOf(work.result, FALSE))
  /\ connection' = IF InScope /\ work.result = "ok"
                   THEN [connection EXCEPT !.seller = SellerOf[token]] ELSE connection
  /\ AfterIdentity(IF ~InScope THEN "cancelled"
                   ELSE IF work.result = "ok" THEN None ELSE work.result)
  /\ UNCHANGED <<memberVars, token, dataVars>>

-----------------------------------------------------------------------------
(* The kinds of the job, one after another.                                  *)
TheKind == Head(work.todo)

BeginRun ==
  /\ At("next")
  /\ IF InScope
     THEN /\ Record(TheKind, "running")
          /\ work' = [work EXCEPT !.at = IF work.kept = None THEN "checking" ELSE "saving",
                                  !.result = work.kept]
     ELSE Go("over") /\ UNCHANGED sync
  /\ UNCHANGED <<memberVars, token, connection, dataVars>>

\* The check before the first request; a refusal is recorded and ends the job.
Check ==
  /\ At("checking")
  /\ work' = IF InScope THEN [work EXCEPT !.at = "fetching"]
             ELSE [work EXCEPT !.at = "saving", !.result = "cancelled", !.last = TRUE]
  /\ UNCHANGED <<memberVars, token, connection, sync, dataVars>>

\* The requests of a kind, page by page and chunk by chunk, with the guard before each.
FetchWith(results) ==
  /\ \E result \in results :
       work' = [work EXCEPT !.at = "saving", !.rows = result # "failed",
                   !.result = IF work.cancelled THEN "cancelled" ELSE result]
  /\ UNCHANGED <<memberVars, token, connection, sync, dataVars>>
Fetching(kind) == At("fetching") /\ TheKind = kind

\* Catalog: the pages before a failed one, or before a cursor seen already, are kept.
FetchCatalog == Fetching("catalog") /\ FetchWith({"ok", "part", "failed"})

\* EnsureSeller, before a stock source is asked: the token is the one the row was
\* checked for.
SourceIdentified == Connected /\ IdentityValid

\* SellerStockBatch and NewStockBatch: what the warehouses and chunks before a failed
\* one answered, without the records that are refused.
BatchAnswer == {"ok", "part", "failed"}
FetchSellerStocks ==
  /\ Fetching("seller_stocks")
  /\ FetchWith(IF SourceIdentified THEN BatchAnswer ELSE {"failed"})

\* WBStocks through Stocks of the MCP client: all pages or nothing.
WBStocksAnswer == {"ok", "failed"}
FetchWBStocks ==
  /\ Fetching("wb_stocks")
  /\ FetchWith(IF SourceIdentified THEN WBStocksAnswer ELSE {"failed"})

\* loadOrders: the new orders in one answer, then the statuses of all known ones in
\* chunks; the chunks before a failed one are kept.
NewOrdersAnswer == {"ok", "failed"}
StatusesAnswer == {"ok", "part", "failed"}
FetchOrders ==
  /\ Fetching("orders")
  /\ \E first \in NewOrdersAnswer :
       FetchWith(IF first = "ok" THEN StatusesAnswer ELSE {"failed"})

\* saveCards: the variants of the answer are present with the answer's barcodes, the
\* others are not, and every mapping follows.
Listed(v, b, rows) == rows[v].present /\ b \in rows[v].barcodes \cup {NoBarcode}
SaveVariantsOnly(cards) ==
  /\ variants' = [v \in Variant |->
       IF v \in DOMAIN cards THEN [present |-> TRUE, barcodes |-> cards[v]]
       ELSE [variants[v] EXCEPT !.present = FALSE]]
  /\ UNCHANGED mapping
SaveCards(cards) ==
  LET rows == [v \in Variant |->
        IF v \in DOMAIN cards THEN [present |-> TRUE, barcodes |-> cards[v]]
        ELSE [variants[v] EXCEPT !.present = FALSE]] IN
  /\ variants' = rows
  /\ mapping' = [k \in MappingKey |->
       IF mapping[k] = "none" THEN "none"
       ELSE IF Listed(k[1], k[2], rows) THEN "active" ELSE "missing"]

\* saveOrders and SaveStockBatch add to what is there or refresh it.
SaveOrders == \E o \in SUBSET Order : orders' = orders \cup o
SaveStockBatch(kind, all) ==
  \E p \in SUBSET Position : stock' = [stock EXCEPT ![kind] = @ \cup IF all THEN Position ELSE p]

\* The data of the kind, all of it from the cabinet of this process's token.
Save(kind, all) ==
  /\ origin' = origin \cup {SellerOf[token]}
  /\ \/ /\ kind = "catalog"
        /\ \E some \in SUBSET Variant : \E cards \in [some -> SUBSET Barcode] :
             SaveCards(cards)
        /\ UNCHANGED <<stock, orders>>
     \/ /\ kind \in StockKind
        /\ SaveStockBatch(kind, all) /\ UNCHANGED <<variants, mapping, orders>>
     \/ /\ kind = "orders"
        /\ SaveOrders /\ UNCHANGED <<variants, mapping, stock>>

Storable == /\ work.kept = None /\ ~work.last /\ work.result # "unsaved"
            /\ work.result = "ok" \/ (work.rows /\ TheKind \in StockKind)

\* finish, in one transaction: the scope is read again, and what was fetched is saved
\* when it is complete, or whatever there is of a stock source.
FinishWith(fits) ==
  /\ At("saving")
  /\ Record(TheKind, IF fits THEN StateOf(work.result, work.rows) ELSE "cancelled")
  /\ IF fits /\ Storable
     THEN Save(TheKind, work.result = "ok")
     ELSE UNCHANGED dataVars
  /\ work' = [work EXCEPT !.at = IF work.last \/ Len(work.todo) = 1 THEN "over" ELSE "next",
                          !.todo = Tail(@), !.result = None, !.rows = FALSE]
  /\ UNCHANGED <<memberVars, token, connection>>
FinishLate == FinishWith(Authorize(work.user, "marketplace.read") /\ Connected)
Finish == FinishWith(InScope)

\* An answer that contradicts itself cannot be stored: the transaction is rolled back
\* and a second finish records the failure.
SaveFails ==
  /\ At("saving") /\ InScope /\ Storable
  /\ work' = [work EXCEPT !.result = "unsaved"]
  /\ UNCHANGED <<memberVars, token, connection, sync, dataVars>>

Over ==
  /\ At("over") /\ work' = None
  /\ UNCHANGED <<memberVars, token, connection, sync, dataVars>>

\* The context of 20 minutes runs out.
Timeout ==
  /\ work # None /\ ~work.cancelled
  /\ work' = [work EXCEPT !.cancelled = TRUE]
  /\ UNCHANGED <<memberVars, token, connection, sync, dataVars>>

-----------------------------------------------------------------------------
\* SetMapping: of a variant that is present, by one of its barcodes or as a whole.
SetMapping(u, v, b) ==
  /\ Authorize(u, "marketplace.manage") /\ Connected
  /\ Listed(v, b, variants)
  /\ \A c \in Barcode \cup {NoBarcode} :
       c # b /\ NoBarcode \in {b, c} => mapping[<<v, c>>] = "none"
  /\ mapping' = [mapping EXCEPT ![<<v, b>>] = "active"]
  /\ UNCHANGED <<memberVars, token, connection, sync, variants, stock, orders, origin, work>>

\* The process dies, and New of the next one closes the rows that were running.
RestartAsIs ==
  /\ token' \in Token /\ work' = None
  /\ UNCHANGED <<memberVars, connection, sync, dataVars>>
Restart ==
  /\ token' \in Token /\ work' = None
  /\ sync' = [k \in Kind |-> IF sync[k] = "running" THEN "cancelled" ELSE sync[k]]
  /\ UNCHANGED <<memberVars, connection, dataVars>>

Others ==
  /\ MemberStep \/ \E u \in User : SelectHere(u) \/ SelectElsewhere(u)
  /\ UNCHANGED <<token, connection, sync, dataVars, work>>

MarketInit ==
  /\ MembersInit(CHOOSE u \in User : TRUE)
  /\ token \in Token
  /\ connection = None
  /\ sync = [k \in Kind |-> "none"]
  /\ variants = [v \in Variant |-> [present |-> FALSE, barcodes |-> {}]]
  /\ mapping = [k \in MappingKey |-> "none"]
  /\ stock = [k \in StockKind |-> {}]
  /\ orders = {} /\ origin = {} /\ work = None

MarketNext ==
  \/ \E u \in User :
       \/ Attach(u) \/ Disable(u)
       \/ \E command \in Command : Start(u, command)
       \/ \E v \in Variant, b \in Barcode \cup {NoBarcode} : SetMapping(u, v, b)
  \/ Read \/ IdentityBegin \/ SellerAnswers \/ IdentityFinish
  \/ BeginRun \/ Check \/ SaveFails \/ Finish \/ Over \/ Timeout
  \/ FetchCatalog \/ FetchSellerStocks \/ FetchWBStocks \/ FetchOrders
  \/ Restart \/ Others

MarketSpec == MarketInit /\ [][MarketNext]_marketVars

-----------------------------------------------------------------------------
(* Everything that was ever saved for the workshop is of one cabinet, the    *)
(* one of its connection, whichever tokens the process was started with and  *)
(* however often the connection was switched off and on in between.          *)
OneCabinet == origin \subseteq IF connection = None THEN {} ELSE {connection.seller}

(* An answer of WB is stored only while the connection is on, under the      *)
(* revision the job was started with, and for a member who may still read    *)
(* the data in the workshop selected then: a switch-off, or one followed by  *)
(* a switch-on, a lost role or a turn to another workshop during the         *)
(* requests loses the answer.                                                *)
SavedInScope ==
  [][<<variants, stock, orders, origin>>' # <<variants, stock, orders, origin>>
       => InScope]_marketVars

(* A row of marketplace_sync says "running" only while a job of this process *)
(* is working on that kind, across every way a run can end and a restart.    *)
RunningIsWorkedOn ==
  \A k \in Kind : sync[k] = "running" =>
    /\ work # None
    /\ IF k = "check" THEN work.at \in {"asking", "identified"}
       ELSE work.at \in {"checking", "fetching", "saving"} /\ TheKind = k

(* Everything has its type, and a row of marketplace_sync says "running"     *)
(* only while a job of this process is working on that kind (Service.begin,  *)
(* finish, NewService).                                                      *)
RowsAgree == MarketTypeOK /\ RunningIsWorkedOn

(* A mapping of a product is active exactly while the catalogue last saved   *)
(* lists its variant, and the barcode if it names one.                       *)
MappingsFollowCatalog ==
  \A k \in MappingKey : mapping[k] # "none" =>
    (mapping[k] = "active" <=> Listed(k[1], k[2], variants))
=============================================================================
