--------------------------- MODULE MCMarketplace ---------------------------
(***************************************************************************)
(* Instances of Marketplace and RateLimit for TLC, a scene each: the jobs  *)
(* of the connection, and the requests of one group of endpoints.          *)
(***************************************************************************)
EXTENDS Marketplace, RateLimit, TLC

CONSTANTS u1, t1, t2, t3, s1, s2

VARIABLE scene

SceneInit == /\ scene \in {"sync", "rate"}
             /\ MarketInit /\ (scene = "rate" => token = t1)
             /\ RateInit
SceneNext ==
  /\ UNCHANGED scene
  /\ \/ scene = "sync" /\ MarketNext /\ UNCHANGED rateVars
     \/ scene = "rate" /\ RateNext /\ UNCHANGED marketVars
SceneSpec == SceneInit /\ [][SceneNext]_<<marketVars, rateVars, scene>>

\* The first two tokens are of one cabinet, the third of another.
Cabinets == [t \in Token |-> IF t = t3 THEN s2 ELSE s1]
SameCabinet == Permutations({t1, t2})

\* The owner stays the owner, in the workshop; the other member comes and goes.
OwnerStays == role[u1] = "OWNER" /\ here[u1]
\* Stocks and orders do not touch each other: they are saved in different behaviours.
StocksOrOrders == orders = {} \/ \A k \in StockKind : stock[k] = {}
\* Whether the other member is away matters to a job of that member, to no other.
AwayFromOwnJob ==
  work # None /\ work.user = u1 => \A u \in User \ {u1} : role[u] # "NONE" /\ here[u]
\* No step reads how a run ended.
NotHowItEnded ==
  <<scene, rateVars, memberVars, token, connection, [k \in Kind |-> sync[k] = "running"],
    variants, mapping, stock, orders, origin, work>>
=============================================================================
