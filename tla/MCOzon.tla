------------------------------- MODULE MCOzon -------------------------------
(***************************************************************************)
(* Instances of Ozon and OzonLimit for TLC, one scene each for what is     *)
(* followed on its own; every scene has its own initial states and bounds. *)
(***************************************************************************)
EXTENDS Ozon, OzonLimit, TLC

CONSTANTS u1, u2

\* flights: members who share flights, from the beginning or with a catalogue saved.
\* query: a query of the owner while the owner refreshes.
\* limit: the deadlines of the clients.
VARIABLE scene

NothingAsked ==
  /\ refresh = [u \in User |-> Idle] /\ flight = [key \in Key |-> None]
  /\ current = [k \in Sku |-> 0]
  /\ latest = [run |-> 0, status |-> "UNAVAILABLE"] /\ query = None
CatalogSaved ==
  /\ account \in Account /\ origin = {account}
  /\ connection = [enabled |-> TRUE, revision |-> 1, account |-> account]
  /\ \E p \in Product : products = [k \in Sku |-> p]
Flights ==
  \/ OzonInit
  \/ NothingAsked /\ CatalogSaved /\ MembersInit(u1) /\ role[u2] # "NONE"
Attached ==
  /\ NothingAsked /\ MembersInit(u1) /\ role[u2] = "NONE"
  /\ account \in Account /\ origin = {}
  /\ connection = [enabled |-> TRUE, revision |-> 1, account |-> account]
  /\ products = [k \in Sku |-> None]
\* The rows do not matter to the deadlines.
FirstAccount == account = CHOOSE a \in Account : TRUE

SceneInit ==
  /\ OzonLimitInit
  /\ \/ scene = "flights" /\ Flights
     \/ scene = "query" /\ Attached
     \/ scene = "limit" /\ Attached /\ FirstAccount
SceneNext ==
  /\ UNCHANGED scene
  /\ \/ scene # "limit" /\ OzonNext /\ UNCHANGED limitVars
     \/ scene = "limit" /\ OzonLimitNext /\ UNCHANGED ozonVars
SceneSpec ==
  /\ SceneInit /\ [][SceneNext]_<<ozonVars, limitVars, scene>>
  /\ \A u \in User : WF_ozonVars(Served(u))

\* The owner stays the owner, in the workshop; the other member comes and goes.
InScene ==
  /\ role[u1] = "OWNER" /\ here[u1]
  /\ latest.status \in {"SUCCESS", "UNAVAILABLE"}
  /\ IF scene = "flights"
     THEN /\ query = None /\ latest.run <= 1 /\ current[2] = 0
          /\ \A u \in User : refresh[u] = Idle \/ refresh[u].source = "seller"
     ELSE /\ role[u2] = "NONE" /\ connection.revision = 1 /\ connection.account = account
          /\ \A key \in Key : flight[key] = None \/ ~flight[key].stopped
=============================================================================
