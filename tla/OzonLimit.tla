----------------------------- MODULE OzonLimit -----------------------------
(***************************************************************************)
(* The deadlines of the Ozon client (internal/marketplace/ozon, request.go *)
(* and service.go).  Each revision of the connection gets a client of its  *)
(* own, with a gate that lets one request through at a time and a deadline *)
(* in memory; all of them share the row of integration_cooldowns.  A       *)
(* request of the client before a switch-off and switch-on may still be    *)
(* under way when the next client begins.  Time is counted in ticks.       *)
(***************************************************************************)
EXTENDS Integers

CONSTANTS
  Clients,   \* how many revisions the instance lives through
  Wait,      \* the waits Retry-After names, or the client's own minute
  LastTick   \* bound of the instance on the clock

ASSUME OzonLimitAssumption == Clients \in Nat \ {0} /\ Wait \subseteq Nat \ {0} /\ LastTick \in Nat

VARIABLES
  clock,
  revision,  \* the client in use; a request of another one is refused by the guard
  until,     \* Client.until of each client
  cooldown,  \* the row of integration_cooldowns, 0 while there is none
  request    \* the request inside each client's gate

limitVars == <<clock, revision, until, cooldown, request>>

Client == 1 .. Clients
Free == [at |-> "free", attempt |-> 1, till |-> 0]
OzonLimitTypeOK ==
  /\ clock \in 0 .. LastTick /\ revision \in Client
  /\ until \in [Client -> Nat] /\ cooldown \in Nat
  /\ request \in [Client -> [at : {"free", "due", "cleared", "sent", "limited", "loaded"},
                             attempt : {1, 2}, till : Nat]]

Later(m, n) == IF m > n THEN m ELSE n
Moves(c, at) == request' = [request EXCEPT ![c].at = at]
Leaves(c) == request' = [request EXCEPT ![c] = Free]

-----------------------------------------------------------------------------
\* send, after the gate.
Begin(c) == request[c] = Free /\ revision = c /\ Moves(c, "due")
            /\ UNCHANGED <<clock, revision, until, cooldown>>

\* The head of an attempt: the guard, then both deadlines.  Variant TLC must refute:
\* the row is enough.
ClearStored(c) ==
  /\ request[c].at = "due"
  /\ IF revision = c /\ clock >= cooldown THEN Moves(c, "cleared") ELSE Leaves(c)
  /\ UNCHANGED <<clock, revision, until, cooldown>>
Clear(c) ==
  /\ request[c].at = "due"
  /\ IF revision = c /\ clock >= Later(cooldown, until[c]) THEN Moves(c, "cleared")
     ELSE Leaves(c)
  /\ UNCHANGED <<clock, revision, until, cooldown>>

Send(c) == request[c].at = "cleared" /\ Moves(c, "sent")
           /\ UNCHANGED <<clock, revision, until, cooldown>>

\* 429: the deadline is kept in memory first.
Limited(c) ==
  /\ request[c].at = "sent"
  /\ \E wait \in Wait :
       /\ until' = [until EXCEPT ![c] = Later(@, clock + wait)]
       /\ request' = [request EXCEPT ![c].at = "limited", ![c].till = clock + wait]
  /\ UNCHANGED <<clock, revision, cooldown>>

\* SaveCooldown: the row is read, and in a statement of its own written.
LoadCooldown(c) ==
  /\ request[c].at = "limited"
  /\ request' = [request EXCEPT ![c].at = "loaded", ![c].till = Later(@, cooldown)]
  /\ UNCHANGED <<clock, revision, until, cooldown>>
SaveCooldown(c) ==
  /\ request[c].at = "loaded" /\ Leaves(c)
  /\ cooldown' = request[c].till
  /\ UNCHANGED <<clock, revision, until>>

\* 5xx or no answer: once more, 250 ms later.
Retry(c) ==
  /\ request[c].at = "sent" /\ request[c].attempt = 1
  /\ request' = [request EXCEPT ![c].at = "due", ![c].attempt = 2]
  /\ UNCHANGED <<clock, revision, until, cooldown>>

\* A result, another error, a cancelled context or a failing storage.
EndRequest(c) == request[c] # Free /\ Leaves(c)
           /\ UNCHANGED <<clock, revision, until, cooldown>>

-----------------------------------------------------------------------------
\* bound, after the connection was switched off and on.
NextClient ==
  /\ revision < Clients /\ revision' = revision + 1
  /\ UNCHANGED <<clock, until, cooldown, request>>

LimitRestart ==
  /\ until' = [c \in Client |-> 0] /\ request' = [c \in Client |-> Free]
  /\ UNCHANGED <<clock, revision, cooldown>>

ClockTick == clock < LastTick /\ clock' = clock + 1
             /\ UNCHANGED <<revision, until, cooldown, request>>

OzonLimitInit ==
  /\ clock = 0 /\ revision = 1 /\ cooldown = 0
  /\ until = [c \in Client |-> 0] /\ request = [c \in Client |-> Free]

OzonLimitNext ==
  \/ ClockTick \/ NextClient \/ LimitRestart
  \/ \E c \in Client :
       \/ Begin(c) \/ Clear(c) \/ Send(c) \/ Limited(c) \/ LoadCooldown(c)
       \/ SaveCooldown(c) \/ Retry(c) \/ EndRequest(c)

OzonLimitSpec == OzonLimitInit /\ [][OzonLimitNext]_limitVars

-----------------------------------------------------------------------------
(* A client never sends before a deadline Ozon has set for it, on a first   *)
(* attempt or a second, even after another client has put an earlier        *)
(* deadline in the row.                                                     *)
KeepsOwnDeadline ==
  [][\A c \in Client :
       request[c].at = "cleared" /\ request'[c].at = "sent" => clock >= until[c]]_limitVars

(* "This client serializes requests; persistent deadline is also monotonic" *)
(* (SaveCooldown): the row never names an earlier deadline than before.     *)
PersistentDeadlineMonotonic == [][cooldown' >= cooldown]_limitVars
=============================================================================
