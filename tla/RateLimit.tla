----------------------------- MODULE RateLimit -----------------------------
(***************************************************************************)
(* The rate limiter of the Wildberries client                              *)
(* (internal/marketplace/wildberries), for one group of endpoints: the     *)
(* groups share nothing.  Manual syncs and the background jobs call the    *)
(* one client of the process; a gate lets one request of the group through *)
(* at a time; deadlines are kept in memory and in marketplace_cooldowns,   *)
(* which a restart reads again.  Time is counted in ticks.                 *)
(***************************************************************************)
EXTENDS Integers

CONSTANTS
  Caller,      \* operations that may ask the group at the same time
  NoCaller,    \* the gate is free
  Delay,       \* the waits WB names in its headers, in ticks
  Backoff,     \* the client's own waits of 1<<attempt seconds, rounded up
  Interval,    \* Client.intervals of the group
  LocalWait,   \* the 30 seconds a caller may be kept waiting
  QuotaWait,   \* the wait after a spent quota without headers
  Penalty,     \* the wait after a 409, or 0 in a group other than marketplace
  MaxTime      \* bound of the instance on the clock

ASSUME RateAssumption ==
  /\ NoCaller \notin Caller
  /\ Delay \subseteq Nat \ {0}
  /\ {Backoff, Interval, LocalWait, QuotaWait} \subseteq Nat \ {0}
  /\ {Penalty, MaxTime} \subseteq Nat

VARIABLES
  now,        \* the clock
  next,       \* Client.next: when the next slot of the group is free
  held,       \* Client.cooldowns
  stored,     \* marketplace_cooldowns
  gate,       \* who is inside Client.gates
  call,       \* the requests in progress
  promised    \* history: the end of the waits the limiter has undertaken to keep, and
              \* the latest slot, as the process knows them and as the disk took them

rateVars == <<now, next, held, stored, gate, call, promised>>

\* Of the sources of a deadline the code tells the pacing interval from the rest.
Deadline == [at : Nat, source : {"server", "interval"}]
NoDeadline == [at |-> 0, source |-> "interval"]
Idle == [at |-> "idle", attempt |-> 0, until |-> 0, wait |-> 0]
Call == [at : {"idle", "gate", "asking", "allowed", "asleep", "ready", "sent", "answered"},
         attempt : 0 .. 2, until : Nat, wait : Nat]
Known == [server : Nat, slot : Nat]

RateTypeOK ==
  /\ now \in 0 .. MaxTime /\ next \in Nat
  /\ held \in Deadline /\ stored \in Deadline
  /\ gate \in Caller \cup {NoCaller}
  /\ call \in [Caller -> Call]
  /\ promised \in [process : Known, disk : Known]

-----------------------------------------------------------------------------
Larger(m, n) == IF m > n THEN m ELSE n
LaterOf(d, e) == IF d.at > e.at THEN d ELSE e
To(c, at) == call' = [call EXCEPT ![c].at = at]
\* The request ends, with its result or with an error, and leaves the gate.
Leave(c) == call' = [call EXCEPT ![c] = Idle]
            /\ gate' = IF gate = c THEN NoCaller ELSE gate
SleepUntil(c, t, attempt) ==
  call' = [call EXCEPT ![c] = [at |-> "asleep", attempt |-> attempt, until |-> t,
                                wait |-> 0]]

\* saveCooldown: the later deadline of two is kept, in memory and on disk.  The
\* disk may refuse; written tells whether it took the deadline.
SaveLast(d, written) ==
  /\ held' = d
  /\ next' = Larger(next, d.at)
  /\ stored' = IF written THEN d ELSE stored
SaveCooldown(d, written) ==
  LET v == IF held.at > d.at THEN held ELSE d IN
  /\ held' = v
  /\ next' = Larger(next, v.at)
  /\ stored' = IF written /\ v.at >= stored.at THEN v ELSE stored

\* The limiter undertakes to let nothing be sent before t.
Promise(t, written) ==
  promised' = [process |-> [promised.process EXCEPT !.server = Larger(@, t)],
               disk |-> IF written THEN [promised.disk EXCEPT !.server = Larger(@, t)]
                        ELSE promised.disk]

\* requestQuery: the gate of the group, for the whole request with its retries.
Ask(c) == call[c] = Idle /\ To(c, "gate")
          /\ UNCHANGED <<now, next, held, stored, gate, promised>>
Enter(c) ==
  /\ call[c].at = "gate" /\ gate = NoCaller
  /\ gate' = c /\ To(c, "asking")
  /\ UNCHANGED <<now, next, held, stored, promised>>

\* waitRate, the first half: a deadline of the server is reported at once, and so
\* is an interval that is too long to wait for.
Latest == LaterOf(stored, held)
Blocked == /\ Latest.at > now
           /\ Latest.source # "interval" \/ Latest.at - now > LocalWait
Look(c) ==
  /\ call[c].at = "asking"
  /\ IF Blocked THEN Leave(c)
     ELSE call' = [call EXCEPT ![c].at = "allowed", ![c].until = Latest.at]
          /\ UNCHANGED gate
  /\ UNCHANGED <<now, next, held, stored, promised>>

\* waitRate, the second half: the slot is taken and recorded, or waited for.
TakesSlot(c) == call[c].at = "allowed" /\ Larger(next, call[c].until) <= now
TakeSlot(c, written) ==
  /\ TakesSlot(c)
  /\ LET until == now + Interval IN
     /\ SaveCooldown([at |-> until, source |-> "interval"], written)
     /\ promised' = [process |-> [promised.process EXCEPT !.slot = until],
                     disk |-> IF written THEN [promised.disk EXCEPT !.slot = until]
                              ELSE promised.disk]
  /\ IF written THEN To(c, "ready") /\ UNCHANGED gate ELSE Leave(c)
  /\ UNCHANGED now
AwaitSlot(c) ==
  LET free == Larger(next, call[c].until) IN
  /\ call[c].at = "allowed" /\ free > now
  /\ next' = free
  /\ IF free - now > LocalWait THEN Leave(c)
     ELSE SleepUntil(c, free, call[c].attempt) /\ UNCHANGED gate
  /\ UNCHANGED <<now, held, stored, promised>>
Wake(c) ==
  /\ call[c].at = "asleep" /\ now >= call[c].until
  /\ call' = [call EXCEPT ![c].at = "asking", ![c].until = 0]
  /\ UNCHANGED <<now, next, held, stored, gate, promised>>

Send(c) == call[c].at = "ready" /\ To(c, "sent")
           /\ UNCHANGED <<now, next, held, stored, gate, promised>>

-----------------------------------------------------------------------------
(* An answer of WB: its headers first, and then its status and its body.     *)
SentBy(c) == call[c].at = "sent" /\ UNCHANGED now
AnsweredTo(c) == call[c].at = "answered" /\ UNCHANGED now
SaveAnd(d, written) == SaveCooldown(d, written) /\ Promise(d.at, written)

\* 429: the wait of the header, or a backoff of the client's own.  Not retried.
TooMany(c, written) ==
  /\ SentBy(c) /\ Leave(c)
  /\ \E delay \in Delay \cup {Backoff} :
       SaveAnd([at |-> now + delay, source |-> "server"], written)

\* The headers of any other answer may name a wait (0 if not), and may say that the
\* quota is spent, which is recorded before the answer is read.
Hear(c, wait) == call' = [call EXCEPT ![c].at = "answered", ![c].wait = wait]
Headers(c) ==
  /\ SentBy(c)
  /\ \E wait \in Delay \cup {0} : Hear(c, wait)
  /\ UNCHANGED <<next, held, stored, gate, promised>>
QuotaSpent(c, written) ==
  /\ SentBy(c)
  /\ \E wait \in Delay \cup {0} :
       /\ IF wait > 0 THEN SaveAnd([at |-> now + wait, source |-> "server"], written)
          ELSE SaveAnd([at |-> now + QuotaWait, source |-> "interval"], written)
       /\ IF written THEN Hear(c, wait) /\ UNCHANGED gate ELSE Leave(c)

\* 409 in the group with a penalty.
Conflict(c, written) ==
  /\ Penalty > 0 /\ AnsweredTo(c) /\ Leave(c)
  /\ SaveAnd([at |-> now + Penalty, source |-> "interval"], written)

\* A result, or an error that is not tried again.
Answered(c) ==
  AnsweredTo(c) /\ Leave(c) /\ UNCHANGED <<next, held, stored, promised>>

\* 5xx: a short wait is slept and tried again, a long one is kept as a deadline; the
\* third attempt ends the request, and the wait in its answer is dropped.
ServerError(c, written) ==
  LET delay == IF call[c].wait > 0 THEN call[c].wait ELSE Backoff
      last == call[c].attempt = 2 IN
  /\ AnsweredTo(c)
  /\ \/ /\ last /\ Leave(c)
        /\ UNCHANGED <<next, held, stored, promised>>
     \/ /\ ~last /\ delay > LocalWait /\ Leave(c)
        /\ SaveAnd([at |-> now + delay, source |-> "server"], written)
     \/ /\ ~last /\ delay <= LocalWait
        /\ SleepUntil(c, now + delay, call[c].attempt + 1)
        /\ UNCHANGED <<next, held, stored, gate, promised>>

\* No answer: at most three attempts.
NoAnswer(c) ==
  /\ SentBy(c)
  /\ IF call[c].attempt = 2 THEN Leave(c)
     ELSE SleepUntil(c, now + Backoff, call[c].attempt + 1) /\ UNCHANGED gate
  /\ UNCHANGED <<next, held, stored, promised>>

-----------------------------------------------------------------------------
\* The context is cancelled or the scope check of the guard fails, at any point.
Cancel(c) ==
  /\ call[c] # Idle /\ Leave(c)
  /\ UNCHANGED <<now, next, held, stored, promised>>

\* The process dies and another one opens the database.
RateRestart ==
  /\ call' = [c \in Caller |-> Idle] /\ gate' = NoCaller
  /\ next' = 0 /\ held' = NoDeadline
  /\ promised' = [promised EXCEPT !.process = promised.disk]
  /\ UNCHANGED <<now, stored>>

Tick == now < MaxTime /\ now' = now + 1
        /\ UNCHANGED <<next, held, stored, gate, call, promised>>

RateInit ==
  /\ now = 0 /\ next = 0 /\ held = NoDeadline /\ stored = NoDeadline
  /\ gate = NoCaller /\ call = [c \in Caller |-> Idle]
  /\ LET nothing == [server |-> 0, slot |-> 0] IN
     promised = [process |-> nothing, disk |-> nothing]

RateNext ==
  \/ Tick \/ RateRestart
  \/ \E c \in Caller :
       \/ Ask(c) \/ Enter(c) \/ Look(c) \/ AwaitSlot(c) \/ Wake(c) \/ Send(c)
       \/ Headers(c) \/ Answered(c) \/ NoAnswer(c) \/ Cancel(c)
       \/ \E written \in BOOLEAN :
            \/ TakeSlot(c, written) \/ TooMany(c, written) \/ QuotaSpent(c, written)
            \/ Conflict(c, written) \/ ServerError(c, written)

RateSpec == RateInit /\ [][RateNext]_rateVars

-----------------------------------------------------------------------------
(* Nothing is sent to a group before a wait is over that the limiter took    *)
(* from an answer of WB: from 429, from a spent quota, from 409, or from a   *)
(* 5xx to the first or second attempt that named a long one.  This holds     *)
(* whoever received that answer, however the requests of several callers     *)
(* interleave, and after a restart too if the deadline reached the disk.     *)
(* Nor does a request take its slot within the interval of the one before    *)
(* it.  Two waits named by a 5xx are nobody's deadline, in the code as here, *)
(* unless its headers say as well that the quota is spent:                   *)
(* a short one is slept by its request and ends with it if it is cancelled,  *)
(* and the one in the answer to a third attempt is dropped with the request  *)
(* (client.go:299), so that the next may be sent after the interval.         *)
SendsInTime ==
  [][\A c \in Caller :
       /\ call[c].at = "ready" /\ call'[c].at = "sent" => now >= promised.process.server
       /\ call[c].at = "allowed" /\ call'[c].at = "ready" =>
            now >= promised.process.slot]_rateVars
=============================================================================
