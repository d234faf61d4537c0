------------------------- MODULE Marketplace_proofs -------------------------
(***************************************************************************)
(* Data of two cabinets are never mixed, the mappings follow the           *)
(* catalogue, and a row that says "running" is worked on, for any tokens,  *)
(* cabinets, catalogues and members and any number of switches of the      *)
(* connection; and nothing is sent to a group of endpoints before the      *)
(* deadlines the limiter has taken from the answers of WB, for any number  *)
(* of callers, any waits and any length of time.                           *)
(***************************************************************************)
EXTENDS Marketplace, RateLimit, TLAPS

-----------------------------------------------------------------------------
(* The limiter of the client.                                                *)
USE RateAssumption

\* One request is inside the gate, and whoever is past it is that request.
Inside == \A c \in Caller : call[c].at \notin {"idle", "gate"} => gate = c

\* What the limiter has undertaken it still knows: from memory or disk while the
\* process lives, and from the disk alone what reached it.
Remembered ==
  /\ stored.at >= promised.disk.server /\ stored.at >= promised.disk.slot
  /\ Latest.at >= promised.process.server /\ Latest.at >= promised.process.slot

\* What a request read on its way through the gate is still the latest.
Current ==
  \A c \in Caller :
    /\ call[c].at = "allowed" => /\ call[c].until >= promised.process.server
                                 /\ call[c].until >= promised.process.slot
    /\ call[c].at = "ready" => now >= promised.process.server

RateInv == RateTypeOK /\ Inside /\ Remembered /\ Current

-----------------------------------------------------------------------------
(* saveCooldown never lets go of a later deadline, in memory or on disk, and *)
(* keeps the one it is given.                                                *)
LEMMA SaveKeeps ==
  ASSUME RateTypeOK, NEW d \in Deadline, NEW written \in BOOLEAN,
         SaveCooldown(d, written)
  PROVE  /\ held' \in Deadline /\ stored' \in Deadline /\ next' \in Nat
         /\ Latest'.at >= d.at /\ Latest'.at >= Latest.at
         /\ stored'.at >= stored.at
         /\ written => stored'.at >= d.at
<1> DEFINE v == IF held.at > d.at THEN held ELSE d
<1>1. v \in Deadline /\ v.at >= held.at /\ v.at >= d.at
  BY DEF RateTypeOK, Deadline
<1>2. held' = v /\ next' = Larger(next, v.at)
      /\ stored' = IF written /\ v.at >= stored.at THEN v ELSE stored
  BY DEF SaveCooldown
<1>3. held' \in Deadline /\ stored' \in Deadline /\ next' \in Nat
  BY <1>1, <1>2 DEF RateTypeOK, Deadline, Larger
<1>4. stored'.at >= stored.at /\ (written => stored'.at >= d.at)
  BY <1>1, <1>2 DEF RateTypeOK, Deadline
<1>5. Latest'.at >= held'.at /\ Latest'.at >= stored'.at
  BY <1>3 DEF Latest, LaterOf, Deadline
<1>6. Latest.at = held.at \/ Latest.at = stored.at
  BY DEF Latest, LaterOf
<1> QED
  <2>1. Latest'.at \in Nat /\ held'.at \in Nat /\ stored'.at \in Nat /\ d.at \in Nat
        /\ held.at \in Nat /\ stored.at \in Nat
    BY <1>3 DEF RateTypeOK, Deadline, Latest, LaterOf
  <2>2. Latest'.at >= d.at /\ Latest'.at >= Latest.at
    BY <1>1, <1>2, <1>4, <1>5, <1>6, <2>1
  <2> QED
    BY <1>3, <1>4, <2>2

(* A request that records a deadline leaves the gate or goes on to read its  *)
(* answer: nobody is on the way through the gate with what was known before. *)
LEMMA AnswerKeeps ==
  ASSUME RateInv, NEW c \in Caller, call[c].at \in {"sent", "answered"}, now' = now,
         NEW wait \in Nat, Leave(c) \/ (Hear(c, wait) /\ UNCHANGED gate),
         NEW d \in Deadline, NEW written \in BOOLEAN, SaveAnd(d, written)
  PROVE  RateInv'
<1> USE DEF RateInv
<1>1. /\ held' \in Deadline /\ stored' \in Deadline /\ next' \in Nat
      /\ Latest'.at >= d.at /\ Latest'.at >= Latest.at
      /\ stored'.at >= stored.at /\ (written => stored'.at >= d.at)
  BY SaveKeeps DEF SaveAnd
<1>2. d.at \in Nat /\ promised.process \in Known /\ promised.disk \in Known
  BY DEF Deadline, RateTypeOK
<1>3. /\ promised'.process = [promised.process EXCEPT !.server = Larger(@, d.at)]
      /\ promised'.disk = IF written THEN [promised.disk EXCEPT !.server = Larger(@, d.at)]
                          ELSE promised.disk
  BY DEF SaveAnd, Promise
<1>4. promised' \in [process : Known, disk : Known]
  BY <1>2 DEF SaveAnd, Promise, Known, Larger
<1>5. /\ gate = c
      /\ \/ call' = [call EXCEPT ![c] = Idle] /\ gate' = NoCaller
         \/ /\ call' = [call EXCEPT ![c].at = "answered", ![c].wait = wait]
            /\ gate' = gate
  BY DEF Leave, Hear, Inside
<1>6. RateTypeOK'
  BY <1>1, <1>4, <1>5 DEF RateTypeOK, Call, Idle
<1>7. /\ \A x \in Caller \ {c} : call'[x].at \in {"idle", "gate"}
      /\ call'[c].at = "idle" \/ (call'[c].at = "answered" /\ gate' = c)
  <2>1. \A x \in Caller \ {c} : call[x].at \in {"idle", "gate"}
    BY <1>5 DEF Inside
  <2>2. \A x \in Caller \ {c} : call'[x] = call[x]
    BY <1>5 DEF RateTypeOK
  <2>3. call'[c].at = "idle" \/ (call'[c].at = "answered" /\ gate' = c)
    BY <1>5 DEF RateTypeOK, Call, Idle
  <2> QED
    BY <2>1, <2>2, <2>3
<1>8. Inside' /\ Current'
  BY <1>7 DEF Inside, Current
<1>9. Remembered'
  <2>1. /\ Latest.at \in Nat /\ Latest'.at \in Nat
        /\ stored.at \in Nat /\ stored'.at \in Nat
    BY <1>1 DEF RateTypeOK, Deadline, Latest, LaterOf
  <2>2. Latest'.at >= promised'.process.server /\ Latest'.at >= promised'.process.slot
    BY <1>1, <1>2, <1>3, <2>1 DEF Remembered, Known, Larger
  <2>3. stored'.at >= promised'.disk.server /\ stored'.at >= promised'.disk.slot
    BY <1>1, <1>2, <1>3, <2>1 DEF Remembered, Known, Larger
  <2> QED
    BY <2>2, <2>3 DEF Remembered
<1> QED
  BY <1>6, <1>8, <1>9

(* A step that leaves the deadlines alone keeps what is remembered of them.  *)
LEMMA DeadlinesAlone ==
  ASSUME UNCHANGED <<held, stored, promised>>, Remembered
  PROVE  Remembered'
BY DEF Remembered, Latest, LaterOf

(* A request that leaves the gate leaves nothing behind.                     *)
LEMMA LeaveKeeps ==
  ASSUME RateInv, NEW c \in Caller, Leave(c), UNCHANGED <<now, held, stored, promised>>,
         next' \in Nat
  PROVE  RateInv'
<1> USE DEF RateInv
<1>1. RateTypeOK'
  BY DEF RateTypeOK, Leave, Call, Idle
<1>2. Inside' /\ Current'
  BY DEF RateTypeOK, Inside, Current, Leave, Idle
<1> QED
  BY <1>1, <1>2, DeadlinesAlone

(* One that goes to sleep in the gate keeps what was read there.             *)
LEMMA SleepKeeps ==
  ASSUME RateInv, NEW c \in Caller, gate = c, NEW t \in Nat, NEW n \in 0 .. 2,
         SleepUntil(c, t, n), UNCHANGED <<now, held, stored, promised, gate>>, next' \in Nat
  PROVE  RateInv'
<1> USE DEF RateInv
<1>1. RateTypeOK'
  BY DEF RateTypeOK, SleepUntil, Call
<1>2. Inside' /\ Current'
  BY DEF RateTypeOK, Inside, Current, SleepUntil
<1> QED
  BY <1>1, <1>2, DeadlinesAlone

-----------------------------------------------------------------------------
(* The slot is taken under the deadline that was read, and recorded.         *)
LEMMA TakeSlotKeeps ==
  ASSUME RateInv, NEW c \in Caller, NEW written \in BOOLEAN, TakeSlot(c, written)
  PROVE  RateInv'
<1> USE DEF RateInv
<1> DEFINE d == [at |-> now + Interval, source |-> "interval"]
<1>1. d \in Deadline /\ SaveCooldown(d, written) /\ now' = now
  BY DEF TakeSlot, RateTypeOK, Deadline
<1>2. /\ held' \in Deadline /\ stored' \in Deadline /\ next' \in Nat
      /\ Latest'.at >= d.at /\ Latest'.at >= Latest.at
      /\ stored'.at >= stored.at /\ (written => stored'.at >= d.at)
  BY <1>1, SaveKeeps
<1>3. /\ promised'.process = [promised.process EXCEPT !.slot = d.at]
      /\ promised'.disk = IF written THEN [promised.disk EXCEPT !.slot = d.at]
                          ELSE promised.disk
      /\ promised' \in [process : Known, disk : Known]
  BY <1>1 DEF TakeSlot, RateTypeOK, Known, Deadline
<1>4. /\ call[c].at = "allowed" /\ gate = c
      /\ call[c].until <= now
  <2>1. call[c].at = "allowed" /\ Larger(next, call[c].until) <= now
    BY DEF TakeSlot, TakesSlot
  <2> QED
    BY <2>1 DEF Larger, Inside, RateTypeOK, Call
<1>5. now >= promised.process.server
  BY <1>4 DEF Current, RateTypeOK, Call, Known
<1>6. \/ call' = [call EXCEPT ![c].at = "ready"] /\ gate' = gate
      \/ call' = [call EXCEPT ![c] = Idle] /\ gate' = NoCaller
  BY <1>4 DEF TakeSlot, To, Leave
<1>7. RateTypeOK'
  BY <1>1, <1>2, <1>3, <1>6 DEF RateTypeOK, Call, Idle
<1>8. \A x \in Caller \ {c} : call[x].at \in {"idle", "gate"}
  BY <1>4 DEF Inside
<1>9. Inside' /\ Current'
  BY <1>1, <1>3, <1>4, <1>5, <1>6, <1>8 DEF Inside, Current, RateTypeOK, Call, Idle, Known
<1>10. Remembered'
  <2>1. /\ Latest.at \in Nat /\ Latest'.at \in Nat /\ d.at \in Nat
        /\ stored.at \in Nat /\ stored'.at \in Nat
        /\ promised.process \in Known /\ promised.disk \in Known
    BY <1>1, <1>2 DEF RateTypeOK, Deadline, Latest, LaterOf
  <2>2. Latest'.at >= promised'.process.server /\ Latest'.at >= promised'.process.slot
    BY <1>2, <1>3, <2>1 DEF Remembered, Known
  <2>3. stored'.at >= promised'.disk.server /\ stored'.at >= promised'.disk.slot
    BY <1>2, <1>3, <2>1 DEF Remembered, Known
  <2> QED
    BY <2>2, <2>3 DEF Remembered
<1> QED
  BY <1>7, <1>9, <1>10

(* Every step of the limiter keeps what is promised, remembered and current. *)
THEOREM RateStep == RateInv /\ [RateNext]_rateVars => RateInv'
<1> SUFFICES ASSUME RateInv, [RateNext]_rateVars PROVE RateInv'
  OBVIOUS
<1> USE DEF RateInv
<1>1. CASE Tick
  <2>1. RateTypeOK' /\ Inside' /\ Current'
    BY <1>1 DEF Tick, RateTypeOK, Inside, Current, Known
  <2> QED
    BY <1>1, <2>1, DeadlinesAlone DEF Tick
<1>2. CASE RateRestart
  <2>1. RateTypeOK' /\ Inside' /\ Current'
    BY <1>2 DEF RateRestart, RateTypeOK, Inside, Current, Idle, Call, NoDeadline, Deadline, Known
  <2>2. stored \in Deadline /\ promised.disk \in Known
    BY DEF RateTypeOK
  <2>3. Latest'.at >= stored.at
    BY <1>2, <2>2 DEF RateRestart, Latest, LaterOf, NoDeadline, Deadline
  <2>4. Latest'.at \in Nat
    BY <1>2, <2>2 DEF RateRestart, Latest, LaterOf, NoDeadline, Deadline
  <2>5. promised'.process = promised.disk /\ promised'.disk = promised.disk /\ stored' = stored
    BY <1>2 DEF RateRestart, RateTypeOK
  <2>6. Remembered'
    BY <2>2, <2>3, <2>4, <2>5 DEF Remembered, Known, Deadline
  <2> QED
    BY <2>1, <2>6
<1>3. ASSUME NEW c \in Caller, Ask(c) PROVE RateInv'
  <2>1. RateTypeOK' /\ Inside' /\ Current'
    BY <1>3 DEF Ask, To, Idle, RateTypeOK, Call, Inside, Current
  <2> QED
    BY <1>3, <2>1, DeadlinesAlone DEF Ask
<1>4. ASSUME NEW c \in Caller, Enter(c) PROVE RateInv'
  <2>1. RateTypeOK' /\ Inside' /\ Current'
    BY <1>4 DEF Enter, To, RateTypeOK, Call, Inside, Current
  <2> QED
    BY <1>4, <2>1, DeadlinesAlone DEF Enter
<1>5. ASSUME NEW c \in Caller, Look(c) PROVE RateInv'
  <2>1. CASE Blocked
    BY <1>5, <2>1, LeaveKeeps DEF Look, RateTypeOK
  <2>2. CASE ~Blocked
    <3>1. /\ call' = [call EXCEPT ![c].at = "allowed", ![c].until = Latest.at]
          /\ UNCHANGED <<now, next, held, stored, gate, promised>>
      BY <1>5, <2>2 DEF Look
    <3>2. Latest.at \in Nat
      BY DEF RateTypeOK, Latest, LaterOf, Deadline
    <3>3. RateTypeOK' /\ Inside'
      <4>1. call[c].at = "asking" /\ call[c] \in Call
        BY <1>5 DEF Look, RateTypeOK
      <4>2. call' = [call EXCEPT ![c] = [call[c] EXCEPT !.at = "allowed", !.until = Latest.at]]
        BY <3>1 DEF RateTypeOK
      <4>3. [call[c] EXCEPT !.at = "allowed", !.until = Latest.at] \in Call
        BY <3>2, <4>1 DEF Call
      <4>4. RateTypeOK'
        BY <3>1, <4>2, <4>3 DEF RateTypeOK
      <4>5. Inside'
        BY <3>1, <4>1, <4>2 DEF Inside, RateTypeOK
      <4> QED
        BY <4>4, <4>5
    <3>4. Current'
      BY <1>5, <3>1 DEF RateTypeOK, Current, Remembered
    <3> QED
      BY <3>1, <3>3, <3>4, DeadlinesAlone
  <2> QED
    BY <2>1, <2>2
<1>6. ASSUME NEW c \in Caller, AwaitSlot(c) PROVE RateInv'
  <2> DEFINE free == Larger(next, call[c].until)
  <2>1. /\ free \in Nat /\ next' = free /\ gate = c /\ call[c].attempt \in 0 .. 2
        /\ UNCHANGED <<now, held, stored, promised>>
    BY <1>6 DEF AwaitSlot, Larger, RateTypeOK, Call, Inside
  <2>2. CASE free - now > LocalWait
    BY <1>6, <2>1, <2>2, LeaveKeeps DEF AwaitSlot
  <2>3. CASE ~(free - now > LocalWait)
    BY <1>6, <2>1, <2>3, SleepKeeps DEF AwaitSlot
  <2> QED
    BY <2>2, <2>3
<1>7. ASSUME NEW c \in Caller, Wake(c) PROVE RateInv'
  <2>1. RateTypeOK' /\ Inside' /\ Current'
    BY <1>7 DEF Wake, RateTypeOK, Call, Inside, Current
  <2> QED
    BY <1>7, <2>1, DeadlinesAlone DEF Wake
<1>8. ASSUME NEW c \in Caller, Send(c) PROVE RateInv'
  <2>1. RateTypeOK' /\ Inside' /\ Current'
    BY <1>8 DEF Send, To, RateTypeOK, Call, Inside, Current
  <2> QED
    BY <1>8, <2>1, DeadlinesAlone DEF Send
<1>9. ASSUME NEW c \in Caller, Answered(c) PROVE RateInv'
  BY <1>9, LeaveKeeps DEF Answered, AnsweredTo, RateTypeOK
<1>10. ASSUME NEW c \in Caller, NoAnswer(c) PROVE RateInv'
  <2>1. CASE call[c].attempt = 2
    BY <1>10, <2>1, LeaveKeeps DEF NoAnswer, SentBy, RateTypeOK
  <2>2. CASE call[c].attempt # 2
    <3>1. /\ now + Backoff \in Nat /\ call[c].attempt + 1 \in 0 .. 2 /\ gate = c
          /\ next' \in Nat
      BY <1>10, <2>2 DEF NoAnswer, SentBy, RateTypeOK, Call, Inside
    <3> QED
      BY <1>10, <2>2, <3>1, SleepKeeps DEF NoAnswer, SentBy
  <2> QED
    BY <2>1, <2>2
<1>11. ASSUME NEW c \in Caller, Cancel(c) PROVE RateInv'
  BY <1>11, LeaveKeeps DEF Cancel, RateTypeOK
<1>12. ASSUME NEW c \in Caller, NEW written \in BOOLEAN, TakeSlot(c, written) PROVE RateInv'
  BY <1>12, TakeSlotKeeps
<1>13. ASSUME NEW c \in Caller, NEW written \in BOOLEAN, TooMany(c, written) PROVE RateInv'
  <2>1. PICK delay \in Delay \cup {Backoff} :
          SaveAnd([at |-> now + delay, source |-> "server"], written)
    BY <1>13 DEF TooMany
  <2>2. [at |-> now + delay, source |-> "server"] \in Deadline
    BY DEF Deadline, RateTypeOK
  <2> QED
    BY <1>13, <2>1, <2>2, AnswerKeeps DEF TooMany, SentBy
<1>14. ASSUME NEW c \in Caller, Headers(c) PROVE RateInv'
  <2>1. PICK wait \in Nat : Hear(c, wait)
    BY <1>14 DEF Headers
  <2>2. call[c].at = "sent" /\ UNCHANGED <<now, next, held, stored, gate, promised>>
    BY <1>14 DEF Headers, SentBy
  <2>3. RateTypeOK' /\ Inside' /\ Current'
    BY <2>1, <2>2 DEF Hear, RateTypeOK, Call, Inside, Current
  <2> QED
    BY <2>2, <2>3, DeadlinesAlone
<1>15. ASSUME NEW c \in Caller, NEW written \in BOOLEAN, QuotaSpent(c, written)
       PROVE RateInv'
  <2>1. PICK wait \in Delay \cup {0} :
          /\ IF wait > 0 THEN SaveAnd([at |-> now + wait, source |-> "server"], written)
             ELSE SaveAnd([at |-> now + QuotaWait, source |-> "interval"], written)
          /\ IF written THEN Hear(c, wait) /\ UNCHANGED gate ELSE Leave(c)
    BY <1>15 DEF QuotaSpent
  <2>2. PICK d \in Deadline : SaveAnd(d, written)
    <3>1. /\ [at |-> now + QuotaWait, source |-> "interval"] \in Deadline
          /\ [at |-> now + wait, source |-> "server"] \in Deadline
      BY DEF Deadline, RateTypeOK
    <3> QED
      BY <2>1, <3>1
  <2>3. Leave(c) \/ (Hear(c, wait) /\ UNCHANGED gate)
    BY <2>1
  <2>4. call[c].at = "sent" /\ now' = now /\ wait \in Nat
    BY <1>15 DEF QuotaSpent, SentBy
  <2> QED
    BY <2>2, <2>3, <2>4, AnswerKeeps
<1>16. ASSUME NEW c \in Caller, NEW written \in BOOLEAN, Conflict(c, written)
       PROVE RateInv'
  <2>1. [at |-> now + Penalty, source |-> "interval"] \in Deadline
    BY DEF Deadline, RateTypeOK
  <2> QED
    BY <1>16, <2>1, AnswerKeeps DEF Conflict, AnsweredTo
<1>17. ASSUME NEW c \in Caller, NEW written \in BOOLEAN, ServerError(c, written)
       PROVE RateInv'
  <2> DEFINE delay == IF call[c].wait > 0 THEN call[c].wait ELSE Backoff
  <2>1. call[c].at = "answered" /\ now' = now
    BY <1>17 DEF ServerError, AnsweredTo
  <2>2. delay \in Nat /\ call[c].wait \in Nat /\ call[c].attempt \in 0 .. 2 /\ now \in Nat
    BY DEF RateTypeOK, Call
  <2>3. CASE Leave(c) /\ UNCHANGED <<next, held, stored, promised>>
    BY <2>1, <2>3, LeaveKeeps DEF RateTypeOK
  <2>4. CASE Leave(c) /\ SaveAnd([at |-> now + delay, source |-> "server"], written)
    <3>1. [at |-> now + delay, source |-> "server"] \in Deadline
      BY <2>2 DEF Deadline
    <3> QED
      BY <2>1, <2>4, <3>1, AnswerKeeps
  <2>5. CASE /\ call[c].attempt # 2
             /\ SleepUntil(c, now + delay, call[c].attempt + 1)
             /\ UNCHANGED <<next, held, stored, gate, promised>>
    <3>1. /\ now + delay \in Nat /\ call[c].attempt + 1 \in 0 .. 2 /\ gate = c
          /\ next' \in Nat
      BY <2>1, <2>2, <2>5 DEF RateTypeOK, Inside
    <3> QED
      BY <2>1, <2>5, <3>1, SleepKeeps
  <2> QED
    BY <1>17, <2>3, <2>4, <2>5 DEF ServerError
<1>18. CASE UNCHANGED rateVars
  <2>1. RateTypeOK' /\ Inside' /\ Current'
    BY <1>18 DEF rateVars, RateTypeOK, Inside, Current
  <2> QED
    BY <1>18, <2>1, DeadlinesAlone DEF rateVars
<1> QED
  BY <1>1, <1>2, <1>3, <1>4, <1>5, <1>6, <1>7, <1>8, <1>9, <1>10, <1>11, <1>12, <1>13,
     <1>14, <1>15, <1>16, <1>17, <1>18 DEF RateNext

(* What the limiter has undertaken is remembered and current in every state. *)
THEOREM RateInvariance == RateSpec => []RateInv
<1>1. RateInit => RateInv
  BY DEF RateInit, RateInv, RateTypeOK, Inside, Remembered, Current, Latest, LaterOf, Idle,
         Call, NoDeadline, Deadline, Known
<1> QED
  BY <1>1, RateStep, PTL DEF RateSpec

-----------------------------------------------------------------------------
(* A request passes from "allowed" to "ready" only by taking its slot.       *)
LEMMA OnlySlots ==
  ASSUME RateInv, [RateNext]_rateVars, NEW c \in Caller,
         call[c].at = "allowed", call'[c].at = "ready"
  PROVE  TakesSlot(c)
<1> USE DEF RateInv, RateTypeOK
<1>1. ASSUME NEW x \in Caller, NEW written \in BOOLEAN, TakeSlot(x, written)
      PROVE TakesSlot(c)
  <2>1. CASE x = c
    BY <1>1, <2>1 DEF TakeSlot
  <2>2. CASE x # c
    BY <1>1, <2>2 DEF TakeSlot, To, Leave
  <2> QED
    BY <2>1, <2>2
<1>2. ASSUME NEW x \in Caller,
             \/ call' = [call EXCEPT ![x] = Idle]
             \/ \E at \in {"gate", "asking", "sent"} : To(x, at)
             \/ \E until : call' = [call EXCEPT ![x].at = "allowed", ![x].until = until]
             \/ call' = [call EXCEPT ![x].at = "asking", ![x].until = 0]
             \/ \E wait : Hear(x, wait)
             \/ \E t, n : SleepUntil(x, t, n)
      PROVE  FALSE
  <2>1. \A y \in Caller \ {x} : call'[y] = call[y]
    BY <1>2 DEF To, Hear, SleepUntil
  <2>2. call'[x].at # "ready"
    BY <1>2 DEF To, Hear, SleepUntil, Idle, Call
  <2> QED
    BY <2>1, <2>2
<1>3. ASSUME NEW x \in Caller,
             \/ Ask(x) \/ Enter(x) \/ Look(x) \/ AwaitSlot(x) \/ Wake(x) \/ Send(x)
             \/ Headers(x) \/ Answered(x) \/ NoAnswer(x) \/ Cancel(x)
             \/ \E written \in BOOLEAN :
                  \/ TooMany(x, written) \/ QuotaSpent(x, written)
                  \/ Conflict(x, written) \/ ServerError(x, written)
      PROVE  FALSE
  <2>1. CASE Ask(x) \/ Enter(x) \/ Send(x)
    BY <1>2, <2>1 DEF Ask, Enter, Send
  <2>2. CASE Look(x) \/ Wake(x)
    BY <1>2, <2>2 DEF Look, Wake, Leave
  <2>3. CASE AwaitSlot(x) \/ NoAnswer(x)
    BY <1>2, <2>3 DEF AwaitSlot, NoAnswer, Leave
  <2>4. CASE Headers(x) \/ Answered(x) \/ Cancel(x)
    BY <1>2, <2>4 DEF Headers, Answered, Cancel, Leave
  <2>5. ASSUME NEW written \in BOOLEAN,
               \/ TooMany(x, written) \/ QuotaSpent(x, written)
               \/ Conflict(x, written) \/ ServerError(x, written)
        PROVE  FALSE
    BY <1>2, <2>5 DEF TooMany, QuotaSpent, Conflict, ServerError, Leave
  <2> QED
    BY <1>3, <2>1, <2>2, <2>3, <2>4, <2>5
<1>4. CASE Tick \/ RateRestart \/ UNCHANGED rateVars
  BY <1>4 DEF Tick, RateRestart, rateVars, Idle
<1> QED
  BY <1>1, <1>2, <1>3, <1>4 DEF RateNext

(* Nothing is sent before a wait is over that the limiter took from a 429, a *)
(* spent quota, a 409 or a 5xx with a long wait to the first or second       *)
(* attempt, and no slot is taken within the interval of the one before it,   *)
(* however the requests interleave and after a restart as far as the disk    *)
(* knows (waitRate, saveCooldown).                                           *)
THEOREM DeadlinesKept == RateSpec => SendsInTime
<1>1. ASSUME RateInv, [RateNext]_rateVars, NEW c \in Caller
      PROVE  /\ call[c].at = "ready" /\ call'[c].at = "sent"
                  => now >= promised.process.server
             /\ call[c].at = "allowed" /\ call'[c].at = "ready"
                  => now >= promised.process.slot
  <2>1. call[c].at = "ready" => now >= promised.process.server
    BY <1>1 DEF RateInv, Current
  <2>2. ASSUME call[c].at = "allowed", call'[c].at = "ready"
        PROVE  now >= promised.process.slot
    <3>1. Larger(next, call[c].until) <= now
      BY <1>1, <2>2, OnlySlots DEF TakesSlot
    <3>2. call[c].until >= promised.process.slot
      BY <1>1, <2>2 DEF RateInv, Current
    <3> QED
      BY <1>1, <3>1, <3>2 DEF Larger, RateInv, RateTypeOK, Call, Known
  <2> QED
    BY <2>1, <2>2
<1>2. RateInv /\ [RateNext]_rateVars =>
        [\A c \in Caller :
           /\ call[c].at = "ready" /\ call'[c].at = "sent"
                => now >= promised.process.server
           /\ call[c].at = "allowed" /\ call'[c].at = "ready"
                => now >= promised.process.slot]_rateVars
  BY <1>1
<1> QED
  BY <1>2, RateInvariance, PTL DEF RateSpec, SendsInTime

-----------------------------------------------------------------------------
(* The synchronisations of the connection.                                   *)
USE MarketAssumption, NoneAssumption

\* The fields that matter here are there.
Shape ==
  /\ token \in Token /\ origin \subseteq Seller
  /\ connection \in Connection \cup {None}
  /\ work # None =>
       DOMAIN work = {"at", "user", "revision", "command", "todo", "result", "kept", "rows",
                      "cancelled", "last"}

\* The row names the cabinet of this process's token.
Identified == connection # None /\ connection.seller = SellerOf[token]

\* The row was checked for a token of the cabinet it names.
Checked ==
  connection # None /\ connection.print # None => connection.seller = SellerOf[connection.print]

\* A job that could still save something works for the cabinet of the row: it began
\* with a row checked for this token, or has asked whose token it is.
Working ==
  work # None =>
    /\ work.at = "identified" => /\ work.result \in {"ok", "failed", "cancelled"}
                                 /\ work.result = "ok" => Identified
    /\ work.at \in {"next", "checking", "fetching", "saving"} /\ work.kept = None => Identified

CabinetInv == Shape /\ Checked /\ Working /\ OneCabinet

-----------------------------------------------------------------------------
(* A step that moves only the job keeps the cabinet if the job keeps its     *)
(* shape and what it knows of its token.                                     *)
LEMMA JobKeeps ==
  ASSUME CabinetInv, UNCHANGED <<token, connection, origin>>, Shape' /\ Working'
  PROVE  CabinetInv'
BY DEF CabinetInv, Checked, OneCabinet

(* The row under its next revision.                                          *)
LEMMA NextRevision ==
  ASSUME NEW c \in Connection, c.revision < MaxRevision, NEW e \in BOOLEAN
  PROVE  LET d == [c EXCEPT !.enabled = e, !.revision = c.revision + 1]
         IN d \in Connection /\ d.seller = c.seller /\ d.print = c.print
<1> DEFINE d == [c EXCEPT !.enabled = e, !.revision = c.revision + 1]
<1>1. c.revision + 1 \in 1 .. MaxRevision
  <2>1. c.revision \in Nat /\ c.revision >= 1
    BY DEF Connection
  <2> QED
    BY <2>1
<1>2. d \in Connection
  BY <1>1 DEF Connection
<1>3. d.seller = c.seller /\ d.print = c.print
  BY DEF Connection
<1> QED
  BY <1>2, <1>3

(* Attach and Disable leave the cabinet of the row.                          *)
LEMMA SwitchKeeps ==
  ASSUME CabinetInv, UNCHANGED <<token, origin>>,
         connection # None, connection' \in Connection,
         connection'.seller = connection.seller, connection'.print = connection.print,
         \/ work' = work
         \/ work # None /\ work' = [work EXCEPT !.cancelled = TRUE]
  PROVE  CabinetInv'
<1> USE DEF CabinetInv
<1>1. connection' # None
  OBVIOUS
<1>2. Checked' /\ OneCabinet' /\ (Identified => Identified')
  BY <1>1 DEF Checked, OneCabinet, Identified
<1>3. Shape'
  BY <1>1 DEF Shape
<1>4. Working'
  BY <1>2 DEF Working, Shape
<1> QED
  BY <1>2, <1>3, <1>4

(* Nothing was saved before the row had a seller, so the first one is the    *)
(* cabinet of everything; a later answer must name the same one.             *)
LEMMA SellerKeeps ==
  ASSUME CabinetInv, SellerAnswers
  PROVE  CabinetInv'
<1> USE DEF CabinetInv
<1>1. UNCHANGED <<token, origin>> /\ work # None /\ work.at = "asking"
  BY DEF SellerAnswers, dataVars, At
<1>2. CASE /\ ~work.cancelled /\ SellerAccepted
           /\ connection' = [connection EXCEPT !.seller = SellerOf[token], !.print = token]
           /\ work' = [work EXCEPT !.at = "identified", !.result = "ok"]
  <2>1. connection # None /\ connection \in Connection
        /\ connection.seller \in {None, SellerOf[token]}
    BY <1>2 DEF SellerAccepted, Connected, Shape
  <2>2. connection' \in Connection
    BY <1>2, <2>1 DEF Connection, Shape
  <2>3. connection' # None /\ connection'.seller = SellerOf[token] /\ connection'.print = token
    BY <1>2, <2>1, <2>2 DEF Connection
  <2>4. Shape' /\ Checked' /\ Working'
    BY <1>1, <1>2, <2>2, <2>3 DEF Shape, Checked, Working, Identified
  <2>5. origin \subseteq {SellerOf[token]}
    BY <2>1 DEF OneCabinet, Shape
  <2> QED
    BY <1>1, <2>3, <2>4, <2>5 DEF OneCabinet
<1>3. CASE /\ work' = [work EXCEPT !.at = "identified",
                         !.result = IF work.cancelled THEN "cancelled" ELSE "failed"]
           /\ UNCHANGED connection
  <2>1. Shape' /\ Working'
    BY <1>1, <1>3 DEF Shape, Working, Identified
  <2> QED
    BY <1>1, <1>3, <2>1, JobKeeps
<1> QED
  BY <1>2, <1>3 DEF SellerAnswers

LEMMA IdentityFinishKeeps ==
  ASSUME CabinetInv, IdentityFinish
  PROVE  CabinetInv'
<1> USE DEF CabinetInv
<1> DEFINE error == IF ~InScope THEN "cancelled"
                    ELSE IF work.result = "ok" THEN None ELSE work.result
<1>1. /\ UNCHANGED <<token, origin>> /\ work # None /\ work.at = "identified"
      /\ AfterIdentity(error)
  BY DEF IdentityFinish, dataVars, At
<1>2. UNCHANGED connection
  <2>1. CASE InScope /\ work.result = "ok"
    <3>1. connection # None /\ connection.seller = SellerOf[token]
      BY <1>1, <2>1 DEF Working, Identified
    <3>2. connection \in Connection
      BY <3>1 DEF Shape
    <3> QED
      BY <2>1, <3>1, <3>2 DEF IdentityFinish, Connection
  <2>2. CASE ~(InScope /\ work.result = "ok")
    BY <2>2 DEF IdentityFinish
  <2> QED
    BY <2>1, <2>2
<1>3. error = None => Identified
  BY <1>1 DEF Working
<1>4. Shape' /\ Working'
  BY <1>1, <1>2, <1>3 DEF Shape, Working, Identified, AfterIdentity
<1> QED
  BY <1>1, <1>2, <1>4, JobKeeps

LEMMA StartKeeps ==
  ASSUME CabinetInv, NEW u, NEW command, Start(u, command)
  PROVE  CabinetInv'
<1> USE DEF CabinetInv
<1>1. UNCHANGED <<token, connection, origin>> /\ connection # None
  BY DEF Start, dataVars, Connected
<1>2. IdentityValid => Identified
  BY <1>1 DEF IdentityValid, Checked, Identified, Shape
<1>3. /\ DOMAIN work' = {"at", "user", "revision", "command", "todo", "result", "kept",
                         "rows", "cancelled", "last"}
      /\ work'.at \in {"reading", "identity", "next"}
      /\ work'.at = "next" => IdentityValid
  BY DEF Start
<1>4. Shape' /\ Working'
  BY <1>1, <1>2, <1>3 DEF Shape, Working, Identified
<1> QED
  BY <1>1, <1>4, JobKeeps

(* finish saves only what the token of the row's cabinet has answered.       *)
LEMMA FinishKeeps ==
  ASSUME CabinetInv, Finish
  PROVE  CabinetInv'
<1> USE DEF CabinetInv
<1>1. /\ UNCHANGED <<token, connection>> /\ work # None /\ work.at = "saving"
      /\ work' = [work EXCEPT !.at = IF work.last \/ Len(work.todo) = 1 THEN "over" ELSE "next",
                              !.todo = Tail(@), !.result = None, !.rows = FALSE]
  BY DEF Finish, FinishWith, At
<1>2. Working'
  BY <1>1 DEF Working, Shape, Identified
<1>3. CASE Storable
  <2>1. Identified
    BY <1>1, <1>3 DEF Storable, Working
  <2>2. origin' \in {origin, origin \cup {SellerOf[token]}}
    BY <1>3 DEF Finish, FinishWith, Save, dataVars
  <2>3. Shape' /\ Checked' /\ OneCabinet'
    BY <1>1, <2>1, <2>2 DEF Shape, Checked, OneCabinet, Identified
  <2> QED
    BY <1>2, <2>3
<1>4. CASE ~Storable
  <2>1. UNCHANGED origin
    BY <1>4 DEF Finish, FinishWith, dataVars
  <2>2. Shape'
    BY <1>1, <2>1 DEF Shape
  <2> QED
    BY <1>1, <1>2, <2>1, <2>2, JobKeeps
<1> QED
  BY <1>3, <1>4

(* Steps of the job between its identity and its end.                        *)
LEMMA FetchKeeps ==
  ASSUME CabinetInv, At("fetching"), NEW results, FetchWith(results)
  PROVE  CabinetInv'
<1> USE DEF CabinetInv
<1>1. PICK result \in results :
        work' = [work EXCEPT !.at = "saving", !.rows = result # "failed",
                    !.result = IF work.cancelled THEN "cancelled" ELSE result]
  BY DEF FetchWith
<1>2. UNCHANGED <<token, connection, origin>>
  BY DEF FetchWith, dataVars
<1>3. Shape' /\ Working'
  BY <1>1, <1>2 DEF At, Shape, Working, Identified
<1> QED
  BY <1>2, <1>3, JobKeeps

LEMMA JobStepKeeps ==
  ASSUME CabinetInv,
         \/ Read \/ IdentityBegin \/ BeginRun \/ Check \/ SaveFails \/ Over \/ Timeout
  PROVE  CabinetInv'
<1> USE DEF CabinetInv
<1>1. UNCHANGED <<token, connection, origin>>
  BY DEF Read, IdentityBegin, BeginRun, Check, SaveFails, Over, Timeout, dataVars
<1>2. CASE Read
  BY <1>1, <1>2, JobKeeps DEF Read, Go, At, Shape, Working, Identified
<1>3. CASE IdentityBegin
  BY <1>1, <1>3, JobKeeps
  DEF IdentityBegin, Go, At, AfterIdentity, Shape, Working, Identified
<1>4. CASE BeginRun
  BY <1>1, <1>4, JobKeeps DEF BeginRun, Go, At, Shape, Working, Identified
<1>5. CASE Check
  BY <1>1, <1>5, JobKeeps DEF Check, At, Shape, Working, Identified
<1>6. CASE SaveFails
  BY <1>1, <1>6, JobKeeps DEF SaveFails, At, Shape, Working, Identified
<1>7. CASE Over
  BY <1>1, <1>7, JobKeeps DEF Over, Shape, Working
<1>8. CASE Timeout
  BY <1>1, <1>8, JobKeeps DEF Timeout, Shape, Working, Identified
<1> QED
  BY <1>2, <1>3, <1>4, <1>5, <1>6, <1>7, <1>8

-----------------------------------------------------------------------------
(* Every step keeps what is known of the cabinet.                            *)
THEOREM CabinetStep == CabinetInv /\ [MarketNext]_marketVars => CabinetInv'
<1> SUFFICES ASSUME CabinetInv, [MarketNext]_marketVars PROVE CabinetInv'
  OBVIOUS
<1> USE DEF CabinetInv
<1>1. ASSUME NEW u \in User, Attach(u) PROVE CabinetInv'
  <2>0. UNCHANGED <<token, work, origin>>
    BY <1>1 DEF Attach, dataVars
  <2>1. CASE connection = None
    <3>1. connection' = [enabled |-> TRUE, revision |-> 1, seller |-> None, print |-> None]
      BY <1>1, <2>1 DEF Attach
    <3>2. connection' \in Connection
      BY <3>1 DEF Connection
    <3> QED
      BY <2>0, <2>1, <3>1, <3>2 DEF Shape, Checked, Working, Identified, OneCabinet
  <2>2. CASE connection # None
    <3>1. /\ connection' = [connection EXCEPT !.enabled = TRUE, !.revision = @ + 1]
          /\ connection.revision < MaxRevision /\ connection \in Connection
      BY <1>1, <2>2 DEF Attach, Shape
    <3>2. /\ connection' \in Connection
          /\ connection'.seller = connection.seller /\ connection'.print = connection.print
      BY <3>1, NextRevision
    <3> QED
      BY <2>0, <2>2, <3>2, SwitchKeeps
  <2> QED
    BY <2>1, <2>2
<1>2. ASSUME NEW u \in User, Disable(u) PROVE CabinetInv'
  <2>1. /\ connection' = [connection EXCEPT !.enabled = FALSE, !.revision = @ + 1]
        /\ connection # None
        /\ connection.revision < MaxRevision /\ connection \in Connection
        /\ UNCHANGED <<token, origin>>
        /\ work' = work \/ (work # None /\ work' = [work EXCEPT !.cancelled = TRUE])
    BY <1>2 DEF Disable, Shape, dataVars
  <2>2. /\ connection' \in Connection
        /\ connection'.seller = connection.seller /\ connection'.print = connection.print
    BY <2>1, NextRevision
  <2> QED
    BY <2>1, <2>2, SwitchKeeps
<1>3. ASSUME NEW u \in User, NEW command \in Command, Start(u, command) PROVE CabinetInv'
  BY <1>3, StartKeeps
<1>4. ASSUME NEW u \in User, NEW v \in Variant, NEW b \in Barcode \cup {NoBarcode},
             SetMapping(u, v, b)
      PROVE CabinetInv'
  BY <1>4, JobKeeps DEF SetMapping, Shape, Working, Identified
<1>5. CASE Read \/ IdentityBegin \/ BeginRun \/ Check \/ SaveFails \/ Over \/ Timeout
  BY <1>5, JobStepKeeps
<1>6. CASE SellerAnswers
  BY <1>6, SellerKeeps
<1>7. CASE IdentityFinish
  BY <1>7, IdentityFinishKeeps
<1>8. CASE Finish
  BY <1>8, FinishKeeps
<1>9. CASE FetchCatalog \/ FetchSellerStocks \/ FetchWBStocks \/ FetchOrders
  BY <1>9, FetchKeeps
  DEF FetchCatalog, FetchSellerStocks, FetchWBStocks, FetchOrders, Fetching
<1>10. CASE Restart
  <2>1. Shape' /\ Checked' /\ OneCabinet' /\ work' = None
    BY <1>10 DEF Restart, Shape, Checked, OneCabinet, dataVars
  <2> QED
    BY <2>1 DEF Working
<1>11. CASE Others
  BY <1>11, JobKeeps DEF Others, dataVars, Shape, Working, Identified
<1>12. CASE UNCHANGED marketVars
  BY <1>12, JobKeeps DEF marketVars, Shape, Working, Identified
<1> QED
  BY <1>1, <1>2, <1>3, <1>4, <1>5, <1>6, <1>7, <1>8, <1>9, <1>10, <1>11, <1>12
  DEF MarketNext

(* Everything that was ever saved for a workshop is of the cabinet its       *)
(* connection names, whichever tokens the process was started with and       *)
(* however often the connection was switched off and on (SaveSeller,         *)
(* Service.identity, finish).                                                *)
THEOREM CabinetsNeverMixed == MarketSpec => []OneCabinet
<1>1. MarketInit => CabinetInv
  BY DEF MarketInit, CabinetInv, Shape, Checked, Working, OneCabinet
<1>2. CabinetInv => OneCabinet
  BY DEF CabinetInv
<1> QED
  BY <1>1, <1>2, CabinetStep, PTL DEF MarketSpec

-----------------------------------------------------------------------------
MappingInv == DOMAIN mapping = MappingKey /\ MappingsFollowCatalog

(* A saved catalogue brings every mapping in line; setting one asks whether  *)
(* its variant is listed; nothing else touches either.                       *)
LEMMA MappingStep == MappingInv /\ [MarketNext]_marketVars => MappingInv'
<1> SUFFICES ASSUME MappingInv, [MarketNext]_marketVars PROVE MappingInv'
  OBVIOUS
<1>1. ASSUME UNCHANGED <<variants, mapping>> PROVE MappingInv'
  BY <1>1 DEF MappingInv, MappingsFollowCatalog, Listed
<1>2. CASE Finish
  <2>1. CASE UNCHANGED <<variants, mapping>>
    BY <1>1, <2>1
  <2>2. ASSUME NEW cards, SaveCards(cards) PROVE MappingInv'
    <3>1. mapping' = [k \in MappingKey |->
             IF mapping[k] = "none" THEN "none"
             ELSE IF Listed(k[1], k[2], variants') THEN "active" ELSE "missing"]
      BY <2>2 DEF SaveCards
    <3> QED
      BY <3>1, ZenonT(30) DEF MappingInv, MappingsFollowCatalog, Listed
  <2> QED
    BY <1>2, <2>1, <2>2 DEF Finish, FinishWith, Save, dataVars, StockKind
<1>3. ASSUME NEW u \in User, NEW v \in Variant, NEW b \in Barcode \cup {NoBarcode},
             SetMapping(u, v, b)
      PROVE MappingInv'
  <2>1. /\ mapping' = [mapping EXCEPT ![<<v, b>>] = "active"] /\ UNCHANGED variants
        /\ Listed(v, b, variants) /\ <<v, b>> \in MappingKey
    BY <1>3 DEF SetMapping, MappingKey
  <2>2. ASSUME NEW k \in MappingKey, mapping'[k] # "none"
        PROVE mapping'[k] = "active" <=> Listed(k[1], k[2], variants)
    <3>1. CASE k = <<v, b>>
      BY <2>1, <3>1 DEF MappingInv
    <3>2. CASE k # <<v, b>>
      BY <2>1, <2>2, <3>2 DEF MappingInv, MappingsFollowCatalog
    <3> QED
      BY <3>1, <3>2
  <2> QED
    BY <2>1, <2>2 DEF MappingInv, MappingsFollowCatalog
<1>4. ASSUME NEW u \in User, Attach(u) \/ Disable(u) \/ \E command \in Command : Start(u, command)
      PROVE MappingInv'
  BY <1>1, <1>4 DEF Attach, Disable, Start, dataVars
<1>5. CASE \/ Read \/ IdentityBegin \/ SellerAnswers \/ IdentityFinish
           \/ BeginRun \/ Check \/ SaveFails \/ Over \/ Timeout \/ Restart \/ Others
  BY <1>1, <1>5 DEF Read, IdentityBegin, SellerAnswers, IdentityFinish, BeginRun, Check,
     SaveFails, Over, Timeout, Restart, Others, dataVars
<1>6. CASE FetchCatalog \/ FetchSellerStocks \/ FetchWBStocks \/ FetchOrders
  BY <1>1, <1>6
  DEF FetchCatalog, FetchSellerStocks, FetchWBStocks, FetchOrders, FetchWith, dataVars
<1>7. CASE UNCHANGED marketVars
  BY <1>1, <1>7 DEF marketVars
<1> QED
  BY <1>2, <1>3, <1>4, <1>5, <1>6, <1>7 DEF MarketNext

(* A mapping is active exactly while the catalogue last saved lists its      *)
(* variant and barcode (saveCards, SetMapping).                              *)
THEOREM MappingsCorrect == MarketSpec => []MappingsFollowCatalog
<1>1. MarketInit => MappingInv
  BY DEF MarketInit, MappingInv, MappingsFollowCatalog
<1>2. MappingInv => MappingsFollowCatalog
  BY DEF MappingInv
<1> QED
  BY <1>1, <1>2, MappingStep, PTL DEF MarketSpec

-----------------------------------------------------------------------------
\* What is left to do, and that a job on its way has something left: "check" is never a
\* kind of the list.
Queue ==
  work # None =>
    /\ work.todo \in Seq(Kind \ {"check"})
    /\ work.at \in {"next", "checking", "fetching", "saving"} => work.todo # <<>>

RowsInv == CabinetInv /\ MarketTypeOK /\ Queue /\ RunningIsWorkedOn

(* What a command asks for, catalogue before stocks before orders.           *)
LEMMA KindsAsked ==
  ASSUME NEW command \in Command
  PROVE  /\ KindsOf(command) \in Seq(Kind \ {"check"})
         /\ command \notin {"check", "read"} => KindsOf(command) # <<>>
<1>1. command \in {"check", "stocks", "all", "catalog", "seller_stocks", "wb_stocks",
                   "orders", "read"}
  OBVIOUS
<1>2. {"catalog", "seller_stocks", "wb_stocks", "orders"} \subseteq Kind \ {"check"}
  BY DEF Kind, StockKind
<1> DEFINE K == Kind \ {"check"}
<1>3. /\ <<"seller_stocks", "wb_stocks">> \in Seq(K)
      /\ <<"catalog", "seller_stocks", "wb_stocks", "orders">> \in Seq(K)
      /\ <<>> \in Seq(K)
      /\ \A k \in K : <<k>> \in Seq(K)
  BY <1>2
<1>4. \A a, b, c, d : <<a>> # <<>> /\ <<a, b>> # <<>> /\ <<a, b, c, d>> # <<>>
  OBVIOUS
<1>5. CASE command = "stocks"
  BY <1>3, <1>4, <1>5 DEF KindsOf
<1>6. CASE command = "all"
  BY <1>3, <1>4, <1>6 DEF KindsOf
<1>7. CASE command \in {"check", "read"}
  BY <1>3, <1>7 DEF KindsOf
<1>8. CASE command \in {"catalog", "seller_stocks", "wb_stocks", "orders"}
  <2>1. KindsOf(command) = <<command>>
    BY <1>8 DEF KindsOf
  <2> QED
    BY <1>2, <1>3, <1>4, <1>8, <2>1
<1> QED
  BY <1>1, <1>5, <1>6, <1>7, <1>8

(* A list that is not empty is its head and a shorter list.                  *)
LEMMA HeadAndTail ==
  ASSUME NEW S, NEW s \in Seq(S), s # <<>>
  PROVE  /\ Head(s) \in S /\ Tail(s) \in Seq(S)
         /\ Len(s) # 1 => Tail(s) # <<>>
<1>1. Len(s) \in Nat /\ Len(s) >= 1 /\ Tail(s) \in Seq(S) /\ Len(Tail(s)) = Len(s) - 1
  OBVIOUS
<1>2. Head(s) \in S
  OBVIOUS
<1>3. Tail(s) = <<>> => Len(Tail(s)) = 0
  <2>1. Len(<<>>) = 0
    OBVIOUS
  <2> QED
    BY <2>1
<1> QED
  BY <1>1, <1>2, <1>3

(* The head of what is left, and what is left after it.                      *)
LEMMA NextKind ==
  ASSUME MarketTypeOK, Queue, work # None,
         work.at \in {"next", "checking", "fetching", "saving"}
  PROVE  /\ TheKind \in Kind /\ TheKind # "check"
         /\ Tail(work.todo) \in Seq(Kind \ {"check"})
         /\ Len(work.todo) # 1 => Tail(work.todo) # <<>>
<1>1. work.todo \in Seq(Kind \ {"check"}) /\ work.todo # <<>>
  BY DEF Queue
<1> QED
  BY <1>1, HeadAndTail DEF TheKind

(* A row that gets a state keeps the table.                                  *)
LEMMA RecordKeepsType ==
  ASSUME MarketTypeOK, NEW kind \in Kind, NEW state \in State, Record(kind, state)
  PROVE  /\ sync' \in [Kind -> State] /\ sync'[kind] = state
         /\ \A k \in Kind \ {kind} : sync'[k] = sync[k]
BY DEF MarketTypeOK, Record

(* A job's state is one of a run's ends, whatever its answer was.            *)
LEMMA StatesEnd ==
  ASSUME NEW result, NEW rows
  PROVE  StateOf(result, rows) \in State \ {"running"}
BY DEF StateOf, State

(* The members of the workshop keep their types, whoever does what.          *)
LEMMA OthersKeepMembers ==
  ASSUME MembersTypeOK, Others
  PROVE  MembersTypeOK'
<1> USE GivenRoleAssumption DEF MembersTypeOK, MemberRole, Assignable
<1>1. CASE MemberStep
  <2>1. PICK actor \in User, u \in User :
          \/ \E r \in GivenRole : ChangeRole(actor, u, r) \/ Activate(actor, u, r)
          \/ Deactivate(actor, u)
          \/ TransferOwnership(actor, u)
    BY <1>1 DEF MemberStep
  <2>2. CASE \E r \in GivenRole : ChangeRole(actor, u, r) \/ Activate(actor, u, r)
    BY <2>2 DEF ChangeRole, Activate
  <2>3. CASE Deactivate(actor, u) \/ TransferOwnership(actor, u)
    BY <2>3 DEF Deactivate, TransferOwnership
  <2> QED
    BY <2>1, <2>2, <2>3
<1>2. CASE \E u \in User : SelectHere(u) \/ SelectElsewhere(u)
  BY <1>2 DEF SelectHere, SelectElsewhere
<1> QED
  BY <1>1, <1>2 DEF Others

\* The part of a job that is a record of the right type, with its list.
WorkFits == work \in Work \cup {None} /\ Queue

(* A step that moves the job only: its stage may change as long as the row   *)
(* that says "running" is still worked on.                                   *)
LEMMA MoveKeeps ==
  ASSUME MarketTypeOK, UNCHANGED <<memberVars, token, connection, dataVars>>,
         sync' \in [Kind -> State], WorkFits', RunningIsWorkedOn'
  PROVE  MarketTypeOK' /\ Queue' /\ RunningIsWorkedOn'
BY DEF MarketTypeOK, MembersTypeOK, memberVars, dataVars, WorkFits

(* Fields of a job.                                                          *)
LEMMA WorkFields ==
  ASSUME MarketTypeOK, work # None
  PROVE  work \in Work
BY DEF MarketTypeOK

LEMMA StartRows ==
  ASSUME RowsInv, NEW u \in User, NEW command \in Command, Start(u, command)
  PROVE  MarketTypeOK' /\ Queue' /\ RunningIsWorkedOn'
<1> USE DEF RowsInv
<1>1. connection \in Connection /\ connection.revision \in 1 .. MaxRevision
  BY DEF Start, Connected, MarketTypeOK, Connection
<1>2. KindsOf(command) \in Seq(Kind \ {"check"})
      /\ (command \notin {"check", "read"} => KindsOf(command) # <<>>)
  BY KindsAsked
<1>3. KindsOf(command) \in Seq(Kind)
  BY <1>2
<1>4. work' \in Work
  BY <1>1, <1>3 DEF Start, Work
<1>5. work'.todo = KindsOf(command)
      /\ (work'.at \in {"next", "checking", "fetching", "saving"}
            => command \notin {"check", "read"})
  BY DEF Start
<1>6. WorkFits'
  BY <1>2, <1>4, <1>5 DEF WorkFits, Queue
<1>7. RunningIsWorkedOn'
  BY DEF Start, RunningIsWorkedOn
<1> QED
  BY <1>6, <1>7, MoveKeeps DEF Start, MarketTypeOK

(* The identity of the cabinet: asked for, answered and recorded.            *)
LEMMA IdentityRows ==
  ASSUME RowsInv, IdentityBegin \/ SellerAnswers \/ IdentityFinish
  PROVE  MarketTypeOK' /\ Queue' /\ RunningIsWorkedOn'
<1> USE DEF RowsInv
<1>0. work \in Work /\ work.todo \in Seq(Kind \ {"check"}) /\ "check" \in Kind
  BY DEF IdentityBegin, SellerAnswers, IdentityFinish, At, MarketTypeOK, Queue, Kind
<1>1. CASE IdentityBegin
  <2>1. work.at = "identity" /\ \A k \in Kind : sync[k] # "running"
    BY <1>1 DEF IdentityBegin, At, RunningIsWorkedOn
  <2>2. CASE InScope
    <3>1. Record("check", "running") /\ work' = [work EXCEPT !.at = "asking"]
      BY <1>1, <2>2 DEF IdentityBegin, Go
    <3>2. /\ sync' \in [Kind -> State]
          /\ \A k \in Kind \ {"check"} : sync'[k] = sync[k]
      BY <1>0, <3>1, RecordKeepsType DEF State
    <3>3. work' \in Work /\ work'.todo = work.todo /\ work'.at = "asking" /\ work' # None
      BY <1>0, <1>1, <3>1 DEF Work, Shape, CabinetInv, IdentityBegin, At
    <3>4. WorkFits' /\ RunningIsWorkedOn'
      BY <1>0, <2>1, <3>2, <3>3 DEF WorkFits, Queue, RunningIsWorkedOn
    <3> QED
      BY <1>1, <3>2, <3>4, MoveKeeps DEF IdentityBegin
  <2>3. CASE ~InScope
    <3>1. AfterIdentity("cancelled") /\ UNCHANGED sync
      BY <1>1, <2>3 DEF IdentityBegin
    <3>2. work' \in Work /\ work'.todo = work.todo
          /\ (work'.at = "next" => work.todo # <<>>) /\ work'.at \in {"over", "next"}
      BY <1>0, <3>1 DEF Work, AfterIdentity
    <3>3. WorkFits' /\ RunningIsWorkedOn'
      BY <1>0, <2>1, <3>1, <3>2 DEF WorkFits, Queue, RunningIsWorkedOn
    <3> QED
      BY <1>1, <3>1, <3>3, MoveKeeps DEF IdentityBegin, MarketTypeOK
  <2> QED
    BY <2>2, <2>3
<1>2. CASE SellerAnswers
  <2>1. work.at = "asking" /\ UNCHANGED <<memberVars, token, sync, dataVars>>
        /\ \A k \in Kind : sync[k] = "running" => k = "check"
    BY <1>2 DEF SellerAnswers, At, RunningIsWorkedOn
  <2>2. PICK result \in {"ok", "cancelled", "failed"} :
          work' = [work EXCEPT !.at = "identified", !.result = result]
    BY <1>2 DEF SellerAnswers
  <2>3. work' \in Work /\ work'.todo = work.todo /\ work'.at = "identified"
    BY <1>0, <2>2 DEF Work, Result
  <2>4. WorkFits' /\ RunningIsWorkedOn'
    BY <1>0, <2>1, <2>3, NoneAssumption DEF WorkFits, Queue, RunningIsWorkedOn, CabinetInv, Shape
  <2>5. connection' \in Connection \cup {None}
    BY <1>2 DEF SellerAnswers, SellerAccepted, Connected, Connection, MarketTypeOK
  <2> QED
    BY <2>1, <2>4, <2>5 DEF MarketTypeOK, MembersTypeOK, memberVars, dataVars, WorkFits
<1>3. CASE IdentityFinish
  <2> DEFINE error == IF ~InScope THEN "cancelled"
                      ELSE IF work.result = "ok" THEN None ELSE work.result
             state == IF ~InScope THEN "cancelled" ELSE StateOf(work.result, FALSE)
  <2>1. work.at = "identified" /\ UNCHANGED <<memberVars, token, dataVars>>
        /\ \A k \in Kind : sync[k] = "running" => k = "check"
    BY <1>3 DEF IdentityFinish, At, RunningIsWorkedOn
  <2>2. work # None
    BY <1>3 DEF IdentityFinish, At
  <2>3. error \in {None, "failed", "cancelled"}
    BY <2>1, <2>2 DEF CabinetInv, Working
  <2>4. state \in State \ {"running"}
    BY StatesEnd DEF State
  <2>5. Record("check", state) /\ AfterIdentity(error)
    BY <1>3 DEF IdentityFinish
  <2> HIDE DEF error, state
  <2>6. /\ sync' \in [Kind -> State] /\ \A k \in Kind : sync'[k] # "running"
    BY <1>0, <2>1, <2>4, <2>5, RecordKeepsType
  <2>7. work' \in Work /\ work'.todo = work.todo
        /\ (work'.at = "next" => work.todo # <<>>) /\ work'.at \in {"over", "next"}
    BY <1>0, <2>3, <2>5 DEF Work, AfterIdentity
  <2>8. WorkFits' /\ RunningIsWorkedOn'
    BY <1>0, <2>6, <2>7 DEF WorkFits, Queue, RunningIsWorkedOn
  <2>9. connection' \in Connection \cup {None}
    BY <1>3 DEF IdentityFinish, InScope, Connected, Connection, MarketTypeOK
  <2> QED
    BY <2>1, <2>6, <2>8, <2>9 DEF MarketTypeOK, MembersTypeOK, memberVars, dataVars, WorkFits
<1> QED
  BY <1>1, <1>2, <1>3

(* The begin of a run, its check, its requests and the context's end.        *)
LEMMA RunRows ==
  ASSUME RowsInv, BeginRun \/ Check \/ (\E results \in SUBSET Result : At("fetching") /\ FetchWith(results))
  PROVE  MarketTypeOK' /\ Queue' /\ RunningIsWorkedOn'
<1> USE DEF RowsInv
<1>0. work \in Work /\ work.todo \in Seq(Kind \ {"check"}) /\ work.todo # <<>>
      /\ TheKind \in Kind /\ TheKind # "check"
  <2>1. work # None /\ work.at \in {"next", "checking", "fetching", "saving"}
    BY DEF BeginRun, Check, At
  <2> QED
    BY <2>1, NextKind DEF MarketTypeOK, Queue
<1>1. CASE BeginRun
  <2>1. work.at = "next" /\ \A k \in Kind : sync[k] # "running"
    BY <1>1 DEF BeginRun, At, RunningIsWorkedOn
  <2>2. CASE InScope
    <3> DEFINE at == IF work.kept = None THEN "checking" ELSE "saving"
    <3>1. /\ Record(TheKind, "running")
          /\ work' = [work EXCEPT !.at = at, !.result = work.kept]
      BY <1>1, <2>2 DEF BeginRun
    <3>2. at \in {"checking", "saving"} /\ work.kept \in Result \cup {None}
      BY <1>0 DEF Work, Result
    <3> HIDE DEF at
    <3>3. /\ sync' \in [Kind -> State]
          /\ \A k \in Kind \ {TheKind} : sync'[k] = sync[k]
      BY <1>0, <3>1, RecordKeepsType DEF State
    <3>4. work' \in Work /\ work'.todo = work.todo /\ work'.at = at
      BY <1>0, <3>1, <3>2 DEF Work
    <3>5. WorkFits' /\ RunningIsWorkedOn'
      BY <1>0, <2>1, <3>2, <3>3, <3>4 DEF WorkFits, Queue, RunningIsWorkedOn, TheKind
    <3> QED
      BY <1>1, <3>3, <3>5, MoveKeeps DEF BeginRun
  <2>3. CASE ~InScope
    <3>1. work' = [work EXCEPT !.at = "over"] /\ UNCHANGED sync
      BY <1>1, <2>3 DEF BeginRun, Go
    <3>2. work' \in Work /\ work'.todo = work.todo /\ work'.at = "over"
      BY <1>0, <3>1 DEF Work
    <3>3. WorkFits' /\ RunningIsWorkedOn'
      BY <1>0, <2>1, <3>1, <3>2 DEF WorkFits, Queue, RunningIsWorkedOn
    <3> QED
      BY <1>1, <3>1, <3>3, MoveKeeps DEF BeginRun, MarketTypeOK
  <2> QED
    BY <2>2, <2>3
<1>2. ASSUME UNCHANGED <<memberVars, token, connection, sync, dataVars>>,
             work' \in Work, work'.todo = work.todo,
             work.at \in {"checking", "fetching", "saving"},
             work'.at \in {"checking", "fetching", "saving"}
      PROVE  MarketTypeOK' /\ Queue' /\ RunningIsWorkedOn'
  <2>1. WorkFits' /\ RunningIsWorkedOn'
    BY <1>0, <1>2 DEF WorkFits, Queue, RunningIsWorkedOn, TheKind
  <2> QED
    BY <1>2, <2>1, MoveKeeps DEF MarketTypeOK
<1>3. CASE Check
  <2>1. work.at = "checking" /\ UNCHANGED <<memberVars, token, connection, sync, dataVars>>
    BY <1>3 DEF Check, At
  <2>2. work' \in Work /\ work'.todo = work.todo /\ work'.at \in {"fetching", "saving"}
    BY <1>0, <1>3 DEF Check, Work, Result
  <2> QED
    BY <1>2, <2>1, <2>2
<1>4. ASSUME NEW results \in SUBSET Result, At("fetching"), FetchWith(results)
      PROVE  MarketTypeOK' /\ Queue' /\ RunningIsWorkedOn'
  <2>1. PICK result \in results :
          work' = [work EXCEPT !.at = "saving", !.rows = result # "failed",
                      !.result = IF work.cancelled THEN "cancelled" ELSE result]
    BY <1>4 DEF FetchWith
  <2>2. work' \in Work /\ work'.todo = work.todo /\ work'.at = "saving"
    BY <1>0, <2>1 DEF Work, Result
  <2> QED
    BY <1>2, <1>4, <2>2 DEF FetchWith, At
<1> QED
  BY <1>1, <1>3, <1>4

(* Every fetch answers one of the results.                                   *)
LEMMA FetchAnswers ==
  ASSUME FetchCatalog \/ FetchSellerStocks \/ FetchWBStocks \/ FetchOrders
  PROVE  \E results \in SUBSET Result : At("fetching") /\ FetchWith(results)
<1>1. {"ok", "part", "failed"} \in SUBSET Result /\ {"ok", "failed"} \in SUBSET Result
      /\ {"failed"} \in SUBSET Result
  BY DEF Result
<1> QED
  BY <1>1 DEF FetchCatalog, FetchSellerStocks, FetchWBStocks, FetchOrders, Fetching,
     BatchAnswer, WBStocksAnswer, StatusesAnswer

(* The rows of the data keep their types when they are saved.                *)
LEMMA SaveKeepsTypes ==
  ASSUME MarketTypeOK, NEW kind, NEW all, Save(kind, all)
  PROVE  /\ variants' \in [Variant -> [present : BOOLEAN, barcodes : SUBSET Barcode]]
         /\ mapping' \in [MappingKey -> {"none", "active", "missing"}]
         /\ stock' \in [StockKind -> SUBSET Position]
         /\ orders' \subseteq Order /\ origin' \subseteq Seller
<1> USE DEF MarketTypeOK
<1>1. origin' \subseteq Seller
  BY DEF Save
<1>2. ASSUME NEW some \in SUBSET Variant, NEW cards \in [some -> SUBSET Barcode],
             SaveCards(cards)
      PROVE  /\ variants' \in [Variant -> [present : BOOLEAN, barcodes : SUBSET Barcode]]
             /\ mapping' \in [MappingKey -> {"none", "active", "missing"}]
  <2>1. variants' = [v \in Variant |->
           IF v \in DOMAIN cards THEN [present |-> TRUE, barcodes |-> cards[v]]
           ELSE [variants[v] EXCEPT !.present = FALSE]]
    BY <1>2 DEF SaveCards
  <2>2. ASSUME NEW v \in Variant
        PROVE (IF v \in DOMAIN cards THEN [present |-> TRUE, barcodes |-> cards[v]]
               ELSE [variants[v] EXCEPT !.present = FALSE])
                 \in [present : BOOLEAN, barcodes : SUBSET Barcode]
    <3>1. CASE v \in DOMAIN cards
      <4>1. cards[v] \in SUBSET Barcode
        BY <3>1
      <4> QED
        BY <3>1, <4>1
    <3>2. CASE v \notin DOMAIN cards
      <4>1. variants[v] \in [present : BOOLEAN, barcodes : SUBSET Barcode]
        OBVIOUS
      <4> QED
        BY <3>2, <4>1
    <3> QED
      BY <3>1, <3>2
  <2>3. mapping' = [k \in MappingKey |->
           IF mapping[k] = "none" THEN "none"
           ELSE IF Listed(k[1], k[2], variants') THEN "active" ELSE "missing"]
    BY <1>2 DEF SaveCards
  <2>4. mapping' \in [MappingKey -> {"none", "active", "missing"}]
    BY <2>3
  <2> QED
    BY <2>1, <2>2, <2>4
<1>3. CASE kind = "catalog" /\ UNCHANGED <<stock, orders>>
           /\ \E some \in SUBSET Variant : \E cards \in [some -> SUBSET Barcode] :
                SaveCards(cards)
  BY <1>1, <1>2, <1>3
<1>4. CASE kind \in StockKind /\ SaveStockBatch(kind, all)
           /\ UNCHANGED <<variants, mapping, orders>>
  <2>1. PICK p \in SUBSET Position :
          stock' = [stock EXCEPT ![kind] = @ \cup IF all THEN Position ELSE p]
    BY <1>4 DEF SaveStockBatch
  <2> QED
    BY <1>1, <1>4, <2>1
<1>5. CASE kind = "orders" /\ SaveOrders /\ UNCHANGED <<variants, mapping, stock>>
  BY <1>1, <1>5 DEF SaveOrders
<1> QED
  BY <1>3, <1>4, <1>5 DEF Save

(* finish: the kind ends, and the job has another one or is over.            *)
LEMMA FinishRows ==
  ASSUME RowsInv, Finish
  PROVE  MarketTypeOK' /\ Queue' /\ RunningIsWorkedOn'
<1> USE DEF RowsInv
<1>0. /\ work # None /\ work.at = "saving"
      /\ UNCHANGED <<memberVars, token, connection>>
  BY DEF Finish, FinishWith, At
<1>1. work \in Work /\ work.todo \in Seq(Kind \ {"check"}) /\ work.todo # <<>>
      /\ TheKind \in Kind /\ TheKind # "check"
      /\ Tail(work.todo) \in Seq(Kind \ {"check"})
      /\ (Len(work.todo) # 1 => Tail(work.todo) # <<>>)
  BY <1>0, NextKind DEF MarketTypeOK, Queue
<1> DEFINE at == IF work.last \/ Len(work.todo) = 1 THEN "over" ELSE "next"
           state == IF InScope THEN StateOf(work.result, work.rows) ELSE "cancelled"
<1>2. Record(TheKind, state)
      /\ work' = [work EXCEPT !.at = at, !.todo = Tail(@), !.result = None, !.rows = FALSE]
  BY DEF Finish, FinishWith
<1>3. at \in {"over", "next"} /\ (at = "next" => Tail(work.todo) # <<>>)
      /\ state \in State \ {"running"}
  BY <1>1, StatesEnd DEF State
<1> HIDE DEF at, state
<1>4. /\ sync' \in [Kind -> State] /\ \A k \in Kind : sync'[k] # "running"
  <2>1. \A k \in Kind : sync[k] = "running" => k = TheKind
    BY <1>0 DEF RunningIsWorkedOn
  <2> QED
    BY <1>1, <1>2, <1>3, <2>1, RecordKeepsType
<1>5. Tail(work.todo) \in Seq(Kind)
  BY <1>1
<1>6. work' \in Work /\ work'.todo = Tail(work.todo) /\ work'.at = at
  BY <1>1, <1>2, <1>3, <1>5 DEF Work
<1>7. WorkFits' /\ RunningIsWorkedOn'
  BY <1>1, <1>3, <1>4, <1>6 DEF WorkFits, Queue, RunningIsWorkedOn
<1>8. /\ variants' \in [Variant -> [present : BOOLEAN, barcodes : SUBSET Barcode]]
      /\ mapping' \in [MappingKey -> {"none", "active", "missing"}]
      /\ stock' \in [StockKind -> SUBSET Position]
      /\ orders' \subseteq Order /\ origin' \subseteq Seller
  <2>1. CASE InScope /\ Storable
    BY <2>1, SaveKeepsTypes DEF Finish, FinishWith
  <2>2. CASE ~(InScope /\ Storable)
    BY <2>2 DEF Finish, FinishWith, dataVars, MarketTypeOK
  <2> QED
    BY <2>1, <2>2
<1> QED
  BY <1>0, <1>4, <1>7, <1>8 DEF MarketTypeOK, MembersTypeOK, memberVars, WorkFits

(* A job that only moves on, ends or is cancelled.                           *)
LEMMA EndRows ==
  ASSUME RowsInv, Read \/ SaveFails \/ Over \/ Timeout
  PROVE  MarketTypeOK' /\ Queue' /\ RunningIsWorkedOn'
<1> USE DEF RowsInv
<1>0. UNCHANGED <<memberVars, token, connection, sync, dataVars>> /\ work # None
      /\ sync' \in [Kind -> State]
  BY DEF Read, SaveFails, Over, Timeout, At, MarketTypeOK
<1>1. work \in Work
  BY <1>0 DEF MarketTypeOK
<1>2. CASE Read
  <2>1. work.at = "reading" /\ work' \in Work /\ work'.at = "over" /\ work'.todo = work.todo
    BY <1>1, <1>2 DEF Read, At, Go, Work
  <2>2. WorkFits' /\ RunningIsWorkedOn'
    BY <1>0, <2>1 DEF WorkFits, Queue, RunningIsWorkedOn
  <2> QED
    BY <1>0, <2>2, MoveKeeps
<1>3. CASE SaveFails
  <2>1. work.at = "saving" /\ work' \in Work /\ work'.at = "saving" /\ work'.todo = work.todo
    BY <1>1, <1>3 DEF SaveFails, At, Work, Result
  <2>2. WorkFits' /\ RunningIsWorkedOn'
    BY <1>0, <2>1 DEF WorkFits, Queue, RunningIsWorkedOn, TheKind
  <2> QED
    BY <1>0, <2>2, MoveKeeps
<1>4. CASE Over
  <2>1. WorkFits' /\ RunningIsWorkedOn'
    BY <1>0, <1>4 DEF Over, At, WorkFits, Queue, RunningIsWorkedOn
  <2> QED
    BY <1>0, <2>1, MoveKeeps
<1>5. CASE Timeout
  <2>1. work' \in Work /\ work'.at = work.at /\ work'.todo = work.todo
    BY <1>1, <1>5 DEF Timeout, Work
  <2>2. WorkFits' /\ RunningIsWorkedOn'
    BY <1>0, <2>1 DEF WorkFits, Queue, RunningIsWorkedOn, TheKind
  <2> QED
    BY <1>0, <2>2, MoveKeeps
<1> QED
  BY <1>2, <1>3, <1>4, <1>5

(* The connection is switched, a mapping is set, or the process starts anew. *)
LEMMA SwitchRows ==
  ASSUME RowsInv, \E u \in User :
           \/ Attach(u) \/ Disable(u)
           \/ \E v \in Variant, b \in Barcode \cup {NoBarcode} : SetMapping(u, v, b)
  PROVE  MarketTypeOK' /\ Queue' /\ RunningIsWorkedOn'
<1> USE DEF RowsInv
<1>1. ASSUME UNCHANGED <<memberVars, token, sync, dataVars>>,
             connection' \in Connection,
             \/ work' = work
             \/ work # None /\ work' = [work EXCEPT !.cancelled = TRUE]
      PROVE  MarketTypeOK' /\ Queue' /\ RunningIsWorkedOn'
  <2>1. \/ work' = work
        \/ work # None /\ work' \in Work /\ work'.at = work.at /\ work'.todo = work.todo
    <3>1. CASE work' = work
      BY <3>1
    <3>2. CASE work # None /\ work' = [work EXCEPT !.cancelled = TRUE]
      <4>1. work \in Work
        BY <3>2 DEF MarketTypeOK
      <4>2. work' \in Work /\ work'.at = work.at /\ work'.todo = work.todo
        BY <3>2, <4>1 DEF Work
      <4> QED
        BY <3>2, <4>2
    <3> QED
      BY <1>1, <3>1, <3>2
  <2>2. WorkFits' /\ RunningIsWorkedOn'
    BY <1>1, <2>1 DEF WorkFits, Queue, RunningIsWorkedOn, TheKind, MarketTypeOK
  <2> QED
    BY <1>1, <2>2 DEF MarketTypeOK, MembersTypeOK, memberVars, dataVars, WorkFits
<1>2. ASSUME NEW u \in User, Attach(u)
      PROVE  MarketTypeOK' /\ Queue' /\ RunningIsWorkedOn'
  <2>1. connection' \in Connection
    <3>1. CASE connection = None
      <4>1. connection' = [enabled |-> TRUE, revision |-> 1, seller |-> None, print |-> None]
        BY <1>2, <3>1 DEF Attach
      <4> QED
        BY <4>1 DEF Connection
    <3>2. CASE connection # None
      <4>1. connection' = [connection EXCEPT !.enabled = TRUE, !.revision = @ + 1]
            /\ connection.revision < MaxRevision /\ connection \in Connection
        BY <1>2, <3>2 DEF Attach, MarketTypeOK
      <4> QED
        BY <4>1, NextRevision
    <3> QED
      BY <3>1, <3>2
  <2> QED
    BY <1>1, <1>2, <2>1 DEF Attach
<1>3. ASSUME NEW u \in User, Disable(u)
      PROVE  MarketTypeOK' /\ Queue' /\ RunningIsWorkedOn'
  <2>1. connection' = [connection EXCEPT !.enabled = FALSE, !.revision = @ + 1]
        /\ connection.revision < MaxRevision /\ connection \in Connection
    BY <1>3 DEF Disable, MarketTypeOK
  <2>2. connection' \in Connection
    BY <2>1, NextRevision
  <2> QED
    BY <1>1, <1>3, <2>2 DEF Disable
<1>4. ASSUME NEW u \in User, NEW v \in Variant, NEW b \in Barcode \cup {NoBarcode},
             SetMapping(u, v, b)
      PROVE  MarketTypeOK' /\ Queue' /\ RunningIsWorkedOn'
  <2>1. mapping' \in [MappingKey -> {"none", "active", "missing"}]
    BY <1>4 DEF SetMapping, MarketTypeOK
  <2>2. UNCHANGED <<memberVars, token, connection, sync, variants, stock, orders, origin, work>>
    BY <1>4 DEF SetMapping
  <2> QED
    BY <2>1, <2>2 DEF MarketTypeOK, MembersTypeOK, memberVars, Queue, RunningIsWorkedOn, TheKind
<1> QED
  BY <1>2, <1>3, <1>4

-----------------------------------------------------------------------------
(* Every step keeps types, lists and rows.                                   *)
THEOREM RowsStep == RowsInv /\ [MarketNext]_marketVars => RowsInv'
<1> SUFFICES ASSUME RowsInv, [MarketNext]_marketVars
             PROVE  MarketTypeOK' /\ Queue' /\ RunningIsWorkedOn'
  BY CabinetStep DEF RowsInv
<1>1. ASSUME NEW u \in User, NEW command \in Command, Start(u, command)
      PROVE  MarketTypeOK' /\ Queue' /\ RunningIsWorkedOn'
  BY <1>1, StartRows
<1>2. ASSUME NEW u \in User, \/ Attach(u) \/ Disable(u)
                             \/ \E v \in Variant, b \in Barcode \cup {NoBarcode} :
                                  SetMapping(u, v, b)
      PROVE  MarketTypeOK' /\ Queue' /\ RunningIsWorkedOn'
  BY <1>2, SwitchRows
<1>3. CASE IdentityBegin \/ SellerAnswers \/ IdentityFinish
  BY <1>3, IdentityRows
<1>4. CASE BeginRun \/ Check
  BY <1>4, RunRows
<1>5. CASE FetchCatalog \/ FetchSellerStocks \/ FetchWBStocks \/ FetchOrders
  BY <1>5, FetchAnswers, RunRows
<1>6. CASE Finish
  BY <1>6, FinishRows
<1>7. CASE Read \/ SaveFails \/ Over \/ Timeout
  BY <1>7, EndRows
<1>8. CASE Restart
  <2>1. sync' \in [Kind -> State] /\ \A k \in Kind : sync'[k] # "running"
    BY <1>8 DEF Restart, RowsInv, MarketTypeOK, State
  <2>2. work' = None /\ token' \in Token /\ UNCHANGED <<memberVars, connection, dataVars>>
    BY <1>8 DEF Restart
  <2> QED
    BY <2>1, <2>2 DEF RowsInv, MarketTypeOK, MembersTypeOK, memberVars, dataVars, Queue,
       RunningIsWorkedOn
<1>9. CASE Others
  <2>1. MembersTypeOK'
    BY <1>9, OthersKeepMembers DEF RowsInv, MarketTypeOK
  <2>2. UNCHANGED <<token, connection, sync, dataVars, work>>
    BY <1>9 DEF Others
  <2> QED
    BY <2>1, <2>2 DEF RowsInv, MarketTypeOK, dataVars, Queue, RunningIsWorkedOn, TheKind
<1>10. CASE UNCHANGED marketVars
  BY <1>10 DEF RowsInv, MarketTypeOK, MembersTypeOK, memberVars, marketVars, Queue,
     RunningIsWorkedOn, TheKind
<1> QED
  BY <1>1, <1>2, <1>3, <1>4, <1>5, <1>6, <1>7, <1>8, <1>9, <1>10 DEF MarketNext

(* Everything has its type, and a row of marketplace_sync says "running"     *)
(* only while a job of this process is working on that kind, across every    *)
(* way a run can end and a restart (Service.begin, finish, NewService).      *)
THEOREM RowsCorrect == MarketSpec => []RowsAgree
<1>1. MarketInit => RowsInv
  <2> SUFFICES ASSUME MarketInit PROVE RowsInv
    OBVIOUS
  <2>1. CabinetInv
    BY DEF MarketInit, CabinetInv, Shape, Checked, Working, OneCabinet
  <2>2. MembersTypeOK
    BY GivenRoleAssumption DEF MarketInit, MembersInit, MembersTypeOK, MemberRole, Assignable
  <2>3. MarketTypeOK
    BY <2>2 DEF MarketInit, MarketTypeOK, State
  <2> QED
    BY <2>1, <2>3 DEF MarketInit, RowsInv, Queue, RunningIsWorkedOn
<1>2. RowsInv => RowsAgree
  BY DEF RowsInv, RowsAgree
<1> QED
  BY <1>1, <1>2, RowsStep, PTL DEF MarketSpec

(* What WB answered is stored only in the scope the job was started with:    *)
(* only finish writes the data, and it reads the scope again (finish).       *)
THEOREM ScopeKept == MarketSpec => SavedInScope
<1> DEFINE data == <<variants, stock, orders, origin>>
           A == data' # data => InScope
<1>1. [MarketNext]_marketVars => [A]_marketVars
  <2> SUFFICES ASSUME MarketNext, data' # data PROVE InScope
    OBVIOUS
  <2>1. ASSUME NEW u \in User, Attach(u) \/ Disable(u) \/ \E command \in Command : Start(u, command)
        PROVE  FALSE
    BY <2>1 DEF Attach, Disable, Start, dataVars
  <2>2. ASSUME NEW u \in User, NEW v \in Variant, NEW b \in Barcode \cup {NoBarcode},
               SetMapping(u, v, b)
        PROVE  FALSE
    BY <2>2 DEF SetMapping
  <2>3. CASE \/ Read \/ IdentityBegin \/ SellerAnswers \/ IdentityFinish
             \/ BeginRun \/ Check \/ SaveFails \/ Over \/ Timeout \/ Restart \/ Others
    BY <2>3 DEF Read, IdentityBegin, SellerAnswers, IdentityFinish, BeginRun, Check,
       SaveFails, Over, Timeout, Restart, Others, dataVars
  <2>4. CASE FetchCatalog \/ FetchSellerStocks \/ FetchWBStocks \/ FetchOrders
    BY <2>4 DEF FetchCatalog, FetchSellerStocks, FetchWBStocks, FetchOrders, FetchWith, dataVars
  <2>5. CASE Finish
    BY <2>5 DEF Finish, FinishWith, dataVars
  <2> QED
    BY <2>1, <2>2, <2>3, <2>4, <2>5 DEF MarketNext
<1>2. SavedInScope <=> [][A]_marketVars
  BY DEF SavedInScope
<1> HIDE DEF A
<1> QED
  BY <1>1, <1>2, PTL DEF MarketSpec
=============================================================================
