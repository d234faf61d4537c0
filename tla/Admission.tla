----------------------------- MODULE Admission -----------------------------
(***************************************************************************)
(* Admission of requests (internal/stability) and of their model calls     *)
(* (internal/llm).  A request is admitted or refused when it comes, waits  *)
(* until neither its user nor its dialogue has another one running, and    *)
(* may then ask for a model several times; the calls of a model go through *)
(* its gate.  Limits are changed while all of this runs.  An action is one *)
(* critical section of Runtime.mu or of a gate's mu, or a step of the      *)
(* goroutine of a request between two of them.                             *)
(***************************************************************************)
EXTENDS Integers, SequencesExt

CONSTANTS
  Job,           \* requests, each submitted at most once
  User, Dialogue,
  Inbound,       \* who writes where: a private chat, a web session, a group
  Lane,          \* the gates: the local model and the cloud
  NoJob,         \* not submitted
  Completed, Failed, Cancelled,   \* how a request ends
  NoLane,        \* no call in progress
  NoUser,        \* before the first grant
  MaxLimit,      \* bounds of the instance on the concurrency of a gate,
  MaxQueue,      \* on the length of the queue,
  MaxChange      \* and on changes of the limits

VARIABLES
  settings,      \* Store.effective
  changes,       \* changes made
  notices,       \* dispatches OnChange has still to do
  job,           \* the Jobs, each with its goroutine and its stored status
  pending,       \* Runtime.pending
  last,          \* Runtime.last
  gate,          \* Runtime.Local and Runtime.Cloud
  cancelled      \* requests in progress whose context is done

vars == <<settings, changes, notices, job, pending, last, gate, cancelled>>

ASSUME InboundAssumption == Inbound \subseteq User \X Dialogue
ASSUME EndAssumption == Cardinality({NoJob, Completed, Failed, Cancelled}) = 4
\* Who OnChange wakes beside the gates.
Runtime == "runtime"
ASSUME NobodyAssumption ==
  NoUser \notin User /\ NoLane \notin Lane /\ Runtime \notin Lane
ASSUME BoundsAssumption ==
  MaxLimit \in Nat \ {0} /\ MaxQueue \in Nat \ {0} /\ MaxChange \in Nat

\* Validate: no limit is below one.
Setting == [limit : [Lane -> 1 .. MaxLimit], queue : 1 .. MaxQueue]

Ended == {Completed, Failed, Cancelled}
Outside == Ended \cup {NoJob}

\* What a request in progress is at: its handler, or a call, waiting at the gate
\* of a model or using it.  It is shown as QUEUED while it is pending or waiting.
InProgress == {"working", "waiting", "holding"}

\* queue is Config.Queue, the limit at the time of the submission.
JobType == [user : User, dialogue : Dialogue, queue : 1 .. MaxQueue,
            at : {"pending"} \cup InProgress, lane : Lane \cup {NoLane}]

ASSUME JobAssumption == Outside \cap JobType = {}

Gate == [active : Nat, pending : Seq(Job), last : User \cup {NoUser}]

-----------------------------------------------------------------------------
(* Whose turn it is. *)

\* Variant TLC must refute: whoever was served last is preferred.
PreferredAgain(rows, wait, among, l) ==
  LET same == {i \in among : rows[wait[i]].user = l}
  IN  Min(IF same # {} THEN same ELSE among)

\* The first of another user than the last one served, or else the first.
Preferred(rows, wait, among, l) ==
  LET others == {i \in among : rows[wait[i]].user # l}
  IN  Min(IF others # {} THEN others ELSE among)

Live(rows) == {j \in Job : rows[j] \notin Outside}
Running(rows) == {j \in Job : rows[j] \notin Outside /\ rows[j].at \in InProgress}

\* Slots of all the gates together.
Slots(limit) == MapThenSumSet(LAMBDA l : limit[l], Lane)
Capacity == Slots(settings.limit)

\* Variant TLC must refute: only the dialogue is looked at.
EligibleAnyUser(rows, s) ==
  {i \in DOMAIN s.wait : \A k \in s.on : rows[k].dialogue # rows[s.wait[i]].dialogue}

\* Neither the dialogue nor the user has a request running.
Eligible(rows, s) ==
  {i \in DOMAIN s.wait : \A k \in s.on :
     /\ rows[k].dialogue # rows[s.wait[i]].dialogue
     /\ rows[k].user # rows[s.wait[i]].user}

\* Runtime.dispatch: one start, while there is room and somebody may run, ...
StartOne(rows, s) ==
  LET among == Eligible(rows, s)
      i == Preferred(rows, s.wait, among, s.last)
  IN  IF Cardinality(s.on) < Capacity /\ among # {}
      THEN [wait |-> RemoveAt(s.wait, i), on |-> s.on \cup {s.wait[i]},
            last |-> rows[s.wait[i]].user]
      ELSE s

\* ... as often as there are requests to start.
Starts(rows, wait) ==
  LET after[n \in 0 .. Len(wait)] ==
        IF n = 0 THEN [wait |-> wait, on |-> Running(rows), last |-> last]
        ELSE StartOne(rows, after[n - 1])
  IN  after[Len(wait)]

Dispatch(rows, wait) ==
  LET s == Starts(rows, wait) IN
  /\ pending' = s.wait
  /\ last' = s.last
  /\ job' = [j \in Job |-> IF j \in s.on \ Running(rows)
                           THEN [rows[j] EXCEPT !.at = "working"] ELSE rows[j]]

\* Gate.dispatch: one grant, while a slot is free, as often as there are waiters.
GrantOne(g, limit) ==
  LET i == Preferred(job, g.pending, DOMAIN g.pending, g.last)
  IN  IF g.pending # <<>> /\ g.active < limit
      THEN [active |-> g.active + 1, pending |-> RemoveAt(g.pending, i),
            last |-> job[g.pending[i]].user]
      ELSE g
Granted(g, limit) ==
  LET after[n \in 0 .. Len(g.pending)] ==
        IF n = 0 THEN g ELSE GrantOne(after[n - 1], limit)
  IN  after[Len(g.pending)]

\* Variant TLC must refute: nobody is woken.
FreedSilently(l) == [gate[l] EXCEPT !.active = @ - 1]

\* Gate.release.
Freed(l) == Granted([gate[l] EXCEPT !.active = @ - 1], settings.limit[l])

-----------------------------------------------------------------------------
(* Requests. *)

\* Submit, up to QUEUE_FULL and USER_QUEUE_FULL; waiting is how Submit calls
\* a request that can not be started at once.
Room(u, d) ==
  LET waiting == \/ Cardinality(Running(job)) >= Capacity
                 \/ \E k \in Running(job) : job[k].user = u \/ job[k].dialogue = d
  IN  /\ Cardinality(Running(job)) + Len(pending) < settings.queue + 1
      /\ waiting => /\ Len(pending) < settings.queue
                    /\ \A i \in DOMAIN pending : job[pending[i]].user # u

Submit(j, u, d) ==
  /\ job[j] = NoJob
  /\ Room(u, d)
  /\ Dispatch([job EXCEPT ![j] = [user |-> u, dialogue |-> d, queue |-> settings.queue,
                                  at |-> "pending", lane |-> NoLane]],
              Append(pending, j))
  /\ UNCHANGED <<settings, changes, notices, gate, cancelled>>

Is(j, where) == job[j] \notin Outside /\ job[j].at = where

\* The deadline, cancelRequest, the end of the process: the context is done.
Expire(j) ==
  /\ j \in Live(job)
  /\ cancelled' = cancelled \cup {j}
  /\ UNCHANGED <<settings, changes, notices, job, pending, last, gate>>

Ends(j, how) == [job EXCEPT ![j] = how]

\* The goroutine that watches a request takes it out of the queue.
Abandon(j) ==
  /\ j \in cancelled /\ Is(j, "pending")
  /\ pending' = RemoveFirst(pending, j)
  /\ job' = Ends(j, Cancelled)
  /\ cancelled' = cancelled \ {j}
  /\ UNCHANGED <<settings, changes, notices, last, gate>>

\* A handler that ended well is overruled by a context that is done.
Outcome(j, ok) ==
  IF j \in cancelled THEN Cancelled ELSE IF ok THEN Completed ELSE Failed

Finish(j, ok) ==
  /\ Is(j, "working")
  /\ Dispatch(Ends(j, Outcome(j, ok)), pending)
  /\ cancelled' = cancelled \ {j}
  /\ UNCHANGED <<settings, changes, notices, gate>>

-----------------------------------------------------------------------------
(* Model calls: Call and Generate. *)

Free(l) == gate[l].active < settings.limit[l] /\ gate[l].pending = <<>>

\* QUEUE_FULL and USER_QUEUE_FULL at a gate.
Full(j, l) ==
  /\ ~Free(l)
  /\ \/ Len(gate[l].pending) >= job[j].queue
     \/ \E i \in DOMAIN gate[l].pending : job[gate[l].pending[i]].user = job[j].user

GateStep(l, g) ==
  /\ gate' = [gate EXCEPT ![l] = g]
  /\ UNCHANGED <<settings, changes, notices, pending, last, cancelled>>

Moves(j, where, l) == job' = [job EXCEPT ![j].at = where, ![j].lane = l]

\* Gate.Acquire; a refusal is an error the handler gets.
Acquire(j, l) ==
  /\ Is(j, "working") /\ j \notin cancelled
  /\ \/ Free(l) /\ Moves(j, "holding", l) /\ GateStep(l, [gate[l] EXCEPT !.active = @ + 1])
     \/ /\ ~Free(l) /\ ~Full(j, l)
        /\ Moves(j, "waiting", l)
        /\ GateStep(l, [gate[l] EXCEPT !.pending = Append(@, j)])

\* A waiter that was granted is no longer in the queue of the gate.
Waits(j) == Is(j, "waiting") /\ j \in ToSet(gate[job[j].lane].pending)

Proceed(j) ==
  LET l == job[j].lane IN
  /\ Is(j, "waiting") /\ ~Waits(j)
  /\ Moves(j, "holding", l)
  /\ GateStep(l, gate[l])

\* Variant TLC must refute: a grant that came together with the end of the
\* context is forgotten.
GiveUpForgetful(j) ==
  LET l == job[j].lane IN
  /\ Is(j, "waiting") /\ j \in cancelled
  /\ Moves(j, "working", NoLane)
  /\ GateStep(l, [gate[l] EXCEPT !.pending = RemoveFirst(@, j)])

\* The context ends while waiting; a slot granted meanwhile is given back.
GiveUp(j) ==
  LET l == job[j].lane IN
  /\ Is(j, "waiting") /\ j \in cancelled
  /\ Moves(j, "working", NoLane)
  /\ GateStep(l, IF Waits(j)
                 THEN [gate[l] EXCEPT !.pending = RemoveFirst(@, j)]
                 ELSE Freed(l))

\* The answer, an error or the end of the context: the deferred release.
Release(j) ==
  LET l == job[j].lane IN
  /\ Is(j, "holding")
  /\ Moves(j, "working", NoLane)
  /\ GateStep(l, Freed(l))

-----------------------------------------------------------------------------
(* Limits. *)

\* One parameter at a time; OnChange runs in a goroutine of its own.
Change(s) ==
  /\ changes < MaxChange
  /\ s # settings
  /\ s.queue # settings.queue => s.limit = settings.limit
  /\ \E l \in Lane : \A k \in Lane \ {l} : s.limit[k] = settings.limit[k]
  /\ settings' = s
  /\ changes' = changes + 1
  /\ notices' = Lane \cup {Runtime}
  /\ UNCHANGED <<job, pending, last, gate, cancelled>>

WakeGate(l) ==
  /\ l \in notices
  /\ notices' = notices \ {l}
  /\ gate' = [gate EXCEPT ![l] = Granted(@, settings.limit[l])]
  /\ UNCHANGED <<settings, changes, job, pending, last, cancelled>>

WakeRuntime ==
  /\ Runtime \in notices
  /\ notices' = notices \ {Runtime}
  /\ Dispatch(job, pending)
  /\ UNCHANGED <<settings, changes, gate, cancelled>>

-----------------------------------------------------------------------------
\* What the goroutine of j does by itself.
JobStep(j) ==
  \/ Abandon(j)
  \/ \E ok \in BOOLEAN : Finish(j, ok)
  \/ \E l \in Lane : Acquire(j, l)
  \/ Proceed(j) \/ GiveUp(j) \/ Release(j)

Next ==
  \/ \E j \in Job, to \in Inbound : Submit(j, to[1], to[2])
  \/ \E j \in Job : JobStep(j) \/ Expire(j)
  \/ \E s \in Setting : Change(s)
  \/ \E l \in Lane : WakeGate(l)
  \/ WakeRuntime

Init ==
  /\ settings \in Setting
  /\ changes = 0
  /\ notices = {}
  /\ job = [j \in Job |-> NoJob]
  /\ pending = <<>>
  /\ last = NoUser
  /\ gate = [l \in Lane |-> [active |-> 0, pending |-> <<>>, last |-> NoUser]]
  /\ cancelled = {}

Spec == Init /\ [][Next]_vars

\* Goroutines run, a provider answers or fails, a handler asks a model finitely
\* often and returns.  Nobody's deadline need come.
Progress ==
  /\ \A j \in Job : /\ SF_vars(\E ok \in BOOLEAN : Finish(j, ok))
                     /\ WF_vars(Proceed(j) \/ Release(j))
  /\ \A l \in Lane : WF_vars(WakeGate(l))
  /\ WF_vars(WakeRuntime)

FairSpec == Spec /\ Progress

-----------------------------------------------------------------------------
(* Properties. *)

(* The runtime, the gates and the requests keep their types.                 *)
TypeOK ==
  /\ settings \in Setting
  /\ changes \in 0 .. MaxChange
  /\ notices \subseteq Lane \cup {Runtime}
  /\ job \in [Job -> JobType \cup Ended \cup {NoJob}]
  /\ pending \in Seq(Job)
  /\ last \in User \cup {NoUser}
  /\ gate \in [Lane -> Gate]
  /\ cancelled \subseteq Live(job)

(* The slots a gate has given away are exactly those of the requests that    *)
(* use the model or were just granted it, whichever way a wait ended; and    *)
(* who queues is who waits, once: nothing ended keeps a place.               *)
SlotsMatchHolders ==
  /\ \A l \in Lane :
       LET on == {j \in Live(job) : job[j].lane = l} IN
       /\ gate[l].active =
            Cardinality({j \in on : Is(j, "holding") \/ (Is(j, "waiting") /\ ~Waits(j))})
       /\ IsInjective(gate[l].pending)
       /\ ToSet(gate[l].pending) = {j \in on : Waits(j)}
  /\ IsInjective(pending)
  /\ ToSet(pending) = {j \in Job : Is(j, "pending")}

(* Whatever started them, no two running requests share a user or a          *)
(* dialogue: a handler has its conversation to itself even while it has      *)
(* released the application lock and waits for a model.                      *)
Exclusive ==
  \A j, k \in Running(job) :
    j # k => job[j].user # job[k].user /\ job[j].dialogue # job[k].dialogue

(* A request that was admitted finds room at every gate: it can be refused   *)
(* there only after the queue was made longer and later requests, admitted   *)
(* under the longer one, have come in between.                               *)
AdmittedFits ==
  \A j \in Running(job), l \in Lane :
    Is(j, "working") /\ Full(j, l) =>
      \E k \in Running(job) : job[k].queue > job[j].queue

(* Nobody waits for nothing: while a slot of a gate is free or a request may *)
(* run beside the others, nobody queues for it, but for the moment in which  *)
(* OnChange has a raised limit still to make known.  Whatever frees a slot   *)
(* or a person wakes the next one (release, finish, WakeGate).               *)
NoWakeupLost ==
  /\ \A l \in Lane \ notices :
       gate[l].pending # <<>> => gate[l].active >= settings.limit[l]
  /\ Runtime \notin notices /\ Cardinality(Running(job)) < Capacity =>
       Eligible(job, [wait |-> pending, on |-> Running(job), last |-> last]) = {}

(* Everything has its type; the slots a gate has given away are those of the *)
(* requests that use the model or were just granted it, and whoever queues   *)
(* waits, and not for something that is free; and a request that was         *)
(* admitted finds room at every gate unless the queue was made longer after  *)
(* it (queue.go, llm/admission.go).                                          *)
HoldersAgree == TypeOK /\ SlotsMatchHolders /\ NoWakeupLost /\ AdmittedFits

(* Whoever has come to the head of a gate's queue is passed over at most     *)
(* once, and only for somebody else who is served in its place.              *)
HeadPassedOnce ==
  [][\A l \in Lane :
       LET head == gate[l].pending[1]
           gone == ToSet(gate[l].pending) \ ToSet(gate'[l].pending)
       IN  /\ gate[l].pending # <<>> /\ head \notin gone
           /\ \E j \in gone : job'[j].at = "waiting"
           => gate[l].last = job[head].user /\ gate'[l].last # job[head].user]_vars

(* Every admitted request ends, without any deadline: no wakeup is lost.     *)
EveryRequestEnds ==
  \A j \in Job : j \in Live(job) ~> job[j] \in Ended
=============================================================================
