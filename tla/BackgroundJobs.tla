--------------------------- MODULE BackgroundJobs ---------------------------
(***************************************************************************)
(* The daily marketplace job of one workshop (internal/background): its    *)
(* schedule, the ticker that claims a run for every local date, the lease  *)
(* that says who may still write, the executor's reads, computation and    *)
(* publication, and the message at the end.  A run is executed by the      *)
(* ticker's goroutine or by the one that serves "run now"; the database is *)
(* shared, and a crash leaves it behind.  Each action is one transaction   *)
(* or one statement; network calls lie between actions.                    *)
(***************************************************************************)
EXTENDS Integers, FiniteSets

CONSTANTS
  Clock,         \* the goroutine of Scheduler.Start
  Manual,        \* goroutines serving RunJobNow
  NoJob,         \* the workshop has no job yet
  NoRun,         \* this run id is not in the table
  Day,           \* length of a day, in units of the clock
  Lease,         \* how long a lease lasts unless it is extended
  LocalTime,     \* the times of day people choose
  Zone,          \* the UTC offsets of the zones people choose
  MaxTime,       \* bounds of the instance on the clock,
  MaxRun,        \* on runs,
  MaxRevision,   \* on changes of the connection,
  MaxThreshold,  \* on the low-stock threshold,
  MaxCrash       \* and on crashes

VARIABLES
  now,           \* seconds of the wall clock, coarsened
  job,           \* the row of background_jobs
  runs,          \* the table background_job_runs
  worker,        \* the goroutines that execute runs
  current,       \* the run whose data wb_daily_current holds, 0 before the first
  threshold,     \* workshop_settings.wb_low_stock_threshold
  allowed,       \* the job's creator may read the enabled connection
  revision,      \* marketplace_connections.revision
  sent,          \* sent[r]: messages handed to the Sender for run r
  crashes

dbVars  == <<job, runs, current, threshold, allowed, revision>>
vars == <<now, dbVars, worker, sent, crashes>>

Worker == Manual \cup {Clock}
RunId  == 1 .. MaxRun
Result == {"success", "partial_success", "failed"}

ASSUME DayAssumption == Day \in Nat \ {0} /\ Lease \in Nat \ {0}
ASSUME TimeAssumption == LocalTime \subseteq 0 .. Day - 1 /\ Zone \subseteq Nat
ASSUME BoundsAssumption ==
  MaxTime \in Nat /\ MaxRun \in Nat /\ MaxRevision \in Nat \ {0}
    /\ MaxThreshold \in Nat /\ MaxCrash \in Nat
ASSUME ClockAssumption == Clock \notin Manual

Job == [status : {"active", "paused", "cancelled"},
        local : LocalTime, zone : Zone, next : Int, last : Result \cup {""}]

ASSUME JobAssumption == NoJob \notin Job

\* "interrupted" is status failed with that error code.
Run == [date : Nat, status : Result \cup {"running", "interrupted"}, until : Nat,
        note : {"pending", "sent", "failed", "suppressed"}]

ASSUME RunAssumption == NoRun \notin Run

Busy == {"claimed", "reading", "read", "built", "done", "notify", "send", "mark"}

\* rev is the connection's revision the executor started from, 0 if it did not
\* start; basis is what its aggregate was computed against.
Goroutine == [pc : {"idle", "tick"} \cup Busy, run : 0 .. MaxRun,
              rev : 0 .. MaxRevision, basis : (0 .. MaxRun) \X (0 .. MaxThreshold),
              cancelled : BOOLEAN, result : Result]

Idle == [pc |-> "idle", run |-> 0, rev |-> 0, basis |-> <<0, 0>>,
         cancelled |-> FALSE, result |-> "failed"]

-----------------------------------------------------------------------------
(* Schedule. *)

Date(z) == (now + z) \div Day

\* Next: the chosen time of the current local day, which may be over; without
\* catchUp it is the first one still to come.
NextDue(l, z, catchUp) ==
  LET due == Date(z) * Day + l - z
  IN  IF due > now \/ catchUp THEN due ELSE due + Day

Today    == NextDue(job.local, job.zone, TRUE)
Tomorrow == NextDue(job.local, job.zone, FALSE)

-----------------------------------------------------------------------------
(* The owner's operations on the job. *)

Others == <<now, worker, sent, crashes, current, allowed, revision>>

\* CreateJob returns an existing job as it is.
CreateJob(l, z) ==
  /\ job = NoJob
  /\ allowed
  /\ job' = [status |-> "active", local |-> l, zone |-> z,
             next |-> NextDue(l, z, TRUE), last |-> ""]
  /\ UNCHANGED <<Others, runs, threshold>>

\* The end of UpdateJob: an active job is due at its time of the current day.
Reschedule(j) ==
  job' = IF j.status = "active"
         THEN [j EXCEPT !.next = NextDue(j.local, j.zone, TRUE)] ELSE j

Pause ==
  /\ job # NoJob /\ job.status = "active"
  /\ Reschedule([job EXCEPT !.status = "paused"])
  /\ UNCHANGED <<Others, runs, threshold>>

Resume ==
  /\ job # NoJob /\ job.status = "paused"
  /\ Reschedule([job EXCEPT !.status = "active"])
  /\ UNCHANGED <<Others, runs, threshold>>

Cancel ==
  /\ job # NoJob
  /\ Reschedule([job EXCEPT !.status = "cancelled"])
  /\ UNCHANGED <<Others, runs, threshold>>

ChangeTime(l, z, n) ==
  /\ job # NoJob /\ job.status # "cancelled"
  /\ Reschedule([job EXCEPT !.local = l, !.zone = z])
  /\ threshold' = n
  /\ UNCHANGED <<Others, runs>>

-----------------------------------------------------------------------------
(* Claiming a run. *)

Running(r) == runs[r] # NoRun /\ runs[r].status = "running"
Held(r) == Running(r) /\ runs[r].until > now
Expired(r) == Running(r) /\ runs[r].until <= now

\* Variant TLC must refute: leases are never reclaimed.
TickForgetful ==
  /\ worker[Clock].pc = "idle"
  /\ worker' = [worker EXCEPT ![Clock].pc = "tick"]
  /\ UNCHANGED <<now, dbVars, sent, crashes>>

\* Tick: runs whose lease is over are ended; then the due jobs are executed.
Tick ==
  /\ worker[Clock].pc = "idle"
  /\ runs' = [r \in RunId |-> IF Expired(r) THEN [runs[r] EXCEPT !.status = "interrupted"]
                              ELSE runs[r]]
  /\ worker' = [worker EXCEPT ![Clock].pc = "tick"]
  /\ UNCHANGED <<now, job, current, threshold, allowed, revision, sent, crashes>>

\* Variant TLC must refute: only an overlap is looked at.
FreeToday(date) == \A r \in RunId : ~Running(r)

\* The two unique indexes: one run a local date, one running.
Free(date) == \A r \in RunId : runs[r] # NoRun => runs[r].date # date /\ ~Running(r)

\* execute, up to the insert.
Executable(w) ==
  /\ job # NoJob
  /\ IF w = Clock
     THEN worker[w].pc = "tick" /\ job.status = "active" /\ job.next <= now
     ELSE worker[w].pc = "idle" /\ job.status \in {"active", "paused"}

\* Nothing is due, or a due time of an earlier day is moved to today's.
TickEnds ==
  /\ worker[Clock].pc = "tick"
  /\ \/ ~Executable(Clock) /\ UNCHANGED job
     \/ Executable(Clock) /\ Today > now /\ job' = [job EXCEPT !.next = Today]
  /\ worker' = [worker EXCEPT ![Clock] = Idle]
  /\ UNCHANGED <<now, runs, current, threshold, allowed, revision, sent, crashes>>

Startable(w) == Executable(w) /\ (w = Clock => Today <= now)

Claim(w, r) ==
  /\ Startable(w)
  /\ Free(Date(job.zone))
  /\ runs[r] = NoRun /\ \A s \in RunId : s < r => runs[s] # NoRun
  /\ runs' = [runs EXCEPT ![r] = [date |-> Date(job.zone), status |-> "running",
                                  until |-> now + Lease, note |-> "pending"]]
  /\ job' = [job EXCEPT !.next = Tomorrow]
  /\ worker' = [worker EXCEPT ![w] = [Idle EXCEPT !.pc = "claimed", !.run = r]]
  /\ UNCHANGED <<now, current, threshold, allowed, revision, sent, crashes>>

\* Variant TLC must refute: the schedule is not moved.
RefuseOnly(w) ==
  /\ Startable(w)
  /\ ~Free(Date(job.zone))
  /\ worker' = [worker EXCEPT ![w] = Idle]
  /\ UNCHANGED <<now, dbVars, sent, crashes>>

\* ErrBusy, with the schedule moved all the same.
Refuse(w) ==
  /\ Startable(w)
  /\ ~Free(Date(job.zone))
  /\ job' = [job EXCEPT !.next = Tomorrow]
  /\ worker' = [worker EXCEPT ![w] = Idle]
  /\ UNCHANGED <<now, runs, current, threshold, allowed, revision, sent, crashes>>

-----------------------------------------------------------------------------
(* Executing it. *)

Steps(w, new) == worker' = [worker EXCEPT ![w] = new]
NoWrite == UNCHANGED <<now, dbVars, sent, crashes>>

\* check: the creator's right, the connection, the job.
Check(rev) ==
  /\ allowed
  /\ rev # 0 => rev = revision
  /\ job.status # "cancelled"

\* The heartbeat goroutine extends the lease while the run is still its own.
Heartbeat(w) ==
  LET r == worker[w].run IN
  /\ worker[w].pc \in Busy /\ ~worker[w].cancelled
  /\ IF Check(0) /\ Held(r)
     THEN runs' = [runs EXCEPT ![r].until = now + Lease] /\ UNCHANGED worker
     ELSE UNCHANGED runs /\ Steps(w, [worker[w] EXCEPT !.cancelled = TRUE])
  /\ UNCHANGED <<now, job, current, threshold, allowed, revision, sent, crashes>>

Start(w) ==
  /\ worker[w].pc = "claimed"
  /\ Steps(w, IF Check(0) THEN [worker[w] EXCEPT !.pc = "reading", !.rev = revision]
              ELSE [worker[w] EXCEPT !.pc = "done"])
  /\ NoWrite

\* Variant TLC must refute: the lease is not looked at.
ValidUnleased(w) == Check(worker[w].rev) /\ worker[w].rev # 0

\* validatePipeline.
Valid(w) == Check(worker[w].rev) /\ Held(worker[w].run)

\* The three reads: what they found decides the status, and only that.
Read(w, outcome) ==
  /\ worker[w].pc = "reading" /\ ~worker[w].cancelled
  /\ Valid(w)
  /\ Steps(w, [worker[w] EXCEPT !.pc = "read", !.result = outcome])
  /\ NoWrite

Build(w) ==
  /\ worker[w].pc = "read" /\ ~worker[w].cancelled
  /\ Valid(w)
  /\ Steps(w, [worker[w] EXCEPT !.pc = "built", !.basis = <<current, threshold>>])
  /\ NoWrite

\* SaveMarketSnapshot recomputes the aggregate and publishes everything in one
\* transaction; the answer may be lost on the way back.
Save(w, outcome) ==
  /\ worker[w].pc = "built" /\ ~worker[w].cancelled
  /\ Valid(w)
  /\ worker[w].basis = <<current, threshold>>
  /\ outcome \in {worker[w].result, "failed"}
  /\ current' = worker[w].run
  /\ Steps(w, [worker[w] EXCEPT !.pc = "done", !.result = outcome])
  /\ UNCHANGED <<now, job, runs, threshold, allowed, revision, sent, crashes>>

\* A fatal error, a refused step, four minutes: the pipeline ends without a result.
Abort(w) ==
  /\ worker[w].pc \in {"reading", "read", "built"}
  /\ Steps(w, [worker[w] EXCEPT !.pc = "done", !.result = "failed"])
  /\ NoWrite

\* Variant TLC must refute: an ended run is ended again.
FinishAnyway(w) ==
  LET r == worker[w].run IN
  /\ worker[w].pc = "done"
  /\ runs' = [runs EXCEPT ![r].status = worker[w].result]
  /\ job' = [job EXCEPT !.last = worker[w].result]
  /\ Steps(w, [worker[w] EXCEPT !.pc = "notify"])
  /\ UNCHANGED <<now, current, threshold, allowed, revision, sent, crashes>>

\* The final transaction: the result of whoever still holds the lease.
Finish(w) ==
  LET r == worker[w].run IN
  /\ worker[w].pc = "done"
  /\ IF Held(r)
     THEN /\ runs' = [runs EXCEPT ![r].status = worker[w].result]
          /\ job' = [job EXCEPT !.last = worker[w].result]
          /\ Steps(w, [worker[w] EXCEPT !.pc = "notify"])
     ELSE UNCHANGED <<runs, job>> /\ Steps(w, Idle)
  /\ UNCHANGED <<now, current, threshold, allowed, revision, sent, crashes>>

\* CanNotify, and without the right a silent end.
Notify(w) ==
  LET r == worker[w].run IN
  /\ worker[w].pc = "notify"
  /\ IF Check(worker[w].rev)
     THEN UNCHANGED runs /\ Steps(w, [worker[w] EXCEPT !.pc = "send"])
     ELSE runs' = [runs EXCEPT ![r].note = "suppressed"] /\ Steps(w, Idle)
  /\ UNCHANGED <<now, job, current, threshold, allowed, revision, sent, crashes>>

Send(w) ==
  /\ worker[w].pc = "send"
  /\ sent' = [sent EXCEPT ![worker[w].run] = @ + 1]
  /\ Steps(w, [worker[w] EXCEPT !.pc = "mark"])
  /\ UNCHANGED <<now, dbVars, crashes>>

Mark(w, note) ==
  /\ worker[w].pc = "mark"
  /\ runs' = [runs EXCEPT ![worker[w].run].note = note]
  /\ Steps(w, Idle)
  /\ UNCHANGED <<now, job, current, threshold, allowed, revision, sent, crashes>>

-----------------------------------------------------------------------------
(* The world. *)

TimePasses ==
  /\ now < MaxTime
  /\ now' = now + 1
  /\ UNCHANGED <<dbVars, worker, sent, crashes>>

\* The creator's right to read the connection, or the connection itself, is
\* taken away or given back.
AccessChanges ==
  /\ allowed' = ~allowed
  /\ UNCHANGED <<now, job, runs, current, threshold, revision, worker, sent, crashes>>

\* The connection was disabled and attached again, perhaps to another account.
Reconnect ==
  /\ revision < MaxRevision
  /\ revision' = revision + 1
  /\ UNCHANGED <<now, job, runs, current, threshold, allowed, worker, sent, crashes>>

\* The process dies and is started again: goroutines are gone, rows are not.
Crash ==
  /\ crashes < MaxCrash
  /\ crashes' = crashes + 1
  /\ worker' = [w \in Worker |-> Idle]
  /\ UNCHANGED <<now, dbVars, sent>>

-----------------------------------------------------------------------------
\* What a goroutine does next by itself.
WorkerStep(w) ==
  \/ \E r \in RunId : Claim(w, r)
  \/ Refuse(w)
  \/ Start(w)
  \/ \E outcome \in Result : Read(w, outcome) \/ Save(w, outcome)
  \/ Build(w)
  \/ Abort(w)
  \/ Finish(w)
  \/ Notify(w)
  \/ Send(w)
  \/ \E note \in {"sent", "failed"} : Mark(w, note)

Next ==
  \/ \E l \in LocalTime, z \in Zone : CreateJob(l, z)
  \/ Pause \/ Resume \/ Cancel
  \/ \E l \in LocalTime, z \in Zone, n \in 0 .. MaxThreshold : ChangeTime(l, z, n)
  \/ Tick \/ TickEnds
  \/ \E w \in Worker : WorkerStep(w) \/ Heartbeat(w)
  \/ TimePasses \/ AccessChanges \/ Reconnect \/ Crash

Init ==
  /\ now = 0
  /\ job = NoJob
  /\ runs = [r \in RunId |-> NoRun]
  /\ worker = [w \in Worker |-> Idle]
  /\ current = 0
  /\ threshold = 0
  /\ allowed = TRUE
  /\ revision = 1
  /\ sent = [r \in RunId |-> 0]
  /\ crashes = 0

Spec == Init /\ [][Next]_vars

\* The ticker fires again and again, and a goroutine with something to do does
\* it: an executor's context ends after four minutes whatever the network does.
Progress ==
  /\ WF_vars(Tick)
  /\ WF_vars(TickEnds \/ WorkerStep(Clock))
  /\ \A w \in Manual : WF_vars(worker[w].pc # "idle" /\ WorkerStep(w))

FairSpec == Spec /\ Progress

-----------------------------------------------------------------------------
(* Properties. *)

(* The rows keep their types.                                                *)
TypeOK ==
  /\ now \in 0 .. MaxTime
  /\ job \in Job \cup {NoJob}
  /\ runs \in [RunId -> Run \cup {NoRun}]
  /\ worker \in [Worker -> Goroutine]
  /\ current \in 0 .. MaxRun
  /\ threshold \in 0 .. MaxThreshold
  /\ allowed \in BOOLEAN
  /\ revision \in 1 .. MaxRevision
  /\ sent \in [RunId -> Nat]
  /\ crashes \in 0 .. MaxCrash

(* A run that has ended keeps its result: a worker that lost its lease can   *)
(* not come back and replace "interrupted", nor anybody else.                *)
RunFinal ==
  [][\A r \in RunId :
       runs[r] # NoRun /\ runs[r].status # "running" =>
         runs'[r].status = runs[r].status]_vars

(* What is published comes from the run in force, is compared with what it   *)
(* replaces under the threshold that is in force, and was read from the      *)
(* connection the workshop still has.                                        *)
PublishedInForce ==
  [][current' # current =>
       /\ Held(current')
       /\ current' > current
       /\ \E w \in Worker :
            /\ worker[w].run = current'
            /\ worker[w].rev = revision
            /\ worker[w].basis = <<current, threshold>>]_vars

(* The job shows the result of the latest run that ended by itself.          *)
LastResultIsLatest ==
  LET own == {r \in RunId : runs[r] # NoRun /\ runs[r].status \in Result} IN
  job # NoJob =>
    /\ own = {} => job.last = ""
    /\ \A r \in own : (\A s \in own : s <= r) => job.last = runs[r].status

(* A local date is announced at most once, whoever starts its run, however   *)
(* time and zone are moved and wherever the process dies; what is announced  *)
(* was recorded first, and a delivery is noted only if there was one.        *)
ToldOnce ==
  \A r, s \in RunId :
    /\ sent[r] <= 1
    /\ sent[r] = 1 => runs[r] # NoRun /\ runs[r].status \in Result
    /\ runs[r] # NoRun /\ runs[r].note \in {"sent", "failed"} => sent[r] = 1
    /\ r # s /\ sent[r] + sent[s] = 2 => runs[r].date # runs[s].date

(* Cancelling is final: no run is claimed and nothing is published any more, *)
(* although a run in progress is not stopped.                                *)
CancelFinal ==
  [][job # NoJob /\ job.status = "cancelled" =>
       /\ job'.status = "cancelled"
       /\ current' = current
       /\ \A r \in RunId : runs[r] = NoRun => runs'[r] = NoRun]_vars

(* A run whose lease is over is ended, even if its process died: the next    *)
(* tick comes although the ticker's goroutine executes runs itself.          *)
ExpiredEnds == \A r \in RunId : Expired(r) ~> ~Running(r)

(* An active job does not stay due: each time it is, the schedule moves on,  *)
(* with a run or without.                                                    *)
Due == job # NoJob /\ job.status = "active" /\ job.next <= now
NeverStuckDue == Due ~> ~Due

(* When a due job is put off to another day, the day has its run.            *)
DueDayHasRun ==
  [][Due /\ job'.next > now /\ job' = [job EXCEPT !.next = job'.next]
       /\ job'.next # Today =>
     \E r \in RunId : runs'[r] # NoRun /\ runs'[r].date = Date(job.zone)]_vars
=============================================================================
