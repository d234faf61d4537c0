----------------------- MODULE BackgroundJobs_proofs -----------------------
(***************************************************************************)
(* Proofs about BackgroundJobs.  The inductive invariant says what is true *)
(* of a goroutine that executes a run, and that runs are claimed one after *)
(* the other: the one still running is the last.                           *)
(***************************************************************************)
EXTENDS BackgroundJobs, TLAPS

Present(r) == runs[r] # NoRun

Pipeline == {"claimed", "reading", "read", "built"}
Telling == {"notify", "send", "mark"}

(* A goroutine between claiming a run and being done with it has a run of    *)
(* its own, of an existing job; it has not published it before it is done    *)
(* with the pipeline, and not announced it before it has recorded a result.  *)
Owns(w) ==
  LET r == worker[w].run IN
  /\ r \in RunId /\ Present(r) /\ job # NoJob
  /\ worker[w].pc \in Pipeline => current # r
  /\ worker[w].pc = "mark" <=> sent[r] = 1
  /\ worker[w].pc \in Telling <=> runs[r].status \in Result

Owned ==
  /\ \A w \in Worker : worker[w].pc \in Busy => Owns(w)
  /\ \A v, w \in Worker :
       worker[v].pc \in Busy /\ worker[w].pc \in Busy /\ v # w =>
         worker[v].run # worker[w].run

(* Runs are claimed in the order of their numbers, each for a date of its    *)
(* own, and only the last one may be running; what is published is a run.    *)
InOrder ==
  /\ \A r, s \in RunId : r < s /\ Present(s) => Present(r) /\ ~Running(r)
  /\ \A r, s \in RunId : Present(r) /\ Present(s) /\ r # s => runs[r].date # runs[s].date
  /\ current # 0 => Present(current)
  /\ job = NoJob => \A r \in RunId : ~Present(r)

IInv == TypeOK /\ Owned /\ InOrder /\ LastResultIsLatest /\ ToldOnce

-----------------------------------------------------------------------------
(* Time. *)

(* Dates are natural numbers and due times are integers.                     *)
LEMMA DateType ==
  ASSUME now \in Nat, NEW z \in Zone
  PROVE  Date(z) \in Nat
<1>1. now + z \in Nat
  BY TimeAssumption
<1>2. Day \in Nat \ {0}
  BY DayAssumption
<1>3. \A a \in Nat, d \in Nat \ {0} : a \div d \in Nat
  OBVIOUS
<1> QED BY <1>1, <1>2, <1>3 DEF Date

(* A due time is an integer; in an eastern zone it may precede time 0.       *)
LEMMA NextType ==
  ASSUME now \in Nat, NEW l \in LocalTime, NEW z \in Zone, NEW c \in BOOLEAN
  PROVE  NextDue(l, z, c) \in Int
<1>1. Date(z) \in Nat /\ Day \in Nat /\ l \in Int /\ z \in Int
  BY DateType, TimeAssumption, DayAssumption
<1>2. \A a, b \in Nat : a * b \in Int
  OBVIOUS
<1>3. Date(z) * Day \in Int
  BY <1>1, <1>2
<1>4. Date(z) * Day + l - z \in Int
  BY <1>1, <1>3
<1> QED BY <1>1, <1>4 DEF NextDue

-----------------------------------------------------------------------------
(* What the invariant says about one row. *)

(* The fields of a row that exists.                                          *)
LEMMA RowTypes ==
  ASSUME TypeOK, NEW r \in RunId, Present(r)
  PROVE  /\ runs[r] \in Run
         /\ runs[r].date \in Nat /\ runs[r].until \in Nat
         /\ runs[r].status \in Result \cup {"running", "interrupted"}
         /\ runs[r].note \in {"pending", "sent", "failed", "suppressed"}
BY DEF TypeOK, Present, Run

(* The fields of a goroutine.                                                *)
LEMMA WorkerTypes ==
  ASSUME TypeOK, NEW w \in Worker
  PROVE  /\ worker[w] \in Goroutine
         /\ worker[w].pc \in {"idle", "tick"} \cup Busy
         /\ worker[w].run \in 0 .. MaxRun /\ worker[w].rev \in 0 .. MaxRevision
         /\ worker[w].result \in Result
BY DEF TypeOK, Goroutine

-----------------------------------------------------------------------------
(* Steps that neither claim, publish, finish nor send. *)

\* A goroutine goes on with its run, staying on the same side of publication,
\* of the recorded result and of the message, or it stops.
GoesOn(w) ==
  worker'[w].pc \in Busy =>
    /\ worker[w].pc \in Busy /\ worker'[w].run = worker[w].run
    /\ worker'[w].pc \in Pipeline => worker[w].pc \in Pipeline
    /\ worker'[w].pc \in Telling <=> worker[w].pc \in Telling
    /\ worker'[w].pc = "mark" <=> worker[w].pc = "mark"

\* A run stays, is declared interrupted, gets a longer lease or a note.
Lives(r) ==
  /\ Present(r)' <=> Present(r)
  /\ Present(r) =>
       /\ runs'[r].date = runs[r].date
       /\ \/ runs'[r].status = runs[r].status
          \/ runs[r].status = "running" /\ runs'[r].status = "interrupted"
       /\ runs'[r].note \in {"sent", "failed"} => sent[r] = 1

\* The job keeps the result it shows, or is new.
JobLives ==
  \/ job' = job
  \/ /\ job' \in Job
     /\ IF job = NoJob THEN job'.last = "" ELSE job'.last = job.last

(* A step made of such changes keeps the invariant.                          *)
LEMMA Keeps ==
  ASSUME IInv, TypeOK', current' = current, sent' = sent, JobLives,
         \A w \in Worker : GoesOn(w),
         \A r \in RunId : Lives(r)
  PROVE  IInv'
<1> USE DEF IInv
<1>1. job # NoJob => job' # NoJob
  BY JobAssumption DEF JobLives
<1>2. \A r \in RunId :
        Present(r) => (runs'[r].status \in Result <=> runs[r].status \in Result)
  BY DEF Lives, Result
<1>3. Owned'
  <2>1. ASSUME NEW w \in Worker, worker'[w].pc \in Busy
        PROVE  Owns(w)'
    BY <1>1, <1>2, <2>1 DEF Owned, Owns, GoesOn, Lives
  <2>2. ASSUME NEW v \in Worker, NEW w \in Worker,
               worker'[v].pc \in Busy, worker'[w].pc \in Busy, v # w
        PROVE  worker'[v].run # worker'[w].run
    BY <2>2 DEF Owned, GoesOn
  <2> QED BY <2>1, <2>2 DEF Owned
<1>4. InOrder'
  <2>1. \A r \in RunId : Running(r)' => Running(r)
    BY DEF Lives, Running, Present
  <2>2. ASSUME current # 0
        PROVE  Present(current)'
    <3>1. current \in RunId /\ Present(current)
      BY <2>2 DEF InOrder, TypeOK, RunId
    <3> QED BY <3>1 DEF Lives
  <2> QED BY <1>1, <2>1, <2>2 DEF InOrder, Lives
<1>5. LastResultIsLatest'
  <2>1. ASSUME job' # NoJob
        PROVE  /\ job # NoJob => job'.last = job.last
               /\ job = NoJob => job'.last = "" /\ \A r \in RunId : ~Present(r)
    BY <2>1 DEF JobLives, InOrder
  <2>2. \A r \in RunId : (runs'[r] # NoRun /\ runs'[r].status \in Result)
                           <=> (runs[r] # NoRun /\ runs[r].status \in Result)
    BY <1>2 DEF Lives, Present
  <2>3. \A r \in RunId : runs[r] # NoRun /\ runs[r].status \in Result =>
                           runs'[r].status = runs[r].status
    BY DEF Lives, Present, Result
  <2> QED BY <2>1, <2>2, <2>3 DEF LastResultIsLatest, Present
<1>6. ToldOnce'
  BY <1>2 DEF ToldOnce, Lives, Present
<1> QED BY <1>3, <1>4, <1>5, <1>6

-----------------------------------------------------------------------------
(* The owner's operations. *)

(* The end of UpdateJob writes a job and leaves the result it shows.         *)
LEMMA RescheduleType ==
  ASSUME now \in Nat, NEW j \in Job, Reschedule(j)
  PROVE  job' \in Job /\ job'.last = j.last
<1>1. NextDue(j.local, j.zone, TRUE) \in Int
  BY NextType DEF Job
<1> QED BY <1>1 DEF Reschedule, Job

(* Writing the job alone keeps the invariant.                                *)
LEMMA JobKeeps ==
  ASSUME IInv, UNCHANGED <<Others, runs>>, threshold' \in 0 .. MaxThreshold, JobLives
  PROVE  IInv'
<1>1. TypeOK'
  BY DEF IInv, TypeOK, Others, JobLives
<1>2. \A w \in Worker : GoesOn(w)
  BY DEF GoesOn, Others
<1>3. \A r \in RunId : Lives(r)
  BY DEF Lives, Present, IInv, ToldOnce, Others
<1> QED BY <1>1, <1>2, <1>3, Keeps DEF Others

(* CreateJob and UpdateJob keep the invariant.                               *)
LEMMA OwnerKeeps ==
  ASSUME IInv,
         \/ \E l \in LocalTime, z \in Zone : CreateJob(l, z)
         \/ Pause \/ Resume \/ Cancel
         \/ \E l \in LocalTime, z \in Zone, n \in 0 .. MaxThreshold : ChangeTime(l, z, n)
  PROVE  IInv'
<1>1. now \in Nat /\ job \in Job \cup {NoJob} /\ threshold \in 0 .. MaxThreshold
  BY BoundsAssumption DEF IInv, TypeOK
<1>2. ASSUME NEW l \in LocalTime, NEW z \in Zone, CreateJob(l, z)
      PROVE  IInv'
  <2>1. NextDue(l, z, TRUE) \in Int
    BY <1>1, NextType
  <2>2. JobLives
    BY <1>2, <2>1 DEF CreateJob, JobLives, Job
  <2> QED BY <1>1, <1>2, <2>2, JobKeeps DEF CreateJob
<1>3. ASSUME Pause \/ Resume \/ Cancel
      PROVE  IInv'
  <2>1. job \in Job
    BY <1>1, <1>3 DEF Pause, Resume, Cancel
  <2>2. PICK s \in {"active", "paused", "cancelled"} : Reschedule([job EXCEPT !.status = s])
    BY <1>3 DEF Pause, Resume, Cancel
  <2>3. [job EXCEPT !.status = s] \in Job /\ [job EXCEPT !.status = s].last = job.last
    BY <2>1 DEF Job
  <2>4. JobLives
    BY <1>1, <2>1, <2>2, <2>3, RescheduleType, JobAssumption DEF JobLives
  <2> QED BY <1>1, <1>3, <2>4, JobKeeps DEF Pause, Resume, Cancel
<1>4. ASSUME NEW l \in LocalTime, NEW z \in Zone, NEW n \in 0 .. MaxThreshold,
             ChangeTime(l, z, n)
      PROVE  IInv'
  <2>1. job \in Job
    BY <1>1, <1>4 DEF ChangeTime
  <2>2. /\ [job EXCEPT !.local = l, !.zone = z] \in Job
        /\ [job EXCEPT !.local = l, !.zone = z].last = job.last
    BY <2>1 DEF Job
  <2>3. JobLives
    BY <1>1, <1>4, <2>1, <2>2, RescheduleType, JobAssumption DEF JobLives, ChangeTime
  <2> QED BY <1>4, <2>3, JobKeeps DEF ChangeTime
<1> QED BY <1>2, <1>3, <1>4

-----------------------------------------------------------------------------
(* The ticker. *)

(* The state of a goroutine that has nothing to do is one of its states.     *)
LEMMA IdleType == Idle \in Goroutine /\ Idle.pc = "idle"
<1>1. "failed" \in Result /\ 0 \in 0 .. MaxRun /\ 0 \in 0 .. MaxRevision
      /\ 0 \in 0 .. MaxThreshold
  BY BoundsAssumption DEF Result
<1> QED BY <1>1 DEF Idle, Goroutine

(* Ending the runs whose lease is over keeps the invariant.                  *)
LEMMA TickKeeps ==
  ASSUME IInv, Tick
  PROVE  IInv'
<1>1. Clock \in Worker
  BY DEF Worker
<1>2. \A r \in RunId :
        runs'[r] = IF Expired(r) THEN [runs[r] EXCEPT !.status = "interrupted"] ELSE runs[r]
  BY DEF Tick
<1>3. ASSUME NEW r \in RunId
      PROVE  runs'[r] \in Run \cup {NoRun} /\ Lives(r)
  <2>1. CASE Expired(r)
    <3>1. Present(r) /\ runs[r] \in Run /\ runs[r].status = "running"
      BY <2>1, RowTypes DEF Expired, Running, Present, IInv
    <3>2. /\ runs'[r] \in Run /\ runs'[r].date = runs[r].date
          /\ runs'[r].status = "interrupted" /\ runs'[r].note = runs[r].note
      BY <1>2, <2>1, <3>1 DEF Run
    <3>3. Present(r)'
      BY <3>2, RunAssumption DEF Present
    <3> QED BY <3>1, <3>2, <3>3 DEF Lives, IInv, ToldOnce, Present
  <2>2. CASE ~Expired(r)
    BY <1>2, <2>2 DEF Lives, Present, IInv, TypeOK, ToldOnce
  <2> QED BY <2>1, <2>2
<1>4. worker' = [worker EXCEPT ![Clock].pc = "tick"]
  BY DEF Tick
<1>5. /\ worker'[Clock] \in Goroutine /\ worker'[Clock].pc = "tick"
      /\ \A w \in Worker \ {Clock} : worker'[w] = worker[w]
  BY <1>1, <1>4 DEF IInv, TypeOK, Goroutine
<1>6. \A w \in Worker : GoesOn(w)
  BY <1>5 DEF GoesOn, Busy
<1>7. TypeOK'
  <2>1. runs' \in [RunId -> Run \cup {NoRun}]
    BY <1>3 DEF Tick
  <2>2. worker' \in [Worker -> Goroutine]
    BY <1>1, <1>4, <1>5 DEF IInv, TypeOK
  <2> QED BY <2>1, <2>2 DEF IInv, TypeOK, Tick
<1> QED BY <1>3, <1>6, <1>7, Keeps DEF JobLives, Tick

(* So does a goroutine that stops, with or without moving the schedule.      *)
LEMMA StopKeeps ==
  ASSUME IInv, NEW w \in Worker, worker' = [worker EXCEPT ![w] = Idle],
         JobLives,
         UNCHANGED <<now, runs, current, threshold, allowed, revision, sent, crashes>>
  PROVE  IInv'
<1>1. worker'[w] = Idle /\ \A v \in Worker \ {w} : worker'[v] = worker[v]
  BY DEF IInv, TypeOK
<1>2. TypeOK'
  BY IdleType DEF IInv, TypeOK, JobLives
<1>3. \A v \in Worker : GoesOn(v)
  BY <1>1, IdleType DEF GoesOn, Busy
<1>4. \A r \in RunId : Lives(r)
  BY DEF Lives, Present, IInv, ToldOnce
<1> QED BY <1>2, <1>3, <1>4, Keeps

(* Moving the schedule leaves the result the job shows.                      *)
LEMMA MovedSchedule ==
  ASSUME IInv, NEW c \in BOOLEAN, job # NoJob,
         job' = [job EXCEPT !.next = NextDue(job.local, job.zone, c)]
  PROVE  JobLives
<1>1. job \in Job /\ now \in Nat
  BY BoundsAssumption DEF IInv, TypeOK
<1>2. NextDue(job.local, job.zone, c) \in Int
  BY <1>1, NextType DEF Job
<1> QED BY <1>1, <1>2 DEF JobLives, Job

(* A tick with nothing to execute and ErrBusy keep the invariant.            *)
LEMMA RefusalsKeep ==
  ASSUME IInv, TickEnds \/ \E w \in Worker : Refuse(w)
  PROVE  IInv'
<1>1. CASE TickEnds
  <2>1. JobLives
    BY <1>1, MovedSchedule DEF TickEnds, Executable, Today, JobLives
  <2> QED BY <1>1, <2>1, StopKeeps DEF TickEnds, Worker
<1>2. ASSUME NEW w \in Worker, Refuse(w)
      PROVE  IInv'
  <2>1. JobLives
    BY <1>2, MovedSchedule DEF Refuse, Startable, Executable, Tomorrow
  <2> QED BY <1>2, <2>1, StopKeeps DEF Refuse
<1> QED BY <1>1, <1>2

-----------------------------------------------------------------------------
(* The pipeline, up to publication. *)

(* A goroutine that moves within the pipeline keeps the invariant.           *)
LEMMA GoingOnKeeps ==
  ASSUME IInv, NEW w \in Worker, NEW new \in Goroutine, Steps(w, new), NoWrite,
         worker[w].pc \in Pipeline, new.run = worker[w].run,
         new.pc \in Pipeline \cup {"done"}
  PROVE  IInv'
<1>1. worker'[w] = new /\ \A v \in Worker \ {w} : worker'[v] = worker[v]
  BY DEF IInv, TypeOK, Steps
<1>2. TypeOK'
  BY DEF IInv, TypeOK, Steps, NoWrite, dbVars
<1>3. \A v \in Worker : GoesOn(v)
  BY <1>1 DEF GoesOn, Busy, Pipeline, Telling
<1>4. \A r \in RunId : Lives(r)
  BY DEF Lives, Present, IInv, ToldOnce, NoWrite, dbVars
<1> QED BY <1>2, <1>3, <1>4, Keeps DEF JobLives, NoWrite, dbVars

(* Starting, reading, computing and failing are such moves.                  *)
LEMMA PipelineKeeps ==
  ASSUME IInv, NEW w \in Worker,
         \/ Start(w) \/ Build(w) \/ Abort(w)
         \/ \E outcome \in Result : Read(w, outcome)
  PROVE  IInv'
<1>1. worker[w] \in Goroutine /\ revision \in 0 .. MaxRevision
      /\ <<current, threshold>> \in (0 .. MaxRun) \X (0 .. MaxThreshold)
  BY WorkerTypes DEF IInv, TypeOK
<1>2. CASE Start(w)
  <2>1. /\ [worker[w] EXCEPT !.pc = "reading", !.rev = revision] \in Goroutine
        /\ [worker[w] EXCEPT !.pc = "reading", !.rev = revision].run = worker[w].run
        /\ [worker[w] EXCEPT !.pc = "reading", !.rev = revision].pc = "reading"
    BY <1>1 DEF Goroutine, Busy
  <2>2. /\ [worker[w] EXCEPT !.pc = "done"] \in Goroutine
        /\ [worker[w] EXCEPT !.pc = "done"].run = worker[w].run
        /\ [worker[w] EXCEPT !.pc = "done"].pc = "done"
    BY <1>1 DEF Goroutine, Busy
  <2> QED BY <1>2, <2>1, <2>2, GoingOnKeeps DEF Start, Pipeline
<1>3. CASE Build(w)
  <2>1. /\ [worker[w] EXCEPT !.pc = "built", !.basis = <<current, threshold>>] \in Goroutine
        /\ [worker[w] EXCEPT !.pc = "built", !.basis = <<current, threshold>>].run
             = worker[w].run
        /\ [worker[w] EXCEPT !.pc = "built", !.basis = <<current, threshold>>].pc = "built"
    BY <1>1 DEF Goroutine, Busy
  <2> QED BY <1>3, <2>1, GoingOnKeeps DEF Build, Pipeline
<1>4. CASE Abort(w)
  <2>1. /\ [worker[w] EXCEPT !.pc = "done", !.result = "failed"] \in Goroutine
        /\ [worker[w] EXCEPT !.pc = "done", !.result = "failed"].run = worker[w].run
        /\ [worker[w] EXCEPT !.pc = "done", !.result = "failed"].pc = "done"
    BY <1>1 DEF Goroutine, Busy, Result
  <2> QED BY <1>4, <2>1, GoingOnKeeps DEF Abort, Pipeline
<1>5. ASSUME NEW outcome \in Result, Read(w, outcome)
      PROVE  IInv'
  <2>1. /\ [worker[w] EXCEPT !.pc = "read", !.result = outcome] \in Goroutine
        /\ [worker[w] EXCEPT !.pc = "read", !.result = outcome].run = worker[w].run
        /\ [worker[w] EXCEPT !.pc = "read", !.result = outcome].pc = "read"
    BY <1>1 DEF Goroutine, Busy
  <2> QED BY <1>5, <2>1, GoingOnKeeps DEF Read, Pipeline
<1> QED BY <1>2, <1>3, <1>4, <1>5

-----------------------------------------------------------------------------
(* Leases and notes. *)

(* Writing one field of one row, neither its date nor its status, keeps it.  *)
LEMMA RowWritten ==
  ASSUME IInv, NEW r \in RunId, Present(r), NEW new \in Run,
         runs' = [runs EXCEPT ![r] = new], sent' = sent,
         new.date = runs[r].date, new.status = runs[r].status,
         new.note \in {"sent", "failed"} => sent[r] = 1
  PROVE  /\ runs' \in [RunId -> Run \cup {NoRun}]
         /\ \A s \in RunId : Lives(s)
<1>1. runs'[r] = new /\ \A s \in RunId \ {r} : runs'[s] = runs[s]
  BY DEF IInv, TypeOK
<1>2. runs' \in [RunId -> Run \cup {NoRun}]
  BY DEF IInv, TypeOK
<1>3. Lives(r)
  BY <1>1, RunAssumption DEF Lives, Present
<1>4. ASSUME NEW s \in RunId \ {r}
      PROVE  Lives(s)
  BY <1>1 DEF Lives, Present, IInv, ToldOnce
<1> QED BY <1>2, <1>3, <1>4

(* Extending the lease, or finding it lost, keeps the invariant.             *)
LEMMA HeartbeatKeeps ==
  ASSUME IInv, NEW w \in Worker, Heartbeat(w)
  PROVE  IInv'
<1> DEFINE r == worker[w].run
<1>1. r \in RunId /\ Present(r) /\ runs[r] \in Run /\ worker[w] \in Goroutine
  BY RowTypes, WorkerTypes DEF Heartbeat, IInv, Owned, Owns
<1>2. CASE runs' = [runs EXCEPT ![r].until = now + Lease] /\ UNCHANGED worker
  <2>1. now + Lease \in Nat
    BY DayAssumption, BoundsAssumption DEF IInv, TypeOK
  <2>2. /\ [runs[r] EXCEPT !.until = now + Lease] \in Run
        /\ [runs[r] EXCEPT !.until = now + Lease].date = runs[r].date
        /\ [runs[r] EXCEPT !.until = now + Lease].status = runs[r].status
        /\ [runs[r] EXCEPT !.until = now + Lease].note = runs[r].note
    BY <1>1, <2>1 DEF Run
  <2>3. runs' = [runs EXCEPT ![r] = [runs[r] EXCEPT !.until = now + Lease]]
    BY <1>2
  <2>4. runs[r].note \in {"sent", "failed"} => sent[r] = 1
    BY <1>1 DEF IInv, ToldOnce, Present
  <2>5. sent' = sent
    BY DEF Heartbeat
  <2>6. runs' \in [RunId -> Run \cup {NoRun}] /\ \A s \in RunId : Lives(s)
    BY <1>1, <2>2, <2>3, <2>4, <2>5, RowWritten
  <2>7. TypeOK'
    BY <1>2, <2>6 DEF IInv, TypeOK, Heartbeat
  <2>8. \A v \in Worker : GoesOn(v)
    BY <1>2 DEF GoesOn
  <2> QED BY <2>6, <2>7, <2>8, Keeps DEF Heartbeat, JobLives
<1>3. CASE UNCHANGED runs /\ Steps(w, [worker[w] EXCEPT !.cancelled = TRUE])
  <2>1. /\ [worker[w] EXCEPT !.cancelled = TRUE] \in Goroutine
        /\ [worker[w] EXCEPT !.cancelled = TRUE].pc = worker[w].pc
        /\ [worker[w] EXCEPT !.cancelled = TRUE].run = worker[w].run
    BY <1>1 DEF Goroutine
  <2>2. /\ worker'[w] = [worker[w] EXCEPT !.cancelled = TRUE]
        /\ \A v \in Worker \ {w} : worker'[v] = worker[v]
    BY <1>3 DEF Steps, IInv, TypeOK
  <2>3. TypeOK'
    BY <1>3, <2>1 DEF IInv, TypeOK, Heartbeat, Steps
  <2>4. \A v \in Worker : GoesOn(v)
    BY <2>1, <2>2 DEF GoesOn, Heartbeat
  <2>5. \A s \in RunId : Lives(s)
    BY <1>3 DEF Lives, Present, IInv, ToldOnce
  <2> QED BY <2>3, <2>4, <2>5, Keeps DEF Heartbeat, JobLives
<1> QED BY <1>2, <1>3 DEF Heartbeat

(* Suppressing a message and noting its delivery keep the invariant.         *)
LEMMA NoteKeeps ==
  ASSUME IInv, NEW w \in Worker,
         Notify(w) \/ \E note \in {"sent", "failed"} : Mark(w, note)
  PROVE  IInv'
<1> DEFINE r == worker[w].run
<1>1. /\ r \in RunId /\ Present(r) /\ runs[r] \in Run /\ worker[w] \in Goroutine
      /\ worker[w].pc = "mark" => sent[r] = 1
  BY RowTypes, WorkerTypes DEF Notify, Mark, Busy, IInv, Owned, Owns
<1>2. ASSUME NEW n \in {"sent", "failed", "suppressed"}, n # "suppressed" => sent[r] = 1,
             runs' = [runs EXCEPT ![r].note = n], Steps(w, Idle),
             UNCHANGED <<now, job, current, threshold, allowed, revision, sent, crashes>>
      PROVE  IInv'
  <2>1. /\ [runs[r] EXCEPT !.note = n] \in Run
        /\ [runs[r] EXCEPT !.note = n].date = runs[r].date
        /\ [runs[r] EXCEPT !.note = n].status = runs[r].status
        /\ [runs[r] EXCEPT !.note = n].note = n
    BY <1>1 DEF Run
  <2>2. runs' = [runs EXCEPT ![r] = [runs[r] EXCEPT !.note = n]]
    BY <1>2
  <2>3. runs' \in [RunId -> Run \cup {NoRun}] /\ \A s \in RunId : Lives(s)
    BY <1>1, <1>2, <2>1, <2>2, RowWritten
  <2>4. worker'[w] = Idle /\ \A v \in Worker \ {w} : worker'[v] = worker[v]
    BY <1>2 DEF Steps, IInv, TypeOK
  <2>5. TypeOK'
    BY <1>2, <2>3, IdleType DEF IInv, TypeOK, Steps
  <2>6. \A v \in Worker : GoesOn(v)
    BY <2>4, IdleType DEF GoesOn, Busy
  <2> QED BY <1>2, <2>3, <2>5, <2>6, Keeps DEF JobLives
<1>3. ASSUME NEW note \in {"sent", "failed"}, Mark(w, note)
      PROVE  IInv'
  BY <1>1, <1>2, <1>3 DEF Mark
<1>4. CASE Notify(w) /\ Check(worker[w].rev)
  <2>1. /\ [worker[w] EXCEPT !.pc = "send"] \in Goroutine
        /\ [worker[w] EXCEPT !.pc = "send"].pc = "send"
        /\ [worker[w] EXCEPT !.pc = "send"].run = r
    BY <1>1 DEF Goroutine, Busy
  <2>2. /\ worker'[w] = [worker[w] EXCEPT !.pc = "send"]
        /\ \A v \in Worker \ {w} : worker'[v] = worker[v]
    BY <1>4 DEF Notify, Steps, IInv, TypeOK
  <2>3. TypeOK'
    BY <1>4, <2>1 DEF IInv, TypeOK, Notify, Steps
  <2>4. \A v \in Worker : GoesOn(v)
    BY <1>4, <2>1, <2>2 DEF GoesOn, Notify, Busy, Pipeline, Telling
  <2>5. \A s \in RunId : Lives(s)
    BY <1>4 DEF Lives, Present, IInv, ToldOnce, Notify
  <2> QED BY <1>4, <2>3, <2>4, <2>5, Keeps DEF Notify, JobLives
<1>5. CASE Notify(w) /\ ~Check(worker[w].rev)
  BY <1>2, <1>5 DEF Notify
<1> QED BY <1>3, <1>4, <1>5

-----------------------------------------------------------------------------
(* The world. *)

(* Time, rights, connections and the death of the process keep it.           *)
LEMMA WorldKeeps ==
  ASSUME IInv, TimePasses \/ AccessChanges \/ Reconnect \/ Crash
  PROVE  IInv'
<1>1. TypeOK'
  <2>1. CASE TimePasses
    BY <2>1, BoundsAssumption DEF IInv, TypeOK, TimePasses, dbVars
  <2>2. CASE AccessChanges
    BY <2>2 DEF IInv, TypeOK, AccessChanges
  <2>3. CASE Reconnect
    BY <2>3, BoundsAssumption DEF IInv, TypeOK, Reconnect
  <2>4. CASE Crash
    BY <2>4, IdleType, BoundsAssumption DEF IInv, TypeOK, Crash, dbVars
  <2> QED BY <2>1, <2>2, <2>3, <2>4
<1>2. \A w \in Worker : GoesOn(w)
  BY IdleType DEF GoesOn, Busy, TimePasses, AccessChanges, Reconnect, Crash
<1>3. \A r \in RunId : Lives(r)
  BY DEF Lives, Present, IInv, ToldOnce, TimePasses, AccessChanges, Reconnect, Crash, dbVars
<1> QED BY <1>1, <1>2, <1>3, Keeps
       DEF JobLives, TimePasses, AccessChanges, Reconnect, Crash, dbVars

-----------------------------------------------------------------------------
(* Claiming, publishing, finishing and sending. *)

(* A claim inserts the next run, of a date without one, while none is running. *)
LEMMA ClaimKeeps ==
  ASSUME IInv, NEW w \in Worker, NEW r \in RunId, Claim(w, r)
  PROVE  IInv'
<1> USE DEF IInv
<1> DEFINE row == [date |-> Date(job.zone), status |-> "running",
                   until |-> now + Lease, note |-> "pending"]
<1> DEFINE new == [Idle EXCEPT !.pc = "claimed", !.run = r]
<1>1. job \in Job /\ job # NoJob /\ now \in Nat
  BY BoundsAssumption DEF TypeOK, Claim, Startable, Executable
<1>2. /\ row \in Run /\ row # NoRun
      /\ row.date = Date(job.zone) /\ row.status = "running" /\ row.note = "pending"
  <2>1. Date(job.zone) \in Nat
    BY <1>1, DateType DEF Job
  <2>2. now + Lease \in Nat
    BY <1>1, DayAssumption
  <2> QED BY <2>1, <2>2, RunAssumption DEF Run
<1>3. /\ runs' = [runs EXCEPT ![r] = row]
      /\ runs'[r] = row /\ ~Present(r)
      /\ \A s \in RunId \ {r} : runs'[s] = runs[s]
  BY DEF Claim, TypeOK, Present
<1>4. /\ new \in Goroutine /\ new.pc = "claimed" /\ new.run = r
  <2>1. Idle \in Goroutine
    BY IdleType
  <2>2. r \in 0 .. MaxRun
    BY BoundsAssumption DEF RunId
  <2> QED BY <2>1, <2>2 DEF Goroutine, Busy
<1>5. /\ worker' = [worker EXCEPT ![w] = new]
      /\ worker'[w] = new /\ \A v \in Worker \ {w} : worker'[v] = worker[v]
  BY DEF Claim, TypeOK
<1>6. job' \in Job /\ job'.last = job.last /\ job' # NoJob
  <2>1. job' = [job EXCEPT !.next = Tomorrow] /\ Tomorrow \in Int
    BY <1>1, NextType DEF Claim, Tomorrow, Job
  <2> QED BY <1>1, <2>1, JobAssumption DEF Job
<1>7. /\ \A s \in RunId : s < r => Present(s)
      /\ \A s \in RunId : Present(s) => ~Running(s) /\ runs[s].date # row.date
      /\ UNCHANGED <<now, current, threshold, allowed, revision, sent, crashes>>
  BY <1>2 DEF Claim, Free, Present, Running
<1> HIDE DEF row, new
<1>8. TypeOK'
  BY <1>2, <1>3, <1>4, <1>5, <1>6, <1>7 DEF TypeOK
<1>9. Owned'
  <2>1. \A v \in Worker : worker[v].pc \in Busy => worker[v].run # r
    BY <1>3 DEF Owned, Owns
  <2>2. Owns(w)'
    <3>1. current # r
      BY <1>3 DEF InOrder, RunId
    <3>2. sent[r] # 1
      BY <1>3 DEF ToldOnce, Present
    <3>3. "running" \notin Result
      BY DEF Result
    <3> QED BY <1>2, <1>3, <1>4, <1>5, <1>6, <1>7, <3>1, <3>2, <3>3
            DEF Owns, Present, Telling
  <2>3. ASSUME NEW v \in Worker \ {w}, worker'[v].pc \in Busy
        PROVE  Owns(v)'
    <3>1. worker'[v] = worker[v] /\ Owns(v) /\ worker[v].run # r
      BY <1>5, <2>1, <2>3 DEF Owned
    <3>2. worker[v].run \in RunId /\ runs'[worker[v].run] = runs[worker[v].run]
      BY <1>3, <3>1 DEF Owns
    <3> QED BY <1>6, <1>7, <3>1, <3>2 DEF Owns, Present
  <2>4. ASSUME NEW u \in Worker, NEW v \in Worker,
               worker'[u].pc \in Busy, worker'[v].pc \in Busy, u # v
        PROVE  worker'[u].run # worker'[v].run
    BY <1>4, <1>5, <2>1, <2>4 DEF Owned
  <2> QED BY <2>2, <2>3, <2>4 DEF Owned
<1>10. InOrder'
  <2>1. ASSUME NEW s \in RunId, NEW q \in RunId, s < q, Present(q)'
        PROVE  Present(s)' /\ ~Running(s)'
    <3>1. q # r => Present(q)
      BY <1>3, <2>1 DEF Present
    <3>2. q # r => q < r
      BY <1>3, <3>1 DEF InOrder, RunId
    <3>3. s # r /\ Present(s)
      BY <1>7, <2>1, <3>1, <3>2 DEF InOrder, RunId
    <3> QED BY <1>3, <1>7, <3>3 DEF Present, Running
  <2>2. \A s, q \in RunId :
          Present(s)' /\ Present(q)' /\ s # q => runs'[s].date # runs'[q].date
    BY <1>3, <1>7 DEF InOrder, Present
  <2>3. current' # 0 => Present(current)'
    BY <1>2, <1>3, <1>7 DEF InOrder, Present, TypeOK, RunId
  <2> QED BY <1>6, <2>1, <2>2, <2>3 DEF InOrder
<1>11. LastResultIsLatest'
  <2>1. \A s \in RunId : (runs'[s] # NoRun /\ runs'[s].status \in Result)
                           <=> (runs[s] # NoRun /\ runs[s].status \in Result)
    BY <1>2, <1>3 DEF Present, Result
  <2>2. \A s \in RunId : runs[s] # NoRun => runs'[s] = runs[s]
    BY <1>3 DEF Present
  <2> QED BY <1>1, <1>6, <2>1, <2>2 DEF LastResultIsLatest
<1>12. ToldOnce'
  <2>1. sent[r] = 0 /\ \A s \in RunId : sent[s] \in Nat /\ sent[s] <= 1
    BY <1>3 DEF ToldOnce, Present, TypeOK
  <2>2. \A s, q \in RunId : s # q /\ sent[s] + sent[q] = 2 => s # r /\ q # r
    BY <2>1
  <2> QED BY <1>2, <1>3, <1>7, <2>1, <2>2 DEF ToldOnce
<1> QED BY <1>8, <1>9, <1>10, <1>11, <1>12

(* Publishing keeps it: the run published is the goroutine's own.            *)
LEMMA SaveKeeps ==
  ASSUME IInv, NEW w \in Worker, NEW outcome \in Result, Save(w, outcome)
  PROVE  IInv'
<1> USE DEF IInv
<1> DEFINE r == worker[w].run
<1> DEFINE new == [worker[w] EXCEPT !.pc = "done", !.result = outcome]
<1>1. /\ worker[w] \in Goroutine /\ worker[w].pc = "built" /\ Owns(w)
  BY WorkerTypes DEF Save, Owned, Busy
<1>2. new \in Goroutine /\ new.pc = "done" /\ new.run = r
  BY <1>1 DEF Goroutine, Busy
<1>3. worker' = [worker EXCEPT ![w] = new]
      /\ worker'[w] = new /\ \A v \in Worker \ {w} : worker'[v] = worker[v]
  BY DEF Save, Steps, TypeOK
<1>4. current' = r /\ r \in RunId /\ Present(r)
      /\ UNCHANGED <<now, job, runs, threshold, allowed, revision, sent, crashes>>
  BY <1>1 DEF Save, Owns
<1> HIDE DEF new, r
<1>5. TypeOK'
  BY <1>2, <1>3, <1>4, BoundsAssumption DEF TypeOK, RunId
<1> USE DEF r
<1>6. Owned'
  <2>1. Owns(w)'
    BY <1>1, <1>2, <1>3, <1>4 DEF Owns, Present, Pipeline, Telling
  <2>2. ASSUME NEW v \in Worker \ {w}, worker'[v].pc \in Busy
        PROVE  Owns(v)'
    <3>1. worker'[v] = worker[v] /\ worker[v].run # r /\ Owns(v)
      BY <1>1, <1>3, <2>2 DEF Owned, Busy
    <3> QED BY <1>4, <3>1 DEF Owns, Present
  <2>3. ASSUME NEW u \in Worker, NEW v \in Worker,
               worker'[u].pc \in Busy, worker'[v].pc \in Busy, u # v
        PROVE  worker'[u].run # worker'[v].run
    BY <1>1, <1>2, <1>3, <2>3 DEF Owned, Busy
  <2> QED BY <2>1, <2>2, <2>3 DEF Owned
<1>7. InOrder' /\ LastResultIsLatest' /\ ToldOnce'
  BY <1>4 DEF InOrder, LastResultIsLatest, ToldOnce, Present, Running
<1> QED BY <1>5, <1>6, <1>7

(* The result of the run in force is recorded: it is the latest run's.       *)
LEMMA FinishKeeps ==
  ASSUME IInv, NEW w \in Worker, Finish(w)
  PROVE  IInv'
<1> USE DEF IInv
<1> DEFINE r == worker[w].run
<1> DEFINE new == [worker[w] EXCEPT !.pc = "notify"]
<1> DEFINE row == [runs[r] EXCEPT !.status = worker[w].result]
<1>1. CASE ~Held(r)
  BY <1>1, StopKeeps DEF Finish, Steps, JobLives
<1>2. CASE Held(r)
  <2>1. /\ worker[w] \in Goroutine /\ worker[w].pc = "done" /\ Owns(w)
        /\ worker[w].result \in Result
    BY WorkerTypes DEF Finish, Owned, Busy
  <2>2. /\ r \in RunId /\ Present(r) /\ runs[r] \in Run /\ runs[r].status = "running"
        /\ job \in Job /\ job # NoJob /\ sent[r] # 1
    BY <1>2, <2>1, RowTypes DEF Owns, Held, Running, TypeOK
  <2>3. new \in Goroutine /\ new.pc = "notify" /\ new.run = r
    BY <2>1 DEF Goroutine, Busy
  <2>4. /\ row \in Run /\ row # NoRun /\ row.date = runs[r].date
        /\ row.status = worker[w].result /\ row.note = runs[r].note
    BY <2>1, <2>2, RunAssumption DEF Run
  <2>5. /\ runs' = [runs EXCEPT ![r] = row]
        /\ runs'[r] = row /\ \A s \in RunId \ {r} : runs'[s] = runs[s]
    BY <1>2, <2>2 DEF Finish, TypeOK
  <2>6. /\ worker' = [worker EXCEPT ![w] = new]
        /\ worker'[w] = new /\ \A v \in Worker \ {w} : worker'[v] = worker[v]
    BY <1>2 DEF Finish, Steps, TypeOK
  <2>7. job' \in Job /\ job'.last = worker[w].result /\ job' # NoJob
    BY <1>2, <2>1, <2>2, JobAssumption DEF Finish, Job
  <2>8. UNCHANGED <<now, current, threshold, allowed, revision, sent, crashes>>
    BY DEF Finish
  <2> HIDE DEF row, new
  <2>9. TypeOK'
    BY <2>3, <2>4, <2>5, <2>6, <2>7, <2>8 DEF TypeOK
  <2>10. Owned'
    <3>1. Owns(w)'
      BY <2>1, <2>2, <2>3, <2>4, <2>5, <2>6, <2>7, <2>8 DEF Owns, Present, Pipeline, Telling
    <3>2. ASSUME NEW v \in Worker \ {w}, worker'[v].pc \in Busy
          PROVE  Owns(v)'
      <4>1. worker'[v] = worker[v] /\ worker[v].run # r /\ Owns(v)
        BY <2>1, <2>6, <3>2 DEF Owned, Busy
      <4>2. worker[v].run \in RunId /\ runs'[worker[v].run] = runs[worker[v].run]
        BY <2>5, <4>1 DEF Owns
      <4> QED BY <2>7, <2>8, <4>1, <4>2 DEF Owns, Present
    <3>3. ASSUME NEW u \in Worker, NEW v \in Worker,
                 worker'[u].pc \in Busy, worker'[v].pc \in Busy, u # v
          PROVE  worker'[u].run # worker'[v].run
      BY <2>1, <2>3, <2>6, <3>3 DEF Owned, Busy
    <3> QED BY <3>1, <3>2, <3>3 DEF Owned
  <2>11. InOrder'
    <3>1. \A s \in RunId : /\ Present(s)' <=> Present(s)
                           /\ Running(s)' => Running(s)
                           /\ runs'[s].date = runs[s].date
      BY <2>1, <2>2, <2>4, <2>5 DEF Present, Running, Result
    <3>2. current' # 0 => Present(current)'
      BY <2>8, <3>1 DEF InOrder, TypeOK, RunId
    <3> QED BY <2>7, <3>1, <3>2 DEF InOrder
  <2>12. LastResultIsLatest'
    <3>1. \A s \in RunId : Present(s) => s <= r
      BY <1>2, <2>2 DEF InOrder, Held, RunId
    <3>2. \A s \in RunId : runs'[s] # NoRun => Present(s)
      BY <2>2, <2>5 DEF Present
    <3>3. runs'[r] # NoRun /\ runs'[r].status \in Result
      BY <2>1, <2>4, <2>5
    <3>4. ASSUME NEW q \in RunId, runs'[q] # NoRun, r <= q
          PROVE  q = r
      BY <2>2, <3>1, <3>2, <3>4 DEF RunId
    <3> QED BY <2>2, <2>4, <2>5, <2>7, <3>1, <3>2, <3>3, <3>4 DEF LastResultIsLatest
  <2>13. ToldOnce'
    BY <2>1, <2>2, <2>4, <2>5, <2>8 DEF ToldOnce, Present
  <2> QED BY <2>9, <2>10, <2>11, <2>12, <2>13
<1> QED BY <1>1, <1>2

(* A message is sent for a recorded result, and not a second time.           *)
LEMMA SendKeeps ==
  ASSUME IInv, NEW w \in Worker, Send(w)
  PROVE  IInv'
<1> USE DEF IInv
<1> DEFINE r == worker[w].run
<1> DEFINE new == [worker[w] EXCEPT !.pc = "mark"]
<1>1. /\ worker[w] \in Goroutine /\ worker[w].pc = "send" /\ Owns(w)
  BY WorkerTypes DEF Send, Owned, Busy
<1>2. new \in Goroutine /\ new.pc = "mark" /\ new.run = r
  BY <1>1 DEF Goroutine, Busy
<1>3. /\ worker' = [worker EXCEPT ![w] = new]
      /\ worker'[w] = new /\ \A v \in Worker \ {w} : worker'[v] = worker[v]
  BY DEF Send, Steps, TypeOK
<1>4. r \in RunId /\ sent[r] = 0 /\ runs[r] # NoRun /\ runs[r].status \in Result
  BY <1>1 DEF Owns, Present, Telling, ToldOnce, TypeOK
<1>5. /\ sent' \in [RunId -> Nat]
      /\ sent'[r] = 1 /\ \A s \in RunId \ {r} : sent'[s] = sent[s]
  BY <1>4 DEF Send, TypeOK
<1>6. UNCHANGED <<now, dbVars, crashes>>
  BY DEF Send
<1>7. TypeOK'
  BY <1>2, <1>3, <1>5, <1>6 DEF TypeOK, dbVars
<1>8. Owned'
  <2>1. Owns(w)'
    BY <1>1, <1>2, <1>3, <1>4, <1>5, <1>6 DEF Owns, Present, Pipeline, Telling, dbVars
  <2>2. ASSUME NEW v \in Worker \ {w}, worker'[v].pc \in Busy
        PROVE  Owns(v)'
    <3>1. worker'[v] = worker[v] /\ worker[v].run # r /\ Owns(v)
      BY <1>1, <1>3, <2>2 DEF Owned, Busy
    <3>2. sent'[worker[v].run] = sent[worker[v].run]
      BY <1>5, <3>1 DEF Owns
    <3> QED BY <1>6, <3>1, <3>2 DEF Owns, Present, dbVars
  <2>3. ASSUME NEW u \in Worker, NEW v \in Worker,
               worker'[u].pc \in Busy, worker'[v].pc \in Busy, u # v
        PROVE  worker'[u].run # worker'[v].run
    BY <1>1, <1>2, <1>3, <2>3 DEF Owned, Busy
  <2> QED BY <2>1, <2>2, <2>3 DEF Owned
<1>9. InOrder' /\ LastResultIsLatest'
  BY <1>6 DEF InOrder, LastResultIsLatest, Present, Running, dbVars
<1>10. ToldOnce'
  <2>1. \A s \in RunId : sent'[s] = 1 => runs[s] # NoRun /\ runs[s].status \in Result
    BY <1>4, <1>5 DEF ToldOnce
  <2>2. \A s \in RunId : sent'[s] <= 1 /\ (sent[s] = 1 => sent'[s] = 1)
    BY <1>4, <1>5 DEF ToldOnce
  <2>3. ASSUME NEW s \in RunId, NEW q \in RunId, s # q, sent'[s] + sent'[q] = 2
        PROVE  runs[s].date # runs[q].date
    <3>1. sent'[s] = 1 /\ sent'[q] = 1
      BY <1>5, <2>2, <2>3
    <3> QED BY <2>1, <2>3, <3>1 DEF InOrder, Present
  <2>4. \A s \in RunId : runs[s] # NoRun /\ runs[s].note \in {"sent", "failed"} => sent'[s] = 1
    BY <2>2 DEF ToldOnce
  <2> QED BY <1>6, <2>1, <2>2, <2>3, <2>4 DEF ToldOnce, dbVars
<1> QED BY <1>7, <1>8, <1>9, <1>10

-----------------------------------------------------------------------------
(* The invariant. *)

(* Initially there is no job, no run and no busy goroutine.                  *)
LEMMA InitInv == Init => IInv
<1> SUFFICES ASSUME Init PROVE IInv
  OBVIOUS
<1>1. TypeOK
  BY IdleType, BoundsAssumption DEF Init, TypeOK
<1>2. Owned
  BY IdleType DEF Init, Owned, Busy
<1>3. InOrder /\ LastResultIsLatest
  BY DEF Init, InOrder, LastResultIsLatest, Present
<1>4. ToldOnce
  BY DEF Init, ToldOnce
<1> QED BY <1>1, <1>2, <1>3, <1>4 DEF IInv

(* Every step of the system keeps the invariant.                             *)
LEMMA NextInv == IInv /\ [Next]_vars => IInv'
<1> SUFFICES ASSUME IInv, [Next]_vars PROVE IInv'
  OBVIOUS
<1>1. CASE \/ \E l \in LocalTime, z \in Zone : CreateJob(l, z)
           \/ Pause \/ Resume \/ Cancel
           \/ \E l \in LocalTime, z \in Zone, n \in 0 .. MaxThreshold : ChangeTime(l, z, n)
  BY <1>1, OwnerKeeps
<1>2. CASE Tick
  BY <1>2, TickKeeps
<1>3. CASE TickEnds
  BY <1>3, RefusalsKeep
<1>4. ASSUME NEW w \in Worker, WorkerStep(w)
      PROVE  IInv'
  <2>1. CASE \E r \in RunId : Claim(w, r)
    BY <2>1, ClaimKeeps
  <2>2. CASE Refuse(w)
    BY <2>2, RefusalsKeep
  <2>3. CASE \/ Start(w) \/ Build(w) \/ Abort(w)
             \/ \E outcome \in Result : Read(w, outcome)
    BY <2>3, PipelineKeeps
  <2>4. CASE \E outcome \in Result : Save(w, outcome)
    BY <2>4, SaveKeeps
  <2>5. CASE Finish(w)
    BY <2>5, FinishKeeps
  <2>6. CASE Notify(w) \/ \E note \in {"sent", "failed"} : Mark(w, note)
    BY <2>6, NoteKeeps
  <2>7. CASE Send(w)
    BY <2>7, SendKeeps
  <2> QED BY <1>4, <2>1, <2>2, <2>3, <2>4, <2>5, <2>6, <2>7 DEF WorkerStep
<1>5. ASSUME NEW w \in Worker, Heartbeat(w)
      PROVE  IInv'
  BY <1>5, HeartbeatKeeps
<1>6. CASE TimePasses \/ AccessChanges \/ Reconnect \/ Crash
  BY <1>6, WorldKeeps
<1>7. CASE UNCHANGED vars
  BY <1>7 DEF vars, dbVars, IInv, TypeOK, Owned, Owns, Present, InOrder, Running,
              LastResultIsLatest, ToldOnce
<1> QED BY <1>1, <1>2, <1>3, <1>4, <1>5, <1>6, <1>7 DEF Next

(* Whatever the owner, the clock, the executors and the world do, and        *)
(* wherever the process dies: runs are owned by one goroutine each, claimed  *)
(* in order, and only the last one is running.                               *)
THEOREM Invariance == Spec => []IInv
<1>1. Init => IInv
  BY InitInv
<1>2. IInv /\ [Next]_vars => IInv'
  BY NextInv
<1> QED BY <1>1, <1>2, PTL DEF Spec

(* Every variable of the jobs and their executors keeps its type: a run's    *)
(* status is one the table's CHECK allows, a due time is a time.             *)
THEOREM TypeCorrect == Spec => []TypeOK
<1>1. IInv => TypeOK
  BY DEF IInv
<1> QED BY <1>1, Invariance, PTL

(* The result a job shows is always that of the latest run that ended by     *)
(* itself, for an executor that lost its lease writes nothing.               *)
THEOREM LastResultCorrect == Spec => []LastResultIsLatest
<1>1. IInv => LastResultIsLatest
  BY DEF IInv
<1> QED BY <1>1, Invariance, PTL

(* A local date's result is announced at most once, and only a recorded one. *)
THEOREM ToldAtMostOnce == Spec => []ToldOnce
<1>1. IInv => ToldOnce
  BY DEF IInv
<1> QED BY <1>1, Invariance, PTL

-----------------------------------------------------------------------------
(* What a step may never do. *)

(* The steps that leave the runs and what is published as they are.          *)
LEMMA Elsewhere ==
  ASSUME Next,
         ~Tick, \A w \in Worker : /\ ~Heartbeat(w) /\ ~Finish(w) /\ ~Notify(w)
                                  /\ \A r \in RunId : ~Claim(w, r)
                                  /\ \A o \in Result : ~Save(w, o)
                                  /\ \A note \in {"sent", "failed"} : ~Mark(w, note)
  PROVE  runs' = runs /\ current' = current
<1>1. CASE \/ \E l \in LocalTime, z \in Zone : CreateJob(l, z)
           \/ Pause \/ Resume \/ Cancel \/ TickEnds
           \/ \E l \in LocalTime, z \in Zone, n \in 0 .. MaxThreshold : ChangeTime(l, z, n)
  BY <1>1 DEF CreateJob, Pause, Resume, Cancel, TickEnds, ChangeTime, Others
<1>2. CASE \E w \in Worker : \/ Refuse(w) \/ Start(w) \/ Build(w) \/ Abort(w) \/ Send(w)
                             \/ \E o \in Result : Read(w, o)
  BY <1>2 DEF Refuse, Start, Build, Abort, Send, Read, NoWrite, dbVars
<1>3. CASE TimePasses \/ AccessChanges \/ Reconnect \/ Crash
  BY <1>3 DEF TimePasses, AccessChanges, Reconnect, Crash, dbVars
<1> QED BY <1>1, <1>2, <1>3, Zenon DEF Next, WorkerStep

(* What the writers of run rows do to a row: a new one is inserted by a      *)
(* claim, and a row's status changes only while it is "running".             *)
LEMMA RowSteps ==
  ASSUME IInv, [Next]_vars, NEW r \in RunId, runs'[r] # runs[r]
  PROVE  /\ runs[r] # NoRun /\ runs[r].status # "running" =>
              runs'[r].status = runs[r].status
         /\ runs[r] = NoRun => \E w \in Worker : Claim(w, r)
<1> USE DEF IInv
<1>1. Next
  BY DEF vars, dbVars
<1>2. CASE Tick
  BY <1>2 DEF Tick, Expired, Running
<1>3. ASSUME NEW w \in Worker, NEW s \in RunId, Claim(w, s)
      PROVE  r = s
  BY <1>3 DEF Claim, TypeOK
<1>4. ASSUME NEW w \in Worker, Heartbeat(w) \/ Finish(w)
      PROVE  Running(r)
  BY <1>4 DEF Heartbeat, Finish, Held, TypeOK
<1>5. ASSUME NEW w \in Worker, Notify(w) \/ \E note \in {"sent", "failed"} : Mark(w, note)
      PROVE  Present(r) /\ runs'[r].status = runs[r].status
  <2>1. Owns(w)
    BY <1>5 DEF Owned, Notify, Mark, Busy
  <2>2. r = worker[w].run /\ Present(r) /\ runs[r] \in Run
    BY <1>5, <2>1 DEF Owns, Notify, Mark, TypeOK, Present
  <2> QED BY <1>5, <2>2 DEF Notify, Mark, Run, TypeOK
<1>6. ASSUME NEW w \in Worker, NEW o \in Result, Save(w, o)
      PROVE  FALSE
  BY <1>6 DEF Save
<1> QED BY <1>1, <1>2, <1>3, <1>4, <1>5, <1>6, Elsewhere
        DEF Claim, Running, Present

(* A run that has ended keeps its result: whoever lost its lease, to a tick  *)
(* or to a crash, cannot overwrite it.                                       *)
THEOREM RunsAreFinal == Spec => RunFinal
<1>1. IInv /\ [Next]_vars =>
        [\A r \in RunId : runs[r] # NoRun /\ runs[r].status # "running" =>
                            runs'[r].status = runs[r].status]_vars
  BY RowSteps
<1> QED BY <1>1, Invariance, PTL DEF Spec, RunFinal

(* Only SaveMarketSnapshot changes what is published.                        *)
LEMMA OnlySave ==
  ASSUME [Next]_vars, current' # current
  PROVE  \E w \in Worker, o \in Result : Save(w, o)
<1>1. Next
  BY DEF vars, dbVars
<1>2. ~Tick
  BY DEF Tick
<1>3. ASSUME NEW w \in Worker
      PROVE  /\ ~Heartbeat(w) /\ ~Finish(w) /\ ~Notify(w)
             /\ \A r \in RunId : ~Claim(w, r)
             /\ \A note \in {"sent", "failed"} : ~Mark(w, note)
  BY DEF Heartbeat, Finish, Notify, Claim, Mark
<1> QED BY <1>1, <1>2, <1>3, Elsewhere

(* Between startPipeline and the end of the pipeline an executor knows the   *)
(* revision of the connection it started from.                               *)
Started ==
  \A w \in Worker : worker[w].pc \in {"reading", "read", "built"} => worker[w].rev # 0

(* An executor that did not get through startPipeline reads and publishes    *)
(* nothing: whoever is in the pipeline has a revision to be checked against. *)
THEOREM StartedWithRevision == Spec => []Started
<1>1. Init => Started
  BY IdleType DEF Init, Started
<1>2. ASSUME TypeOK, Started, [Next]_vars
      PROVE  Started'
  <2> USE <1>2
  <2>1. revision # 0
    BY BoundsAssumption DEF TypeOK
  <2>2. ASSUME NEW w \in Worker, NEW new \in Goroutine, Steps(w, new),
               new.pc \in {"reading", "read", "built"} => new.rev # 0
        PROVE  Started'
    BY <2>2 DEF Steps, Started, TypeOK
  <2>3. ASSUME NEW w \in Worker, WorkerStep(w) \/ Heartbeat(w)
        PROVE  Started'
    <3> DEFINE was == worker[w]
    <3>1. was \in Goroutine
      BY DEF TypeOK
    <3>2. CASE \E r \in RunId : Claim(w, r)
      BY <3>2, IdleType DEF Claim, Started, TypeOK, Idle
    <3>3. CASE Refuse(w)
      BY <3>3, IdleType DEF Refuse, Started, TypeOK
    <3>4. CASE Start(w)
      BY <2>1, <3>1, <3>4 DEF Start, Steps, Started, TypeOK, Goroutine
    <3>5. ASSUME NEW o \in Result, Read(w, o) \/ Save(w, o)
          PROVE  Started'
      <4> DEFINE read == [was EXCEPT !.pc = "read", !.result = o]
      <4> DEFINE done == [was EXCEPT !.pc = "done", !.result = o]
      <4>1. read.rev = was.rev /\ done.pc = "done"
        BY <3>1 DEF Goroutine
      <4>2. was.rev # 0
        BY <3>5 DEF Read, Save, Started
      <4>3. /\ \A v \in Worker \ {w} : worker'[v] = worker[v]
            /\ worker'[w] = read \/ worker'[w] = done
        BY <3>5 DEF Read, Save, Steps, TypeOK
      <4> HIDE DEF read, done
      <4> QED BY <4>1, <4>2, <4>3 DEF Started
    <3>6. CASE Build(w) \/ Abort(w)
      <4> DEFINE built == [was EXCEPT !.pc = "built", !.basis = <<current, threshold>>]
      <4> DEFINE failed == [was EXCEPT !.pc = "done", !.result = "failed"]
      <4>1. built.rev = was.rev /\ failed.pc = "done"
        BY <3>1 DEF Goroutine
      <4>2. was.rev # 0
        BY <3>6 DEF Build, Abort, Started
      <4>3. /\ \A v \in Worker \ {w} : worker'[v] = worker[v]
            /\ worker'[w] = built \/ worker'[w] = failed
        BY <3>6 DEF Build, Abort, Steps, TypeOK
      <4> HIDE DEF built, failed
      <4> QED BY <4>1, <4>2, <4>3 DEF Started
    <3>7. CASE \/ Finish(w) \/ Notify(w) \/ Send(w)
               \/ \E note \in {"sent", "failed"} : Mark(w, note)
      BY <3>1, <3>7, IdleType DEF Finish, Notify, Send, Mark, Steps, Started, TypeOK, Goroutine
    <3>8. CASE Heartbeat(w)
      BY <3>1, <3>8 DEF Heartbeat, Steps, Started, TypeOK, Goroutine
    <3> QED BY <2>3, <3>2, <3>3, <3>4, <3>5, <3>6, <3>7, <3>8 DEF WorkerStep
  <2>4. CASE \/ \E l \in LocalTime, z \in Zone : CreateJob(l, z)
             \/ Pause \/ Resume \/ Cancel
             \/ \E l \in LocalTime, z \in Zone, n \in 0 .. MaxThreshold : ChangeTime(l, z, n)
    BY <2>4 DEF CreateJob, Pause, Resume, Cancel, ChangeTime, Others, Started
  <2>5. CASE Tick \/ TickEnds
    <3>1. \A w \in Worker : worker'[w] = worker[w] \/ worker'[w].pc \in {"idle", "tick"}
      BY <2>5, IdleType DEF Tick, TickEnds, TypeOK, Goroutine
    <3> QED BY <3>1 DEF Started
  <2>6. CASE TimePasses \/ AccessChanges \/ Reconnect \/ Crash
    BY <2>6, IdleType DEF TimePasses, AccessChanges, Reconnect, Crash, Started
  <2>7. CASE UNCHANGED vars
    BY <2>7 DEF vars, Started
  <2> QED BY <2>3, <2>4, <2>5, <2>6, <2>7 DEF Next
<1> QED BY <1>1, <1>2, TypeCorrect, PTL DEF Spec

(* Publishing comes from the run in force, which is later than the one it    *)
(* replaces, against the base and threshold in force and from the present    *)
(* connection.                                                               *)
THEOREM PublicationsInForce == Spec => PublishedInForce
<1> DEFINE Good == current' # current =>
             /\ Held(current')
             /\ current' > current
             /\ \E w \in Worker : /\ worker[w].run = current'
                                  /\ worker[w].rev = revision
                                  /\ worker[w].basis = <<current, threshold>>
<1>1. ASSUME IInv, Started, [Next]_vars, current' # current
      PROVE  Good
  <2>1. PICK w \in Worker : \E o \in Result : Save(w, o)
    BY <1>1, OnlySave
  <2>2. /\ current' = worker[w].run /\ Valid(w) /\ Held(worker[w].run)
        /\ worker[w].basis = <<current, threshold>> /\ Owns(w)
    BY <1>1, <2>1 DEF Save, Valid, IInv, Owned, Busy
  <2>3. worker[w].rev = revision
    BY <1>1, <2>1, <2>2 DEF Save, Valid, Check, Started
  <2>4. current' \in RunId /\ Present(current') /\ current \in Nat
    BY <1>1, <2>2 DEF Owns, IInv, TypeOK
  <2>5. current # 0 => current \in RunId /\ Present(current)
    BY <1>1 DEF IInv, InOrder, TypeOK, RunId
  <2>6. ~(current \in RunId /\ Present(current) /\ current' < current)
    BY <1>1, <2>2, <2>4 DEF IInv, InOrder, Held
  <2> QED BY <1>1, <2>2, <2>3, <2>4, <2>5, <2>6 DEF RunId
<1>2. IInv /\ Started /\ [Next]_vars => [Good]_vars
  BY <1>1
<1> QED BY <1>2, Invariance, StartedWithRevision, PTL DEF Spec, PublishedInForce

(* After Cancel no run is claimed, nothing is published and nothing brings   *)
(* the job back, whatever is in flight.                                      *)
THEOREM CancelsAreFinal == Spec => CancelFinal
<1> DEFINE Good == job # NoJob /\ job.status = "cancelled" =>
             /\ job'.status = "cancelled"
             /\ current' = current
             /\ \A r \in RunId : runs[r] = NoRun => runs'[r] = NoRun
<1>1. ASSUME IInv, [Next]_vars, job # NoJob, job.status = "cancelled"
      PROVE  Good
  <2>1. current' = current
    BY <1>1, OnlySave DEF Save, Valid, Check
  <2>2. \A r \in RunId : runs[r] = NoRun => runs'[r] = NoRun
    BY <1>1, RowSteps DEF Claim, Startable, Executable
  <2>3. job'.status = "cancelled"
    <3> USE <1>1
    <3>1. job \in Job
      BY DEF IInv, TypeOK
    <3>2. \A t : [job EXCEPT !.next = t].status = "cancelled"
                 /\ [job EXCEPT !.last = t].status = "cancelled"
                 /\ [job EXCEPT !.status = "cancelled"].status = "cancelled"
      BY <3>1 DEF Job
    <3>3. CASE \/ \E l \in LocalTime, z \in Zone : CreateJob(l, z)
               \/ Pause \/ Resume \/ Cancel
               \/ \E l \in LocalTime, z \in Zone, n \in 0 .. MaxThreshold : ChangeTime(l, z, n)
      BY <3>2, <3>3 DEF CreateJob, Pause, Resume, Cancel, ChangeTime, Reschedule
    <3>4. CASE Tick \/ TickEnds
      BY <3>2, <3>4 DEF Tick, TickEnds
    <3>5. ASSUME NEW w \in Worker, WorkerStep(w) \/ Heartbeat(w)
          PROVE  job'.status = "cancelled"
      <4>1. CASE \/ \E r \in RunId : Claim(w, r)
                 \/ Refuse(w)
        BY <3>2, <4>1 DEF Claim, Refuse
      <4>2. CASE Finish(w)
        BY <3>2, <4>2 DEF Finish
      <4>3. CASE \/ Start(w) \/ Build(w) \/ Abort(w) \/ Send(w) \/ Notify(w) \/ Heartbeat(w)
                 \/ \E o \in Result : Read(w, o) \/ Save(w, o)
                 \/ \E note \in {"sent", "failed"} : Mark(w, note)
        BY <4>3 DEF Start, Build, Abort, Send, Notify, Heartbeat, Read, Save, Mark,
                    NoWrite, dbVars
      <4> QED BY <3>5, <4>1, <4>2, <4>3 DEF WorkerStep
    <3>6. CASE TimePasses \/ AccessChanges \/ Reconnect \/ Crash
      BY <3>6 DEF TimePasses, AccessChanges, Reconnect, Crash, dbVars
    <3>7. CASE UNCHANGED vars
      BY <3>7 DEF vars, dbVars
    <3> QED BY <3>3, <3>4, <3>5, <3>6, <3>7 DEF Next
  <2> QED BY <2>1, <2>2, <2>3
<1>2. IInv /\ [Next]_vars => [Good]_vars
  BY <1>1
<1> QED BY <1>2, Invariance, PTL DEF Spec, CancelFinal

=============================================================================
