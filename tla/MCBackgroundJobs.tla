-------------------------- MODULE MCBackgroundJobs --------------------------
(***************************************************************************)
(* Instances of BackgroundJobs for TLC.                                    *)
(***************************************************************************)
EXTENDS BackgroundJobs, TLC

\* The ticker and a "run now" beside each other, and a crash, over two dates; the
\* connection, the zone and the threshold stay, and after the crash the job is not
\* paused nor its creator's right withdrawn.
Leases ==
  /\ revision = 1 /\ threshold = 0
  /\ crashes > 0 => allowed /\ job # NoJob /\ job.status # "paused"
  /\ job # NoJob => job.zone = 0

\* The ticker alone over one date, while the zone changes and, once, either the
\* connection or the threshold (the creator's right, which comes and goes, not
\* beside them).
Changes ==
  /\ \A w \in Manual : worker[w] = Idle
  /\ crashes = 0 /\ now < MaxTime
  /\ threshold + revision <= 2 /\ (threshold + revision = 2 => allowed)
  /\ job # NoJob => job.status = "active"

\* What is explored: a step into one of the two.
Within == (Leases \/ Changes)'
=============================================================================
