---------------------------- MODULE MCAdmission ----------------------------
(***************************************************************************)
(* Instances of Admission for TLC.                                         *)
(***************************************************************************)
EXTENDS Admission, TLC

CONSTANTS u1, u2, u3, private, web, group, local

\* u1 writes in a private chat, u2 and u3 in a group, u3 in the web chat as well.
MCInbound == {<<u1, private>>, <<u2, group>>, <<u3, group>>, <<u3, web>>}

\* u1 and u2 write in private chats; the liveness run has no more people.
TwoChats == {<<u1, private>>, <<u2, web>>}

\* Requests and the two ends of a handler are interchangeable in the run without
\* liveness.
Interchangeable ==
  Permutations(Job) \cup Permutations({Completed, Failed})

\* The limits start so that three requests can run, two of them at one gate.
ThreeRunAtOnce ==
  Init /\ settings.limit = [l \in Lane |-> IF l = local THEN 1 ELSE 2]
ThreeRunSpec == ThreeRunAtOnce /\ [][Next]_vars

\* The context of one request ends.
OneCancelled == Cardinality(cancelled \cup {j \in Job : job[j] = Cancelled}) <= 1

\* The short queue is made longer; under the longer one a gate is made narrower,
\* below what it has granted already.  OnChange runs at once.  The run with
\* liveness makes any change and delays OnChange.
RaiseQueueOrShrink ==
  /\ settings' # settings =>
       \/ settings.queue < settings'.queue
       \/ settings.queue = MaxQueue /\ Capacity' < Capacity
  /\ notices # {} => notices' # notices
=============================================================================
