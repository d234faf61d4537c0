-------------------------- MODULE Admission_proofs --------------------------
(***************************************************************************)
(* Slots, queues and wakeups of the admission, for any requests, people,   *)
(* dialogues, gates, limits and number of changes: the two dispatch loops  *)
(* are followed round by round.                                            *)
(***************************************************************************)
EXTENDS Admission, Collections

-----------------------------------------------------------------------------
(* A queue without somebody who is in it once.                               *)
LEMMA RemoveFirstMembers ==
  ASSUME NEW S, NEW s \in Seq(S), NEW x \in ToSet(s), IsInjective(s)
  PROVE  /\ RemoveFirst(s, x) \in Seq(S)
         /\ IsInjective(RemoveFirst(s, x))
         /\ ToSet(RemoveFirst(s, x)) = ToSet(s) \ {x}
<1> DEFINE I == {i \in 1 .. Len(s) : s[i] = x}
<1>1. I # {} /\ I \in SUBSET Nat
  BY DEF ToSet
<1>2. Min(I) \in I
  <2> HIDE DEF I
  <2> QED
    BY <1>1, MinIsLeast
<1>3. RemoveFirst(s, x) = RemoveAt(s, Min(I))
  BY <1>1 DEF RemoveFirst, SelectInSeq
<1>4. Min(I) \in 1 .. Len(s) /\ s[Min(I)] = x
  BY <1>2
<1> HIDE DEF I
<1>5. /\ RemoveAt(s, Min(I)) \in Seq(S)
      /\ IsInjective(RemoveAt(s, Min(I)))
      /\ ToSet(RemoveAt(s, Min(I))) = ToSet(s) \ {s[Min(I)]}
  BY <1>4, RemoveAtMembers
<1> QED
  BY <1>3, <1>4, <1>5

-----------------------------------------------------------------------------
(* Whose turn it is.                                                         *)

(* Preferred chooses among those it may choose from, and passes over the     *)
(* first only for another user than the last one, who was the first's.       *)
LEMMA PreferredIsOneOf ==
  ASSUME NEW rows, NEW wait, NEW l, NEW among \in SUBSET (Nat \ {0}), among # {}
  PROVE  LET i == Preferred(rows, wait, among, l) IN
         /\ i \in among
         /\ 1 \in among /\ i # 1 =>
              rows[wait[1]].user = l /\ rows[wait[i]].user # l
<1> DEFINE others == {i \in among : rows[wait[i]].user # l}
           from == IF others # {} THEN others ELSE among
<1>1. from # {} /\ from \in SUBSET Nat /\ from \subseteq among
  OBVIOUS
<1>2. Preferred(rows, wait, among, l) = Min(from)
  BY DEF Preferred
<1>3. Min(from) \in from /\ \A m \in from : Min(from) <= m
  <2> HIDE DEF from
  <2> QED
    BY <1>1, MinIsLeast
<1>0. \A i \in among : i \notin from => rows[wait[i]].user = l
  OBVIOUS
<1>5. \A i \in from : from = among \/ rows[wait[i]].user # l
  OBVIOUS
<1> HIDE DEF from
<1>4. ASSUME 1 \in among, Min(from) # 1
      PROVE  rows[wait[1]].user = l /\ rows[wait[Min(from)]].user # l
  <2>1. Min(from) \in Nat \ {0}
    BY <1>1, <1>3
  <2>2. 1 \notin from
    BY <1>3, <1>4, <2>1
  <2> QED
    BY <1>0, <1>3, <1>4, <1>5, <2>2
<1> QED
  BY <1>1, <1>2, <1>3, <1>4

-----------------------------------------------------------------------------
(* Grants of a gate.                                                         *)

(* What may be said of a gate while its dispatch hands out slots to the      *)
(* queue g0: who left the queue has a slot, and the one who was at the head  *)
(* is still there, having been passed over at most once.                     *)
GrantStates(g0) ==
  {s \in Gate :
     /\ IsInjective(s.pending)
     /\ ToSet(s.pending) \subseteq ToSet(g0.pending)
     /\ s.active = g0.active + Cardinality(ToSet(g0.pending) \ ToSet(s.pending))
     /\ g0.pending # <<>> /\ g0.pending[1] \in ToSet(s.pending) =>
          /\ s.pending[1] = g0.pending[1]
          /\ s # g0 => /\ g0.last = job[g0.pending[1]].user
                       /\ s.last # job[g0.pending[1]].user}

JobRows == [Job -> JobType \cup Ended \cup {NoJob}]

(* A queue that has members has a first one, and its places hold them.       *)
LEMMA Places ==
  ASSUME NEW S, NEW s \in Seq(S)
  PROVE  /\ Len(s) \in Nat /\ DOMAIN s = 1 .. Len(s)
         /\ s # <<>> <=> Len(s) > 0
         /\ ToSet(s) = {s[k] : k \in 1 .. Len(s)}
         /\ \A k \in 1 .. Len(s) : s[k] \in S /\ s[k] \in ToSet(s)
<1>1. Len(s) \in Nat /\ DOMAIN s = 1 .. Len(s) /\ \A k \in 1 .. Len(s) : s[k] \in S
  OBVIOUS
<1>2. s # <<>> <=> Len(s) > 0
  BY <1>1
<1> QED
  BY <1>1, <1>2 DEF ToSet

(* One grant keeps that, and makes the queue shorter or changes nothing.     *)
LEMMA GrantRound ==
  ASSUME job \in JobRows, NEW g0 \in Gate, NEW limit \in Nat,
         IsInjective(g0.pending), ToSet(g0.pending) \subseteq Live(job),
         NEW s \in GrantStates(g0)
  PROVE  /\ GrantOne(s, limit) \in GrantStates(g0)
         /\ \/ GrantOne(s, limit) = s /\ (s.pending = <<>> \/ s.active >= limit)
            \/ Len(GrantOne(s, limit).pending) < Len(s.pending)
<1> DEFINE i == Preferred(job, s.pending, DOMAIN s.pending, s.last)
           x == s.pending[i]
           t == [active |-> s.active + 1, pending |-> RemoveAt(s.pending, i),
                 last |-> job[x].user]
<1>1. s \in Gate /\ s.active \in Nat /\ s.pending \in Seq(Job) /\ s.last \in User \cup {NoUser}
      /\ IsInjective(s.pending) /\ ToSet(s.pending) \subseteq ToSet(g0.pending)
  BY DEF GrantStates, Gate
<1>2. g0.active \in Nat /\ g0.pending \in Seq(Job)
  BY DEF Gate
<1>3. CASE s.pending = <<>> \/ ~(s.active < limit)
  <2>1. GrantOne(s, limit) = s
    BY <1>3 DEF GrantOne
  <2> QED
    BY <1>1, <1>3, <2>1
<1>4. CASE s.pending # <<>> /\ s.active < limit
  <2>1. GrantOne(s, limit) = t
    BY <1>4 DEF GrantOne
  <2>2. /\ DOMAIN s.pending = 1 .. Len(s.pending) /\ Len(s.pending) \in Nat
        /\ Len(s.pending) > 0
        /\ \A k \in 1 .. Len(s.pending) : s.pending[k] \in ToSet(s.pending)
    BY <1>1, <1>4, Places
  <2>3. 1 \in DOMAIN s.pending /\ DOMAIN s.pending \in SUBSET (Nat \ {0})
        /\ DOMAIN s.pending # {}
    BY <2>2
  <2>4. i \in DOMAIN s.pending /\ (i # 1 => /\ job[s.pending[1]].user = s.last
                                            /\ job[x].user # s.last)
    <3>1. /\ Preferred(job, s.pending, DOMAIN s.pending, s.last) \in DOMAIN s.pending
          /\ 1 \in DOMAIN s.pending
             /\ Preferred(job, s.pending, DOMAIN s.pending, s.last) # 1 =>
               /\ job[s.pending[1]].user = s.last
               /\ job[s.pending[Preferred(job, s.pending, DOMAIN s.pending, s.last)]].user
                    # s.last
      BY <2>3, PreferredIsOneOf
    <3> QED
      BY <2>3, <3>1
  <2>5. i \in 1 .. Len(s.pending)
    BY <2>2, <2>4
  <2> HIDE DEF i
  <2>6. x \in ToSet(s.pending) /\ x \in Live(job) /\ job[x].user \in User
    <3>1. x \in ToSet(s.pending)
      BY <2>2, <2>5
    <3>2. x \in Live(job)
      BY <1>1, <3>1
    <3>3. job[x] \in JobType
      BY <3>2 DEF Live, JobRows, Outside
    <3> QED
      BY <3>1, <3>2, <3>3 DEF JobType
  <2> DEFINE q == RemoveAt(s.pending, i)
  <2>7. /\ q \in Seq(Job) /\ Len(q) = Len(s.pending) - 1 /\ IsInjective(q)
        /\ ToSet(q) = ToSet(s.pending) \ {x}
        /\ i # 1 => Len(q) >= 1 /\ q[1] = s.pending[1]
    BY <1>1, <2>5, RemoveAtMembers
  <2> HIDE DEF q
  <2>8. t.pending = q /\ t.active = s.active + 1 /\ t.last = job[x].user
    BY DEF q
  <2>9. t \in Gate
    BY <1>1, <2>6, <2>7, <2>8 DEF Gate, q
  <2>10. t.active = g0.active + Cardinality(ToSet(g0.pending) \ ToSet(q))
    <3> DEFINE left == ToSet(g0.pending) \ ToSet(s.pending)
    <3>1. IsFiniteSet(ToSet(g0.pending))
      BY <1>2, QueueLength
    <3>2. IsFiniteSet(left)
      BY <3>1, FS_Subset
    <3>3. ToSet(g0.pending) \ ToSet(q) = left \cup {x} /\ x \notin left
      BY <1>1, <2>6, <2>7
    <3>4. s.active = g0.active + Cardinality(left)
      BY DEF GrantStates
    <3> HIDE DEF left, t
    <3>6. x \notin left /\ Cardinality(left) \in Nat
      BY <3>2, <3>3, FS_CardinalityType
    <3> HIDE DEF x
    <3>5. Cardinality(left \cup {x}) = Cardinality(left) + 1 /\ Cardinality(left) \in Nat
      BY <3>2, <3>6, FS_AddElement
    <3> DEFINE c == Cardinality(left)
    <3>7. Cardinality(left \cup {x}) = c + 1 /\ c \in Nat /\ s.active = g0.active + c
      BY <3>4, <3>5, <3>6
    <3>9. g0.active \in Nat
      BY <1>2
    <3>10. t.active = s.active + 1
      BY <2>8
    <3>8. t.active = g0.active + (c + 1)
      <4> HIDE DEF c
      <4> QED
        BY <3>7, <3>9, <3>10
    <3> QED
      BY <3>3, <3>7, <3>8
  <2>11. ASSUME g0.pending # <<>>, g0.pending[1] \in ToSet(q)
         PROVE  /\ q[1] = g0.pending[1]
                /\ g0.last = job[g0.pending[1]].user
                /\ job[x].user # job[g0.pending[1]].user
    <3>1. g0.pending[1] \in ToSet(s.pending) /\ g0.pending[1] # x
      BY <2>7, <2>11
    <3>2. /\ s.pending[1] = g0.pending[1]
          /\ s # g0 => /\ g0.last = job[g0.pending[1]].user
                       /\ s.last # job[g0.pending[1]].user
      BY <2>11, <3>1 DEF GrantStates
    <3>3. i # 1
      BY <3>1, <3>2
    <3> QED
      BY <2>4, <2>7, <3>2, <3>3
  <2> HIDE DEF t
  <2>12. t \in GrantStates(g0)
    BY <1>1, <2>7, <2>8, <2>9, <2>10, <2>11 DEF GrantStates
  <2> QED
    BY <2>1, <2>2, <2>7, <2>8, <2>12
<1> QED
  BY <1>1, <1>3, <1>4

(* Gate.dispatch hands out slots until all have one or none is left.         *)
LEMMA GrantedAll ==
  ASSUME job \in JobRows, NEW g0 \in Gate, NEW limit \in Nat,
         IsInjective(g0.pending), ToSet(g0.pending) \subseteq Live(job)
  PROVE  LET s == Granted(g0, limit) IN
         s \in GrantStates(g0) /\ (s.pending = <<>> \/ s.active >= limit)
<1> DEFINE S == GrantStates(g0)
           L == Len(g0.pending)
           f == [s \in S |-> GrantOne(s, limit)]
           size == [s \in S |-> Len(s.pending)]
           after == CHOOSE g : g = [n \in 0 .. L |-> IF n = 0 THEN g0
                                                     ELSE GrantOne(g[n - 1], limit)]
<1>1. Granted(g0, limit) = after[L]
  BY DEF Granted
<1>2. g0 \in S /\ L \in Nat
  <2>1. g0.active \in Nat /\ g0.pending \in Seq(Job)
    BY DEF Gate
  <2>2. ToSet(g0.pending) \ ToSet(g0.pending) = {}
    OBVIOUS
  <2>4. Cardinality(ToSet(g0.pending) \ ToSet(g0.pending)) = 0
    BY <2>2, FS_EmptySet
  <2>3. g0.active = g0.active + Cardinality(ToSet(g0.pending) \ ToSet(g0.pending))
    BY <2>1, <2>4
  <2> QED
    BY <2>1, <2>3 DEF GrantStates
<1>3. \A s \in S : /\ GrantOne(s, limit) \in S
                   /\ \/ GrantOne(s, limit) = s /\ (s.pending = <<>> \/ s.active >= limit)
                      \/ Len(GrantOne(s, limit).pending) < Len(s.pending)
  BY GrantRound
<1>4. \A s \in S : Len(s.pending) \in Nat
  BY DEF GrantStates, Gate
<1> HIDE DEF S, L
<1>5. f \in [S -> S]
  BY <1>3
<1>10. size \in [S -> Nat] /\ size[g0] = L
       /\ \A s \in S : f[s] = s \/ size[f[s]] < size[s]
  BY <1>2, <1>3, <1>4 DEF L
<1>6. after = [n \in 0 .. L |-> IF n = 0 THEN g0 ELSE GrantOne(after[n - 1], limit)]
  <2>1. PICK g \in [0 .. L -> S] : g[0] = g0 /\ \A n \in 1 .. L : g[n] = f[g[n - 1]]
    <3> HIDE DEF f
    <3> QED
      BY <1>2, <1>5, IterationExists
  <2>2. ASSUME NEW n \in 0 .. L
        PROVE  g[n] = IF n = 0 THEN g0 ELSE GrantOne(g[n - 1], limit)
    <3>1. CASE n = 0
      BY <2>1, <3>1
    <3>2. CASE n # 0
      <4>1. n - 1 \in 0 .. L /\ n \in 1 .. L
        BY <1>2, <3>2
      <4>2. g[n - 1] \in S /\ g[n] = f[g[n - 1]]
        BY <2>1, <3>2, <4>1
      <4> QED
        BY <3>2, <4>2
    <3> QED
      BY <3>1, <3>2
  <2>3. g = [n \in 0 .. L |-> IF n = 0 THEN g0 ELSE GrantOne(g[n - 1], limit)]
    BY <2>1, <2>2
  <2> QED
    BY <2>3
<1> HIDE DEF after
<1>7. after[0] = g0 /\ \A n \in 1 .. L : after[n - 1] \in S => after[n] = f[after[n - 1]]
  <2>1. after[0] = g0
    BY <1>2, <1>6
  <2>2. ASSUME NEW n \in 1 .. L, after[n - 1] \in S PROVE after[n] = f[after[n - 1]]
    <3>1. n \in 0 .. L /\ n # 0
      BY <1>2
    <3>2. after[n] = GrantOne(after[n - 1], limit)
      BY <1>6, <3>1
    <3> QED
      BY <2>2, <3>2
  <2> QED
    BY <2>1, <2>2
<1>8. after[L] \in S /\ f[after[L]] = after[L]
  <2> HIDE DEF f, size
  <2> QED
    BY <1>2, <1>5, <1>7, <1>10, LoopComesToRest
<1>9. after[L].pending = <<>> \/ after[L].active >= limit
  <2>1. GrantOne(after[L], limit) = after[L]
    BY <1>8
  <2> QED
    BY <1>3, <1>4, <1>8, <2>1
<1> QED
  BY <1>1, <1>8, <1>9 DEF S
-----------------------------------------------------------------------------
(* Starts of requests.                                                       *)

PendingIn(rows) == {j \in Job : rows[j] \notin Outside /\ rows[j].at = "pending"}

Apart(rows, on) ==
  \A j, k \in on : j # k => /\ rows[j].user # rows[k].user
                            /\ rows[j].dialogue # rows[k].dialogue

(* In the queue of the runtime is who is pending, once.                      *)
Queued(rows, wait) ==
  wait \in Seq(Job) /\ IsInjective(wait) /\ ToSet(wait) = PendingIn(rows)

(* What may be said of the runtime while its dispatch starts requests: those *)
(* that ran still run, each other one either waits or was started, and no    *)
(* two that run have the same user or the same dialogue.                     *)
StartStates(rows, wait) ==
  {s \in [wait : Seq(Job), on : SUBSET Job, last : User \cup {NoUser}] :
     /\ IsInjective(s.wait)
     /\ ToSet(s.wait) \cup s.on = ToSet(wait) \cup Running(rows)
     /\ ToSet(s.wait) \cap s.on = {}
     /\ Running(rows) \subseteq s.on
     /\ Apart(rows, s.on)}

(* One start keeps that, and makes the queue shorter or changes nothing.     *)
LEMMA StartRound ==
  ASSUME NEW rows \in JobRows, NEW wait, Queued(rows, wait),
         NEW s \in StartStates(rows, wait)
  PROVE  /\ StartOne(rows, s) \in StartStates(rows, wait)
         /\ \/ /\ StartOne(rows, s) = s
               /\ Cardinality(s.on) < Capacity => Eligible(rows, s) = {}
            \/ Len(StartOne(rows, s).wait) < Len(s.wait)
<1> DEFINE among == Eligible(rows, s)
           i == Preferred(rows, s.wait, among, s.last)
           x == s.wait[i]
           q == RemoveAt(s.wait, i)
           t == [wait |-> q, on |-> s.on \cup {x}, last |-> rows[x].user]
<1>1. /\ s \in [wait : Seq(Job), on : SUBSET Job, last : User \cup {NoUser}]
      /\ s.wait \in Seq(Job) /\ s.on \subseteq Job /\ s.last \in User \cup {NoUser}
      /\ IsInjective(s.wait)
      /\ ToSet(s.wait) \cup s.on = ToSet(wait) \cup Running(rows)
      /\ ToSet(s.wait) \cap s.on = {} /\ Running(rows) \subseteq s.on
      /\ Apart(rows, s.on)
  BY DEF StartStates
<1>2. CASE ~(Cardinality(s.on) < Capacity) \/ among = {}
  <2>1. StartOne(rows, s) = s
    BY <1>2 DEF StartOne
  <2> QED
    BY <1>2, <2>1
<1>3. CASE Cardinality(s.on) < Capacity /\ among # {}
  <2>1. StartOne(rows, s) = t
    BY <1>3 DEF StartOne
  <2>2. /\ DOMAIN s.wait = 1 .. Len(s.wait) /\ Len(s.wait) \in Nat
        /\ \A k \in 1 .. Len(s.wait) : s.wait[k] \in Job /\ s.wait[k] \in ToSet(s.wait)
    BY <1>1, Places
  <2>3. /\ among \in SUBSET (Nat \ {0}) /\ among # {} /\ among \subseteq 1 .. Len(s.wait)
        /\ \A n \in among, k \in s.on : /\ rows[k].dialogue # rows[s.wait[n]].dialogue
                                        /\ rows[k].user # rows[s.wait[n]].user
    BY <1>3, <2>2 DEF Eligible
  <2> HIDE DEF among
  <2>4. i \in among
    BY <2>3, PreferredIsOneOf
  <2> HIDE DEF i
  <2>5. /\ i \in 1 .. Len(s.wait) /\ x \in Job /\ x \in ToSet(s.wait)
        /\ \A k \in s.on : /\ rows[k].dialogue # rows[x].dialogue
                           /\ rows[k].user # rows[x].user
    BY <2>2, <2>3, <2>4
  <2>6. /\ q \in Seq(Job) /\ Len(q) = Len(s.wait) - 1 /\ IsInjective(q)
        /\ ToSet(q) = ToSet(s.wait) \ {x}
    BY <1>1, <2>5, RemoveAtMembers
  <2> HIDE DEF q, x
  <2>7. rows[x].user \in User
    <3>1. x \in PendingIn(rows) \/ x \in Running(rows)
      BY <1>1, <2>5 DEF Queued
    <3>2. rows[x] \in JobType
      BY <3>1 DEF PendingIn, Running, JobRows, Outside
    <3> QED
      BY <3>2 DEF JobType
  <2>8. Apart(rows, s.on \cup {x})
    BY <1>1, <2>5 DEF Apart
  <2>9. t \in [wait : Seq(Job), on : SUBSET Job, last : User \cup {NoUser}]
        /\ t.wait = q /\ t.on = s.on \cup {x}
    BY <1>1, <2>5, <2>6, <2>7
  <2> HIDE DEF t
  <2>10. /\ ToSet(q) \cup (s.on \cup {x}) = ToSet(wait) \cup Running(rows)
         /\ ToSet(q) \cap (s.on \cup {x}) = {}
         /\ Running(rows) \subseteq s.on \cup {x}
    BY <1>1, <2>5, <2>6
  <2>11. t \in StartStates(rows, wait)
    BY <2>6, <2>8, <2>9, <2>10 DEF StartStates
  <2> QED
    BY <2>1, <2>2, <2>6, <2>9, <2>11
<1> QED
  BY <1>2, <1>3

(* Runtime.dispatch starts requests until nobody may run or there is no      *)
(* room.                                                                     *)
LEMMA StartedAll ==
  ASSUME NEW rows \in JobRows, NEW wait, Queued(rows, wait), Apart(rows, Running(rows)),
         last \in User \cup {NoUser}
  PROVE  LET s == Starts(rows, wait) IN
         /\ s \in StartStates(rows, wait)
         /\ Cardinality(s.on) < Capacity => Eligible(rows, s) = {}
<1> DEFINE S == StartStates(rows, wait)
           L == Len(wait)
           a == [wait |-> wait, on |-> Running(rows), last |-> last]
           f == [s \in S |-> StartOne(rows, s)]
           size == [s \in S |-> Len(s.wait)]
           after == CHOOSE g : g = [n \in 0 .. L |-> IF n = 0 THEN a
                                                     ELSE StartOne(rows, g[n - 1])]
<1>1. Starts(rows, wait) = after[L]
  BY DEF Starts
<1>2. a \in S
  <2>1. a \in [wait : Seq(Job), on : SUBSET Job, last : User \cup {NoUser}]
        /\ a.wait = wait /\ a.on = Running(rows)
    BY DEF Running, Queued
  <2>2. ToSet(wait) \cap Running(rows) = {}
    BY DEF PendingIn, Running, InProgress, Queued
  <2> HIDE DEF a
  <2>3. a \in S
    BY <2>1, <2>2 DEF StartStates, Queued
  <2> QED
    BY <2>3
<1>11. L \in Nat
  BY DEF Queued
<1>3. \A s \in S : /\ StartOne(rows, s) \in S
                   /\ \/ /\ StartOne(rows, s) = s
                         /\ Cardinality(s.on) < Capacity => Eligible(rows, s) = {}
                      \/ Len(StartOne(rows, s).wait) < Len(s.wait)
  BY StartRound
<1>4. \A s \in S : Len(s.wait) \in Nat
  BY DEF StartStates
<1> HIDE DEF S
<1>10. size \in [S -> Nat] /\ size[a] = L
       /\ \A s \in S : f[s] = s \/ size[f[s]] < size[s]
  BY <1>2, <1>3, <1>4
<1> HIDE DEF L, a
<1>5. f \in [S -> S]
  BY <1>3
<1>6. after = [n \in 0 .. L |-> IF n = 0 THEN a ELSE StartOne(rows, after[n - 1])]
  <2>1. PICK g \in [0 .. L -> S] : g[0] = a /\ \A n \in 1 .. L : g[n] = f[g[n - 1]]
    <3> HIDE DEF f
    <3> QED
      BY <1>2, <1>11, <1>5, IterationExists
  <2>2. ASSUME NEW n \in 0 .. L
        PROVE  g[n] = IF n = 0 THEN a ELSE StartOne(rows, g[n - 1])
    <3>1. CASE n = 0
      BY <2>1, <3>1
    <3>2. CASE n # 0
      <4>1. n - 1 \in 0 .. L /\ n \in 1 .. L
        BY <1>11, <3>2
      <4>2. g[n - 1] \in S /\ g[n] = f[g[n - 1]]
        BY <2>1, <3>2, <4>1
      <4> QED
        BY <3>2, <4>2
    <3> QED
      BY <3>1, <3>2
  <2>3. g = [n \in 0 .. L |-> IF n = 0 THEN a ELSE StartOne(rows, g[n - 1])]
    BY <2>1, <2>2
  <2> QED
    BY <2>3
<1> HIDE DEF after
<1>7. after[0] = a /\ \A n \in 1 .. L : after[n - 1] \in S => after[n] = f[after[n - 1]]
  <2>1. after[0] = a
    BY <1>11, <1>6
  <2>2. ASSUME NEW n \in 1 .. L, after[n - 1] \in S PROVE after[n] = f[after[n - 1]]
    <3>1. n \in 0 .. L /\ n # 0
      BY <1>11
    <3>2. after[n] = StartOne(rows, after[n - 1])
      BY <1>6, <3>1
    <3> QED
      BY <2>2, <3>2
  <2> QED
    BY <2>1, <2>2
<1>8. after[L] \in S /\ f[after[L]] = after[L]
  <2> HIDE DEF f, size
  <2> QED
    BY <1>2, <1>11, <1>5, <1>7, <1>10, LoopComesToRest
<1>9. Cardinality(after[L].on) < Capacity => Eligible(rows, after[L]) = {}
  <2>1. StartOne(rows, after[L]) = after[L]
    BY <1>8
  <2>2. Len(after[L].wait) \in Nat
    BY <1>4, <1>8
  <2> QED
    BY <1>3, <1>8, <2>1, <2>2
<1> QED
  BY <1>1, <1>8, <1>9 DEF S
-----------------------------------------------------------------------------
(* The inductive invariant.                                                  *)

(* A request has a gate exactly while it waits there or uses the model.      *)
LanesFit(rows) ==
  \A j \in Live(rows) : rows[j].lane \in Lane <=> rows[j].at \in {"waiting", "holding"}

(* Among any requests in the system there is one that was admitted when all  *)
(* of them had room: the last of them to come.                               *)
Fitting(rows) ==
  \A S \in SUBSET Live(rows) :
    S # {} => \E m \in S : Cardinality(S) <= rows[m].queue + 1

FineRows(rows) ==
  /\ rows \in JobRows
  /\ IsFiniteSet(Live(rows))
  /\ LanesFit(rows)
  /\ Apart(rows, Running(rows))
  /\ Fitting(rows)

(* The requests that wait at a gate or use its model.                        *)
Asking(rows, l) == {j \in Live(rows) : rows[j].lane = l}

(* Who queues at a gate asks for it and waits, once; the others that ask     *)
(* have a slot each.                                                         *)
GateCounts(rows, l, g) ==
  /\ IsInjective(g.pending)
  /\ ToSet(g.pending) \subseteq {j \in Asking(rows, l) : rows[j].at = "waiting"}
  /\ g.active = Cardinality(Asking(rows, l) \ ToSet(g.pending))

(* ... and nobody queues at a gate of which no slot is used.                 *)
GateFits(rows, l, g) ==
  GateCounts(rows, l, g) /\ (g.pending # <<>> => g.active >= 1)

(* Each pending request shares its user or its dialogue with a running one.  *)
Stuck(rows) ==
  \A x \in PendingIn(rows) : \E k \in Running(rows) :
    rows[k].dialogue = rows[x].dialogue \/ rows[k].user = rows[x].user

Woken ==
  /\ \A l \in Lane \ notices :
       gate[l].pending # <<>> => gate[l].active >= settings.limit[l]
  /\ Runtime \notin notices /\ Cardinality(Running(job)) < Capacity => Stuck(job)

AdmissionInv ==
  /\ TypeOK
  /\ FineRows(job)
  /\ Queued(job, pending)
  /\ \A l \in Lane : GateFits(job, l, gate[l])
  /\ Woken

(* The fields of a request in the system.                                    *)
LEMMA RowTypes ==
  ASSUME NEW rows \in JobRows, NEW j \in Live(rows)
  PROVE  /\ rows[j] \in JobType
         /\ rows[j].user \in User /\ rows[j].dialogue \in Dialogue
         /\ rows[j].queue \in 1 .. MaxQueue /\ rows[j].queue \in Nat
         /\ rows[j].at \in {"pending"} \cup InProgress
         /\ rows[j].lane \in Lane \cup {NoLane}
<1>1. rows[j] \in JobType
  BY DEF Live, JobRows, Outside
<1> QED
  BY <1>1, BoundsAssumption DEF JobType

(* A request in the system is pending or running.                            *)
LEMMA LiveSplit ==
  ASSUME NEW rows \in JobRows
  PROVE  /\ Live(rows) = Running(rows) \cup PendingIn(rows)
         /\ Running(rows) \cap PendingIn(rows) = {}
<1>1. \A j \in Live(rows) : rows[j].at \in {"pending"} \cup InProgress
  BY RowTypes
<1> QED
  BY <1>1 DEF Live, Running, PendingIn, InProgress

(* Requests that leave do not disturb Fitting.                               *)
LEMMA FittingKept ==
  ASSUME NEW rows, NEW more, Fitting(rows), Live(more) \subseteq Live(rows),
         \A j \in Live(more) : more[j].queue = rows[j].queue
  PROVE  Fitting(more)
<1> SUFFICES ASSUME NEW S \in SUBSET Live(more), S # {}
             PROVE  \E m \in S : Cardinality(S) <= more[m].queue + 1
  BY DEF Fitting
<1>1. PICK m \in S : Cardinality(S) <= rows[m].queue + 1
  BY DEF Fitting
<1> QED
  BY <1>1

(* A running request that asks for a model, gets it or gives it back: the    *)
(* requests and who runs stay the same.                                      *)
LEMMA MoveKeeps ==
  ASSUME FineRows(job), NEW j \in Running(job), NEW where \in InProgress,
         NEW l \in Lane \cup {NoLane}, l \in Lane <=> where \in {"waiting", "holding"},
         Moves(j, where, l)
  PROVE  /\ FineRows(job') /\ Live(job') = Live(job) /\ Running(job') = Running(job)
         /\ PendingIn(job') = PendingIn(job)
         /\ \A k \in Live(job) : /\ job'[k].user = job[k].user
                                 /\ job'[k].dialogue = job[k].dialogue
                                 /\ job'[k].queue = job[k].queue
         /\ job'[j].at = where /\ job'[j].lane = l
         /\ \A k \in Job \ {j} : job'[k] = job[k]
         /\ \A k \in Lane : Asking(job', k) = IF k = l THEN Asking(job, k) \cup {j}
                                              ELSE Asking(job, k) \ {j}
<1>1. job \in JobRows /\ j \in Job /\ j \in Live(job)
  BY DEF FineRows, Running, Live
<1>2. /\ job[j] \in JobType /\ job[j] \notin Outside
      /\ job[j].user \in User /\ job[j].dialogue \in Dialogue
      /\ job[j].queue \in 1 .. MaxQueue
  BY <1>1, RowTypes DEF Live
<1> DEFINE r == [user |-> job[j].user, dialogue |-> job[j].dialogue,
                 queue |-> job[j].queue, at |-> where, lane |-> l]
<1>3. job'[j] = r
  <2>1. job'[j] = [[job[j] EXCEPT !.at = where] EXCEPT !.lane = l]
    BY <1>1 DEF Moves, JobRows
  <2>2. job[j] \in [user : User, dialogue : Dialogue, queue : 1 .. MaxQueue,
                    at : {"pending"} \cup InProgress, lane : Lane \cup {NoLane}]
    BY <1>2 DEF JobType
  <2> QED
    BY <2>1, <2>2
<1>4. r \in JobType
  BY <1>2 DEF JobType
<1>5. r.user = job[j].user /\ r.dialogue = job[j].dialogue /\ r.queue = job[j].queue
      /\ r.at = where /\ r.lane = l
  OBVIOUS
<1> HIDE DEF r
<1>6. r \notin Outside
  BY <1>4, JobAssumption
<1>7. \A k \in Job \ {j} : job'[k] = job[k]
  BY <1>1 DEF Moves, JobRows
<1>8. job' \in JobRows
  <2>1. DOMAIN job' = Job /\ job' = [k \in Job |-> job'[k]]
    BY <1>1 DEF Moves, JobRows
  <2>2. \A k \in Job : job'[k] \in JobType \cup Ended \cup {NoJob}
    BY <1>1, <1>3, <1>4, <1>7 DEF JobRows
  <2> QED
    BY <2>1, <2>2 DEF JobRows
<1>9. Live(job') = Live(job)
  BY <1>1, <1>2, <1>3, <1>6, <1>7 DEF Live
<1>10. Running(job') = Running(job)
  <2>1. job'[j].at \in InProgress /\ job[j].at \in InProgress
    BY <1>3, <1>5 DEF Running
  <2> QED
    BY <1>1, <1>2, <1>3, <1>6, <1>7, <2>1 DEF Running
<1>11. PendingIn(job') = PendingIn(job)
  BY <1>1, <1>8, <1>9, <1>10, LiveSplit
<1>12. \A k \in Live(job) : /\ job'[k].user = job[k].user
                            /\ job'[k].dialogue = job[k].dialogue
                            /\ job'[k].queue = job[k].queue
  BY <1>3, <1>5, <1>7 DEF Live
<1>13. ASSUME NEW k \in Lane
       PROVE  Asking(job', k) = IF k = l THEN Asking(job, k) \cup {j}
                                ELSE Asking(job, k) \ {j}
  <2>1. \A i \in Live(job) \ {j} : job'[i].lane = job[i].lane
    BY <1>7 DEF Live
  <2>2. job'[j].lane = l
    BY <1>3, <1>5
  <2> QED
    BY <1>1, <1>9, <2>1, <2>2 DEF Asking
<1>14. FineRows(job')
  <2>1. LanesFit(job')
    <3>1. \A k \in Live(job) \ {j} : job'[k].lane = job[k].lane /\ job'[k].at = job[k].at
      BY <1>7 DEF Live
    <3> QED
      BY <1>3, <1>5, <1>9, <3>1 DEF FineRows, LanesFit
  <2>2. Apart(job', Running(job'))
    <3>1. Running(job) \subseteq Live(job)
      BY DEF Running, Live
    <3> QED
      BY <1>10, <1>12, <3>1 DEF FineRows, Apart
  <2>3. Fitting(job')
    <3>1. Fitting(job)
      BY DEF FineRows
    <3> QED
      BY <1>9, <1>12, <3>1, FittingKept
  <2> QED
    BY <1>8, <1>9, <2>1, <2>2, <2>3 DEF FineRows
<1> QED
  BY <1>3, <1>5, <1>7, <1>9, <1>10, <1>11, <1>12, <1>13, <1>14

(* Runtime.dispatch, whatever became of the requests before it: they stay    *)
(* the same, those it started run apart from the others, and who is still    *)
(* pending then could not be started.                                        *)
LEMMA DispatchKeeps ==
  ASSUME NEW rows, FineRows(rows), NEW wait, Queued(rows, wait),
         last \in User \cup {NoUser}, Dispatch(rows, wait)
  PROVE  /\ FineRows(job') /\ Queued(job', pending') /\ Live(job') = Live(rows)
         /\ last' \in User \cup {NoUser}
         /\ \A k \in Job : \/ job'[k] = rows[k]
                           \/ k \in PendingIn(rows) /\ job'[k].lane = rows[k].lane
         /\ Cardinality(Running(job')) < Capacity => Stuck(job')
<1> DEFINE s == Starts(rows, wait)
           new == s.on \ Running(rows)
<1>1. rows \in JobRows /\ IsFiniteSet(Live(rows)) /\ LanesFit(rows)
      /\ Apart(rows, Running(rows)) /\ Fitting(rows)
  BY DEF FineRows
<1>2. s \in StartStates(rows, wait)
      /\ (Cardinality(s.on) < Capacity => Eligible(rows, s) = {})
  BY <1>1, StartedAll
<1>3. /\ pending' = s.wait /\ last' = s.last
      /\ job' = [j \in Job |-> IF j \in new THEN [rows[j] EXCEPT !.at = "working"]
                               ELSE rows[j]]
  BY DEF Dispatch
<1> HIDE DEF s
<1>4. /\ s.wait \in Seq(Job) /\ s.on \subseteq Job /\ s.last \in User \cup {NoUser}
      /\ IsInjective(s.wait)
      /\ ToSet(s.wait) \cup s.on = PendingIn(rows) \cup Running(rows)
      /\ ToSet(s.wait) \cap s.on = {} /\ Running(rows) \subseteq s.on
      /\ Apart(rows, s.on)
  BY <1>2 DEF StartStates, Queued
<1>5. new \subseteq PendingIn(rows) /\ new \cap Running(rows) = {}
      /\ s.on = Running(rows) \cup new
  BY <1>4
<1> HIDE DEF new
<1>6. ASSUME NEW j \in new
      PROVE  /\ job'[j] \in JobType /\ job'[j].at = "working"
             /\ job'[j].lane = rows[j].lane /\ job'[j].user = rows[j].user
             /\ job'[j].dialogue = rows[j].dialogue /\ job'[j].queue = rows[j].queue
             /\ job'[j] \notin Outside
  <2>1. j \in Job /\ j \in Live(rows)
    BY <1>5 DEF PendingIn, Live
  <2>2. rows[j] \in [user : User, dialogue : Dialogue, queue : 1 .. MaxQueue,
                     at : {"pending"} \cup InProgress, lane : Lane \cup {NoLane}]
    BY <1>1, <2>1, RowTypes DEF JobType
  <2>3. job'[j] = [rows[j] EXCEPT !.at = "working"]
    BY <1>3, <2>1
  <2>4. job'[j] \in JobType /\ job'[j].at = "working"
        /\ job'[j].lane = rows[j].lane /\ job'[j].user = rows[j].user
        /\ job'[j].dialogue = rows[j].dialogue /\ job'[j].queue = rows[j].queue
    BY <2>2, <2>3 DEF JobType, InProgress
  <2> QED
    BY <2>4, JobAssumption
<1>7. \A j \in Job \ new : job'[j] = rows[j]
  BY <1>3
<1>8. job' \in JobRows
  <2>1. job' = [j \in Job |-> job'[j]]
    BY <1>3
  <2>2. \A j \in Job : job'[j] \in JobType \cup Ended \cup {NoJob}
    BY <1>1, <1>6, <1>7 DEF JobRows
  <2> QED
    BY <2>1, <2>2 DEF JobRows
<1>9. Live(job') = Live(rows)
  BY <1>5, <1>6, <1>7 DEF Live, PendingIn
<1>10. Running(job') = s.on
  <2>1. \A j \in new : j \in Running(job')
    BY <1>5, <1>6 DEF Running, InProgress, PendingIn
  <2>2. \A j \in Job \ new : j \in Running(job') <=> j \in Running(rows)
    BY <1>7 DEF Running
  <2>3. Running(job') \subseteq Job
    BY DEF Running
  <2> QED
    BY <1>4, <1>5, <2>1, <2>2, <2>3
<1>11. PendingIn(job') = ToSet(s.wait)
  <2>1. Live(rows) = PendingIn(rows) \cup Running(rows)
        /\ Live(job') = PendingIn(job') \cup Running(job')
        /\ PendingIn(job') \cap Running(job') = {}
    BY <1>1, <1>8, LiveSplit
  <2> QED
    BY <1>4, <1>9, <1>10, <2>1
<1>12. Queued(job', pending')
  BY <1>3, <1>4, <1>11 DEF Queued
<1>13. \A k \in Live(rows) : /\ job'[k].user = rows[k].user
                             /\ job'[k].dialogue = rows[k].dialogue
                             /\ job'[k].queue = rows[k].queue
  BY <1>6, <1>7 DEF Live
<1>14. s.on \subseteq Live(rows) /\ ToSet(s.wait) \subseteq Live(rows)
  <2>1. Live(rows) = PendingIn(rows) \cup Running(rows)
    BY <1>1, LiveSplit
  <2> QED
    BY <1>4, <2>1
<1>15. FineRows(job')
  <2>1. LanesFit(job')
    <3>1. ASSUME NEW j \in Live(job')
          PROVE  job'[j].lane \in Lane <=> job'[j].at \in {"waiting", "holding"}
      <4>1. CASE j \in new
        <5>1. rows[j].at = "pending" /\ j \in Live(rows)
          BY <1>5, <4>1 DEF PendingIn, Live
        <5>2. rows[j].lane \notin Lane
          BY <1>1, <5>1 DEF LanesFit
        <5> QED
          BY <1>6, <4>1, <5>2
      <4>2. CASE j \notin new
        <5>1. job'[j] = rows[j] /\ j \in Live(rows)
          BY <1>7, <1>9, <4>2 DEF Live
        <5> QED
          BY <1>1, <5>1 DEF LanesFit
      <4> QED
        BY <4>1, <4>2
    <3> QED
      BY <3>1 DEF LanesFit
  <2>2. Apart(job', Running(job'))
    BY <1>4, <1>10, <1>13, <1>14 DEF Apart
  <2>3. Fitting(job')
    BY <1>1, <1>9, <1>13, FittingKept
  <2> QED
    BY <1>1, <1>8, <1>9, <2>1, <2>2, <2>3 DEF FineRows
<1>16. ASSUME Cardinality(Running(job')) < Capacity PROVE Stuck(job')
  <2>1. Eligible(rows, s) = {}
    BY <1>2, <1>10, <1>16
  <2>2. ASSUME NEW x \in PendingIn(job')
        PROVE  \E k \in Running(job') : job'[k].dialogue = job'[x].dialogue
                                        \/ job'[k].user = job'[x].user
    <3>1. PICK i \in DOMAIN s.wait : x = s.wait[i]
      BY <1>11 DEF ToSet
    <3>2. PICK k \in s.on : \/ rows[k].dialogue = rows[x].dialogue
                            \/ rows[k].user = rows[x].user
      BY <2>1, <3>1 DEF Eligible
    <3>3. x \in Live(rows) /\ k \in Live(rows)
      BY <1>11, <1>14
    <3> QED
      BY <1>10, <1>13, <3>2, <3>3
  <2> QED
    BY <2>2 DEF Stuck
<1>17. \A k \in Job : \/ job'[k] = rows[k]
                      \/ k \in PendingIn(rows) /\ job'[k].lane = rows[k].lane
  BY <1>5, <1>6, <1>7
<1> QED
  BY <1>3, <1>4, <1>9, <1>12, <1>15, <1>16, <1>17
-----------------------------------------------------------------------------
(* Gates.                                                                    *)

(* A dispatch of a gate keeps its slots and its queue in order, and leaves   *)
(* nobody waiting for a free slot.                                           *)
LEMMA GrantedFits ==
  ASSUME job \in JobRows, NEW rows, IsFiniteSet(Live(rows)), NEW l, NEW g \in Gate,
         ToSet(g.pending) \subseteq Live(job), GateCounts(rows, l, g),
         NEW limit \in Nat \ {0}
  PROVE  LET h == Granted(g, limit) IN
         /\ h \in Gate /\ GateFits(rows, l, h)
         /\ h.pending # <<>> => h.active >= limit
<1> DEFINE h == Granted(g, limit)
           P == ToSet(g.pending)
           Q == ToSet(h.pending)
           A == Asking(rows, l)
<1>1. IsInjective(g.pending) /\ P \subseteq {j \in A : rows[j].at = "waiting"}
      /\ g.active = Cardinality(A \ P)
  BY DEF GateCounts
<1>2. h \in GrantStates(g) /\ (h.pending = <<>> \/ h.active >= limit)
  BY <1>1, GrantedAll
<1> HIDE DEF h
<1>3. /\ h \in Gate /\ IsInjective(h.pending) /\ Q \subseteq P
      /\ h.active = g.active + Cardinality(P \ Q)
  BY <1>2 DEF GrantStates
<1>4. IsFiniteSet(A)
  BY FS_Subset DEF Asking
<1> HIDE DEF P, Q, A
<1>5. P \subseteq A /\ Q \subseteq A
  BY <1>1, <1>3
<1>6. IsFiniteSet(A \ P) /\ IsFiniteSet(P \ Q)
  BY <1>4, <1>5, FS_Subset
<1>7. A \ Q = (A \ P) \cup (P \ Q) /\ (A \ P) \cap (P \ Q) = {}
  BY <1>3, <1>5
<1>8. Cardinality(A \ Q) = Cardinality(A \ P) + Cardinality(P \ Q)
  <2> DEFINE U == A \ P
             V == P \ Q
  <2>1. IsFiniteSet(U) /\ IsFiniteSet(V) /\ U \cap V = {}
    BY <1>6, <1>7
  <2> HIDE DEF U, V
  <2>2. Cardinality(U \cup V) = Cardinality(U) + Cardinality(V) - Cardinality(U \cap V)
    BY <2>1, FS_Union
  <2>3. Cardinality(U \cap V) = 0 /\ Cardinality(U) \in Nat /\ Cardinality(V) \in Nat
    BY <2>1, FS_EmptySet, FS_CardinalityType
  <2>4. Cardinality(U \cup V) = Cardinality(U) + Cardinality(V)
    BY <2>2, <2>3
  <2> QED
    BY <1>7, <2>4 DEF U, V
<1>9. GateCounts(rows, l, h)
  BY <1>1, <1>3, <1>8 DEF GateCounts, P, Q, A
<1>10. h.pending # <<>> => h.active >= 1
  <2>1. h.active \in Nat
    BY <1>3 DEF Gate
  <2> QED
    BY <1>2, <2>1
<1> QED
  BY <1>2, <1>3, <1>9, <1>10 DEF h, GateFits

(* What happens to others does not disturb a gate.                           *)
LEMMA GateUndisturbed ==
  ASSUME NEW rows, NEW more, NEW l, NEW g, GateFits(rows, l, g),
         Asking(more, l) = Asking(rows, l),
         \A k \in ToSet(g.pending) : more[k].at = rows[k].at
  PROVE  GateFits(more, l, g)
  BY DEF GateFits, GateCounts

(* A dispatch of the runtime disturbs no gate: it starts pending requests,   *)
(* which have none.                                                          *)
LEMMA DispatchGates ==
  ASSUME NEW rows, FineRows(rows), NEW wait, Queued(rows, wait),
         last \in User \cup {NoUser}, Dispatch(rows, wait),
         NEW l, NEW g, GateFits(rows, l, g)
  PROVE  GateFits(job', l, g)
<1>1. /\ Live(job') = Live(rows)
      /\ \A k \in Job : \/ job'[k] = rows[k]
                        \/ k \in PendingIn(rows) /\ job'[k].lane = rows[k].lane
  BY DispatchKeeps
<1>2. \A k \in Live(rows) : job'[k].lane = rows[k].lane /\ k \in Job
  BY <1>1 DEF Live
<1>3. Asking(job', l) = Asking(rows, l)
  BY <1>1, <1>2 DEF Asking
<1>4. \A k \in ToSet(g.pending) : job'[k].at = rows[k].at
  <2>1. \A k \in ToSet(g.pending) : k \in Live(rows) /\ rows[k].at = "waiting"
    BY DEF GateFits, GateCounts, Asking
  <2>2. \A k \in ToSet(g.pending) : k \in Job /\ k \notin PendingIn(rows)
    BY <1>2, <2>1 DEF PendingIn
  <2> QED
    BY <1>1, <2>2
<1> QED
  BY <1>3, <1>4, GateUndisturbed

-----------------------------------------------------------------------------
(* The invariant holds at the start.                                         *)

(* Nobody is in the system.                                                  *)
LEMMA NobodyIn ==
  ASSUME NEW rows, rows = [j \in Job |-> NoJob]
  PROVE  /\ FineRows(rows) /\ Queued(rows, <<>>)
         /\ Live(rows) = {} /\ Running(rows) = {} /\ PendingIn(rows) = {}
<1>1. Live(rows) = {} /\ Running(rows) = {} /\ PendingIn(rows) = {}
  BY DEF Live, Running, PendingIn, Outside
<1>2. rows \in JobRows
  BY DEF JobRows
<1>3. IsFiniteSet(Live(rows))
  BY <1>1, FS_EmptySet
<1>4. Fitting(rows)
  BY <1>1 DEF Fitting
<1>5. Queued(rows, <<>>)
  BY <1>1 DEF Queued, IsInjective, ToSet
<1> QED
  BY <1>1, <1>2, <1>3, <1>4, <1>5 DEF FineRows, LanesFit, Apart

(* The invariant holds before the first request.                             *)
LEMMA AdmissionStarts == Init => AdmissionInv
<1> SUFFICES ASSUME Init PROVE AdmissionInv
  OBVIOUS
<1> USE DEF Init
<1>1. FineRows(job) /\ Queued(job, pending) /\ Live(job) = {} /\ PendingIn(job) = {}
  <2>1. job = [j \in Job |-> NoJob] /\ pending = <<>>
    OBVIOUS
  <2> QED
    BY <2>1, NobodyIn
<1>2. ASSUME NEW l \in Lane
      PROVE gate[l] \in Gate /\ GateFits(job, l, gate[l]) /\ gate[l].pending = <<>>
  <2>1. gate[l] = [active |-> 0, pending |-> <<>>, last |-> NoUser]
    OBVIOUS
  <2>2. gate[l].active = 0 /\ gate[l].pending = <<>> /\ gate[l].last = NoUser
    BY <2>1
  <2>3. ToSet(<<>>) = {} /\ IsInjective(<<>>)
    BY DEF ToSet, IsInjective
  <2>4. Asking(job, l) = {}
    BY <1>1 DEF Asking
  <2>5. Cardinality(Asking(job, l) \ ToSet(gate[l].pending)) = 0
    BY <2>4, FS_EmptySet
  <2>6. GateFits(job, l, gate[l])
    BY <2>2, <2>3, <2>5 DEF GateFits, GateCounts
  <2> QED
    BY <2>1, <2>2, <2>6 DEF Gate
<1>3. TypeOK
  <2>1. job \in [Job -> JobType \cup Ended \cup {NoJob}]
    BY <1>1 DEF FineRows, JobRows
  <2>2. gate \in [Lane -> Gate]
    BY <1>2
  <2> QED
    BY <2>1, <2>2, BoundsAssumption DEF TypeOK
<1>4. Woken
  BY <1>1, <1>2 DEF Woken, Stuck
<1> QED
  BY <1>1, <1>2, <1>3, <1>4 DEF AdmissionInv
-----------------------------------------------------------------------------
(* Each step keeps the invariant.                                            *)

(* What the invariant says of the parts a step reads.                        *)
LEMMA InvParts ==
  ASSUME AdmissionInv
  PROVE  /\ settings \in Setting /\ changes \in 0 .. MaxChange
         /\ notices \subseteq Lane \cup {Runtime}
         /\ job \in JobRows /\ last \in User \cup {NoUser}
         /\ pending \in Seq(Job) /\ cancelled \subseteq Live(job)
         /\ gate \in [Lane -> Gate]
         /\ \A l \in Lane : /\ gate[l] \in Gate /\ settings.limit[l] \in Nat \ {0}
                            /\ GateFits(job, l, gate[l])
         /\ settings.queue \in 1 .. MaxQueue
         /\ FineRows(job) /\ Queued(job, pending)
<1>1. TypeOK /\ FineRows(job) /\ Queued(job, pending)
      /\ \A l \in Lane : GateFits(job, l, gate[l])
  BY DEF AdmissionInv
<1>2. settings.queue \in 1 .. MaxQueue /\ settings.limit \in [Lane -> 1 .. MaxLimit]
  BY <1>1 DEF TypeOK, Setting
<1>3. \A l \in Lane : settings.limit[l] \in Nat \ {0}
  BY <1>2, BoundsAssumption
<1> QED
  BY <1>1, <1>2, <1>3 DEF TypeOK, JobRows

(* The capacity depends on the limits alone.                                 *)
LEMMA CapacityKept ==
  ASSUME settings' = settings
  PROVE  Capacity' = Capacity
  BY DEF Capacity

(* Submit.                                                                   *)
LEMMA SubmitKeeps ==
  ASSUME AdmissionInv, NEW j \in Job, NEW u \in User, NEW d \in Dialogue, Submit(j, u, d)
  PROVE  AdmissionInv'
<1> DEFINE r == [user |-> u, dialogue |-> d, queue |-> settings.queue,
                 at |-> "pending", lane |-> NoLane]
           rows == [job EXCEPT ![j] = r]
           wait == Append(pending, j)
<1>1. /\ settings \in Setting /\ changes \in 0 .. MaxChange
      /\ notices \subseteq Lane \cup {Runtime}
      /\ job \in JobRows /\ last \in User \cup {NoUser}
      /\ cancelled \subseteq Live(job)
      /\ gate \in [Lane -> Gate]
      /\ \A l \in Lane : GateFits(job, l, gate[l])
      /\ settings.queue \in 1 .. MaxQueue
      /\ FineRows(job) /\ Queued(job, pending)
  BY InvParts
<1>2. /\ job[j] = NoJob /\ Room(u, d) /\ Dispatch(rows, wait)
      /\ settings' = settings /\ changes' = changes /\ notices' = notices
      /\ gate' = gate /\ cancelled' = cancelled
  BY DEF Submit
<1>3. /\ r \in JobType /\ r \notin Outside /\ r.queue = settings.queue
      /\ r.at = "pending" /\ r.lane = NoLane
  <2>1. r \in JobType
    BY <1>1 DEF JobType
  <2> QED
    BY <2>1, JobAssumption
<1> HIDE DEF r
<1>4. /\ rows \in JobRows /\ rows[j] = r
      /\ \A k \in Job \ {j} : rows[k] = job[k]
  BY <1>1, <1>3 DEF JobRows
<1>5. j \notin Live(job)
  BY <1>2 DEF Live, Outside
<1> HIDE DEF rows
<1>6. /\ Live(rows) = Live(job) \cup {j} /\ Running(rows) = Running(job)
      /\ PendingIn(rows) = PendingIn(job) \cup {j}
  <2>1. Live(rows) = Live(job) \cup {j}
    BY <1>3, <1>4 DEF Live
  <2>2. Running(rows) = Running(job)
    BY <1>2, <1>3, <1>4 DEF Running, InProgress, Outside
  <2>3. PendingIn(rows) = PendingIn(job) \cup {j}
    BY <1>3, <1>4 DEF PendingIn
  <2> QED
    BY <2>1, <2>2, <2>3
<1>7. FineRows(rows)
  <2>1. IsFiniteSet(Live(job)) /\ LanesFit(job) /\ Apart(job, Running(job)) /\ Fitting(job)
    BY <1>1 DEF FineRows
  <2>2. IsFiniteSet(Live(rows))
    BY <1>6, <2>1, FS_AddElement
  <2>3. LanesFit(rows)
    <3>1. \A k \in Live(job) : rows[k] = job[k]
      BY <1>4, <1>5 DEF Live
    <3> QED
      BY <1>3, <1>4, <1>6, <2>1, <3>1, NobodyAssumption DEF LanesFit
  <2>4. Apart(rows, Running(rows))
    <3>1. \A k \in Running(job) : rows[k] = job[k]
      BY <1>4, <1>5 DEF Live, Running
    <3> QED
      BY <1>6, <2>1, <3>1 DEF Apart
  <2>5. Fitting(rows)
    <3>1. Cardinality(Live(job)) + 1 <= settings.queue + 1
      <4>1. Cardinality(Running(job)) + Len(pending) < settings.queue + 1
        BY <1>2 DEF Room
      <4>2. IsFiniteSet(PendingIn(job)) /\ Cardinality(PendingIn(job)) = Len(pending)
        BY <1>1, QueueLength DEF Queued
      <4>3. IsFiniteSet(Running(job))
        BY <2>1, FS_Subset DEF Running, Live
      <4>4. /\ Live(job) = Running(job) \cup PendingIn(job)
            /\ Running(job) \cap PendingIn(job) = {}
        BY <1>1, LiveSplit
      <4>5. /\ Cardinality(Live(job)) = Cardinality(Running(job))
                 + Cardinality(PendingIn(job)) - Cardinality(Running(job) \cap PendingIn(job))
            /\ Cardinality(Running(job) \cap PendingIn(job)) = 0
        BY <4>2, <4>3, <4>4, FS_Union, FS_EmptySet
      <4>6. Cardinality(Running(job)) \in Nat /\ Cardinality(PendingIn(job)) \in Nat
        BY <4>2, <4>3, FS_CardinalityType
      <4>7. settings.queue \in Nat
        BY <1>1, BoundsAssumption
      <4> QED
        BY <4>1, <4>2, <4>5, <4>6, <4>7
    <3>2. ASSUME NEW S \in SUBSET Live(rows), S # {}
          PROVE  \E m \in S : Cardinality(S) <= rows[m].queue + 1
      <4>1. CASE j \in S
        <5>1. Cardinality(S) <= Cardinality(Live(rows)) /\ IsFiniteSet(S)
          BY <2>2, FS_Subset
        <5>2. Cardinality(Live(rows)) = Cardinality(Live(job)) + 1
          BY <1>5, <1>6, <2>1, FS_AddElement
        <5>3. Cardinality(S) \in Nat /\ Cardinality(Live(job)) \in Nat
              /\ settings.queue \in Nat
          BY <1>1, <2>1, <5>1, FS_CardinalityType, BoundsAssumption
        <5>4. Cardinality(S) <= settings.queue + 1
          BY <3>1, <5>1, <5>2, <5>3
        <5> QED
          BY <1>3, <1>4, <4>1, <5>4
      <4>2. CASE j \notin S
        <5>1. S \in SUBSET Live(job)
          BY <1>6, <4>2
        <5>2. PICK m \in S : Cardinality(S) <= job[m].queue + 1
          BY <2>1, <3>2, <5>1 DEF Fitting
        <5>3. rows[m] = job[m]
          BY <1>4, <4>2, <5>1 DEF Live
        <5> QED
          BY <5>2, <5>3
      <4> QED
        BY <4>1, <4>2
    <3> QED
      BY <3>2 DEF Fitting
  <2> QED
    BY <1>4, <2>2, <2>3, <2>4, <2>5 DEF FineRows
<1>8. Queued(rows, wait)
  <2>1. j \notin ToSet(pending)
    BY <1>1, <1>5 DEF Queued, PendingIn, Live
  <2> QED
    BY <1>1, <1>6, <2>1, AppendMembers DEF Queued
<1> HIDE DEF wait
<1>9. /\ FineRows(job') /\ Queued(job', pending') /\ Live(job') = Live(rows)
      /\ last' \in User \cup {NoUser}
      /\ Cardinality(Running(job')) < Capacity => Stuck(job')
  BY <1>1, <1>2, <1>7, <1>8, DispatchKeeps
<1>10. ASSUME NEW l \in Lane PROVE GateFits(job', l, gate[l])
  <2>1. Asking(rows, l) = Asking(job, l)
    <3>1. \A k \in Live(job) : rows[k] = job[k]
      BY <1>4, <1>5 DEF Live
    <3> QED
      BY <1>3, <1>4, <1>6, <3>1, NobodyAssumption DEF Asking
  <2>2. \A k \in ToSet(gate[l].pending) : rows[k].at = job[k].at
    <3>1. \A k \in ToSet(gate[l].pending) : k \in Live(job)
      BY <1>1 DEF GateFits, GateCounts, Asking
    <3> QED
      BY <1>4, <1>5, <3>1 DEF Live
  <2>3. GateFits(rows, l, gate[l])
    BY <1>1, <2>1, <2>2, GateUndisturbed
  <2> QED
    BY <1>1, <1>2, <1>7, <1>8, <2>3, DispatchGates
<1>11. TypeOK'
  <2>1. cancelled \subseteq Live(job')
    BY <1>1, <1>6, <1>9
  <2>2. job' \in [Job -> JobType \cup Ended \cup {NoJob}] /\ pending' \in Seq(Job)
    BY <1>9 DEF FineRows, JobRows, Queued
  <2> QED
    BY <1>1, <1>2, <1>9, <2>1, <2>2 DEF TypeOK
<1>12. Woken'
  <2>1. Capacity' = Capacity
    BY <1>2, CapacityKept
  <2>2. Woken
    BY DEF AdmissionInv
  <2> QED
    BY <1>2, <1>9, <2>1, <2>2 DEF Woken
<1> QED
  BY <1>2, <1>9, <1>10, <1>11, <1>12 DEF AdmissionInv

(* A request that ends outside of any gate leaves the others as they are.    *)
LEMMA EndKeeps ==
  ASSUME FineRows(job), NEW j \in Live(job), job[j].at \notin {"waiting", "holding"},
         NEW how \in Ended, NEW rows, rows = [job EXCEPT ![j] = how]
  PROVE  /\ FineRows(rows) /\ Live(rows) = Live(job) \ {j}
         /\ Running(rows) = Running(job) \ {j} /\ PendingIn(rows) = PendingIn(job) \ {j}
         /\ \A k \in Live(rows) : rows[k] = job[k]
         /\ \A l \in Lane : \A g : GateFits(job, l, g) => GateFits(rows, l, g)
<1>1. job \in JobRows /\ IsFiniteSet(Live(job)) /\ LanesFit(job)
      /\ Apart(job, Running(job)) /\ Fitting(job) /\ j \in Job
  BY DEF FineRows, Live
<1>2. rows[j] = how /\ how \in Outside /\ \A k \in Job \ {j} : rows[k] = job[k]
  BY <1>1 DEF JobRows, Outside
<1>3. rows \in JobRows
  BY <1>1 DEF JobRows
<1>4. /\ Live(rows) = Live(job) \ {j} /\ Running(rows) = Running(job) \ {j}
      /\ PendingIn(rows) = PendingIn(job) \ {j}
  BY <1>2 DEF Live, Running, PendingIn
<1>5. \A k \in Live(rows) : rows[k] = job[k]
  BY <1>2, <1>4 DEF Live
<1>6. FineRows(rows)
  <2>1. IsFiniteSet(Live(rows))
    BY <1>1, <1>4, FS_Subset
  <2>2. LanesFit(rows)
    BY <1>1, <1>4, <1>5 DEF LanesFit
  <2>3. Apart(rows, Running(rows))
    <3>1. \A k \in Running(rows) : rows[k] = job[k] /\ k \in Running(job)
      BY <1>4, <1>5 DEF Running, Live
    <3> QED
      BY <1>1, <3>1 DEF Apart
  <2>4. Fitting(rows)
    BY <1>1, <1>4, <1>5, FittingKept
  <2> QED
    BY <1>3, <2>1, <2>2, <2>3, <2>4 DEF FineRows
<1>7. ASSUME NEW l \in Lane, NEW g, GateFits(job, l, g) PROVE GateFits(rows, l, g)
  <2>1. job[j].lane \notin Lane
    BY <1>1 DEF LanesFit
  <2>2. Asking(rows, l) = Asking(job, l)
    BY <1>4, <1>5, <2>1 DEF Asking
  <2>3. ToSet(g.pending) \subseteq Asking(job, l)
    BY <1>7 DEF GateFits, GateCounts
  <2>4. \A k \in ToSet(g.pending) : rows[k].at = job[k].at
    BY <1>5, <2>2, <2>3 DEF Asking
  <2> QED
    BY <1>7, <2>2, <2>4, GateUndisturbed
<1> QED
  BY <1>4, <1>5, <1>6, <1>7

(* Abandon.                                                                  *)
LEMMA AbandonKeeps ==
  ASSUME AdmissionInv, NEW j \in Job, Abandon(j)
  PROVE  AdmissionInv'
<1>1. /\ settings \in Setting /\ changes \in 0 .. MaxChange
      /\ notices \subseteq Lane \cup {Runtime}
      /\ last \in User \cup {NoUser}
      /\ cancelled \subseteq Live(job)
      /\ gate \in [Lane -> Gate]
      /\ \A l \in Lane : GateFits(job, l, gate[l])
      /\ FineRows(job) /\ Queued(job, pending)
  BY InvParts
<1>2. /\ j \in Live(job) /\ job[j].at = "pending"
      /\ pending' = RemoveFirst(pending, j)
      /\ job' = [job EXCEPT ![j] = Cancelled]
      /\ cancelled' = cancelled \ {j}
      /\ settings' = settings /\ changes' = changes /\ notices' = notices
      /\ last' = last /\ gate' = gate
  BY DEF Abandon, Is, Live, Ends
<1>3. /\ FineRows(job') /\ Live(job') = Live(job) \ {j}
      /\ Running(job') = Running(job) \ {j} /\ PendingIn(job') = PendingIn(job) \ {j}
      /\ \A k \in Live(job') : job'[k] = job[k]
      /\ \A l \in Lane : GateFits(job', l, gate[l])
  <2>1. Cancelled \in Ended
    BY DEF Ended
  <2>2. /\ FineRows(job') /\ Live(job') = Live(job) \ {j}
        /\ Running(job') = Running(job) \ {j} /\ PendingIn(job') = PendingIn(job) \ {j}
        /\ \A k \in Live(job') : job'[k] = job[k]
        /\ \A l \in Lane : \A g : GateFits(job, l, g) => GateFits(job', l, g)
    BY <1>1, <1>2, <2>1, EndKeeps
  <2> QED
    BY <1>1, <2>2
<1>4. Queued(job', pending')
  <2>1. j \in ToSet(pending)
    BY <1>1, <1>2 DEF Queued, PendingIn, Live
  <2>2. pending \in Seq(Job) /\ IsInjective(pending) /\ ToSet(pending) = PendingIn(job)
    BY <1>1 DEF Queued
  <2>3. /\ RemoveFirst(pending, j) \in Seq(Job) /\ IsInjective(RemoveFirst(pending, j))
        /\ ToSet(RemoveFirst(pending, j)) = ToSet(pending) \ {j}
    BY <2>1, <2>2, RemoveFirstMembers
  <2> QED
    BY <1>2, <1>3, <2>2, <2>3 DEF Queued
<1>5. TypeOK'
  <2>1. cancelled' \subseteq Live(job')
    BY <1>1, <1>2, <1>3
  <2>2. job' \in [Job -> JobType \cup Ended \cup {NoJob}] /\ pending' \in Seq(Job)
    BY <1>3, <1>4 DEF FineRows, JobRows, Queued
  <2> QED
    BY <1>1, <1>2, <2>1, <2>2 DEF TypeOK
<1>6. Running(job') = Running(job)
  BY <1>2, <1>3 DEF Running, InProgress
<1>7. Stuck(job) => Stuck(job')
  <2>1. \A k \in Running(job') : k \in Live(job')
    BY DEF Running, Live
  <2>2. \A k \in PendingIn(job') : k \in Live(job')
    BY DEF PendingIn, Live
  <2> QED
    BY <1>3, <1>6, <2>1, <2>2 DEF Stuck
<1>8. Woken'
  <2>1. Capacity' = Capacity
    BY <1>2, CapacityKept
  <2>2. Woken
    BY DEF AdmissionInv
  <2> QED
    BY <1>2, <1>6, <1>7, <2>1, <2>2 DEF Woken
<1> QED
  BY <1>2, <1>3, <1>4, <1>5, <1>8 DEF AdmissionInv

(* Finish.                                                                   *)
LEMMA FinishKeeps ==
  ASSUME AdmissionInv, NEW j \in Job, NEW ok \in BOOLEAN, Finish(j, ok)
  PROVE  AdmissionInv'
<1> DEFINE rows == [job EXCEPT ![j] = Outcome(j, ok)]
<1>1. /\ settings \in Setting /\ changes \in 0 .. MaxChange
      /\ notices \subseteq Lane \cup {Runtime}
      /\ last \in User \cup {NoUser}
      /\ cancelled \subseteq Live(job)
      /\ gate \in [Lane -> Gate]
      /\ \A l \in Lane : GateFits(job, l, gate[l])
      /\ FineRows(job) /\ Queued(job, pending)
  BY InvParts
<1>2. /\ j \in Live(job) /\ job[j].at = "working"
      /\ Dispatch(rows, pending)
      /\ cancelled' = cancelled \ {j}
      /\ settings' = settings /\ changes' = changes /\ notices' = notices
      /\ gate' = gate
  BY DEF Finish, Is, Live, Ends
<1>3. /\ FineRows(rows) /\ Live(rows) = Live(job) \ {j}
      /\ PendingIn(rows) = PendingIn(job) \ {j}
      /\ \A l \in Lane : GateFits(rows, l, gate[l])
  <2>1. Outcome(j, ok) \in Ended
    BY DEF Outcome, Ended
  <2>2. /\ FineRows(rows) /\ Live(rows) = Live(job) \ {j}
        /\ PendingIn(rows) = PendingIn(job) \ {j}
        /\ \A l \in Lane : \A g : GateFits(job, l, g) => GateFits(rows, l, g)
    BY <1>1, <1>2, <2>1, EndKeeps
  <2> QED
    BY <1>1, <2>2
<1> HIDE DEF rows
<1>4. Queued(rows, pending)
  BY <1>1, <1>2, <1>3 DEF Queued, PendingIn
<1>5. /\ FineRows(job') /\ Queued(job', pending') /\ Live(job') = Live(rows)
      /\ last' \in User \cup {NoUser}
      /\ Cardinality(Running(job')) < Capacity => Stuck(job')
  BY <1>1, <1>2, <1>3, <1>4, DispatchKeeps
<1>6. \A l \in Lane : GateFits(job', l, gate[l])
  BY <1>1, <1>2, <1>3, <1>4, DispatchGates
<1>7. TypeOK'
  <2>1. cancelled' \subseteq Live(job')
    BY <1>1, <1>2, <1>3, <1>5
  <2>2. job' \in [Job -> JobType \cup Ended \cup {NoJob}] /\ pending' \in Seq(Job)
    BY <1>5 DEF FineRows, JobRows, Queued
  <2> QED
    BY <1>1, <1>2, <1>5, <2>1, <2>2 DEF TypeOK
<1>8. Woken'
  <2>1. Capacity' = Capacity
    BY <1>2, CapacityKept
  <2>2. Woken
    BY DEF AdmissionInv
  <2> QED
    BY <1>2, <1>5, <2>1, <2>2 DEF Woken
<1> QED
  BY <1>2, <1>5, <1>6, <1>7, <1>8 DEF AdmissionInv

(* A running request j makes a step at gate l, which becomes g: enough to    *)
(* know of g is that it fits the requests as they are then and leaves nobody *)
(* waiting for a free slot.                                                  *)
LEMMA GateStepKeeps ==
  ASSUME AdmissionInv, NEW j \in Running(job), NEW where \in InProgress,
         NEW m \in Lane \cup {NoLane}, m \in Lane <=> where \in {"waiting", "holding"},
         NEW l \in Lane, NEW g \in Gate,
         m \in {l, NoLane}, job[j].lane \in {l, NoLane},
         Moves(j, where, m), GateStep(l, g), GateFits(job', l, g),
         l \notin notices /\ g.pending # <<>> => g.active >= settings.limit[l]
  PROVE  AdmissionInv'
<1>1. /\ settings \in Setting /\ changes \in 0 .. MaxChange
      /\ notices \subseteq Lane \cup {Runtime}
      /\ last \in User \cup {NoUser}
      /\ cancelled \subseteq Live(job)
      /\ gate \in [Lane -> Gate]
      /\ \A k \in Lane : GateFits(job, k, gate[k])
      /\ FineRows(job) /\ Queued(job, pending)
  BY InvParts
<1>2. /\ gate' = [gate EXCEPT ![l] = g]
      /\ settings' = settings /\ changes' = changes /\ notices' = notices
      /\ pending' = pending /\ last' = last /\ cancelled' = cancelled
  BY DEF GateStep
<1>3. /\ FineRows(job') /\ Live(job') = Live(job) /\ Running(job') = Running(job)
      /\ PendingIn(job') = PendingIn(job)
      /\ \A k \in Live(job) : /\ job'[k].user = job[k].user
                              /\ job'[k].dialogue = job[k].dialogue
      /\ \A k \in Job \ {j} : job'[k] = job[k]
      /\ \A k \in Lane : Asking(job', k) = IF k = m THEN Asking(job, k) \cup {j}
                                           ELSE Asking(job, k) \ {j}
  BY <1>1, MoveKeeps
<1>4. Queued(job', pending')
  BY <1>1, <1>2, <1>3 DEF Queued
<1>5. ASSUME NEW k \in Lane PROVE GateFits(job', k, gate'[k])
  <2>1. CASE k = l
    BY <1>1, <1>2, <2>1
  <2>2. CASE k # l
    <3>1. gate'[k] = gate[k]
      BY <1>1, <1>2, <2>2
    <3>2. k # m /\ j \notin Asking(job, k)
      BY <2>2, NobodyAssumption DEF Asking
    <3>3. Asking(job', k) = Asking(job, k)
      BY <1>3, <3>2
    <3>4. ToSet(gate[k].pending) \subseteq Asking(job, k)
      BY <1>1 DEF GateFits, GateCounts
    <3>5. \A i \in ToSet(gate[k].pending) : job'[i].at = job[i].at
      BY <1>3, <3>2, <3>4 DEF Asking, Live
    <3> QED
      BY <1>1, <3>1, <3>3, <3>5, GateUndisturbed
  <2> QED
    BY <2>1, <2>2
<1>6. TypeOK'
  <2>1. job' \in [Job -> JobType \cup Ended \cup {NoJob}] /\ pending' \in Seq(Job)
    BY <1>3, <1>4 DEF FineRows, JobRows, Queued
  <2>2. gate' \in [Lane -> Gate]
    BY <1>1, <1>2
  <2> QED
    BY <1>1, <1>2, <1>3, <2>1, <2>2 DEF TypeOK
<1>7. Stuck(job) => Stuck(job')
  <2>1. Running(job) \subseteq Live(job) /\ PendingIn(job) \subseteq Live(job)
    BY DEF Running, PendingIn, Live
  <2> QED
    BY <1>3, <2>1 DEF Stuck
<1>8. Woken'
  <2>1. Capacity' = Capacity
    BY <1>2, CapacityKept
  <2>2. Woken
    BY DEF AdmissionInv
  <2>3. \A k \in Lane \ notices :
          gate'[k].pending # <<>> => gate'[k].active >= settings.limit[k]
    BY <1>1, <1>2, <2>2 DEF Woken
  <2> QED
    BY <1>2, <1>3, <1>7, <2>1, <2>2, <2>3 DEF Woken
<1> QED
  BY <1>3, <1>4, <1>5, <1>6, <1>8 DEF AdmissionInv

(* Where a running request is, and what it asks for.                         *)
LEMMA WhereIs ==
  ASSUME AdmissionInv, NEW j \in Job, NEW where \in InProgress, Is(j, where)
  PROVE  /\ j \in Running(job) /\ j \in Live(job)
         /\ job[j].lane \in Lane <=> where \in {"waiting", "holding"}
         /\ job[j].lane \in Lane \cup {NoLane}
         /\ where \in {"waiting", "holding"} => j \in Asking(job, job[j].lane)
         /\ where # "waiting" => \A l \in Lane : j \notin ToSet(gate[l].pending)
<1>1. j \in Running(job) /\ j \in Live(job) /\ job[j].at = where
  BY DEF Is, Running, Live
<1>2. job \in JobRows /\ LanesFit(job) /\ \A l \in Lane : GateFits(job, l, gate[l])
  BY InvParts DEF FineRows
<1>3. job[j].lane \in Lane \cup {NoLane}
  BY <1>1, <1>2, RowTypes
<1>4. \A l \in Lane : \A k \in ToSet(gate[l].pending) : job[k].at = "waiting"
  BY <1>2 DEF GateFits, GateCounts
<1> QED
  BY <1>1, <1>2, <1>3, <1>4 DEF LanesFit, Asking

(* A gate with another number of used slots.                                 *)
LEMMA GateWithActive ==
  ASSUME NEW g \in Gate, NEW n \in Nat
  PROVE  LET h == [g EXCEPT !.active = n] IN
         h \in Gate /\ h.active = n /\ h.pending = g.pending
  BY DEF Gate

(* A gate with another queue.                                                *)
LEMMA GateWithQueue ==
  ASSUME NEW g \in Gate, NEW q \in Seq(Job)
  PROVE  LET h == [g EXCEPT !.pending = q] IN
         h \in Gate /\ h.active = g.active /\ h.pending = q
  BY DEF Gate

(* Acquire.                                                                  *)
LEMMA AcquireKeeps ==
  ASSUME AdmissionInv, NEW j \in Job, NEW l \in Lane, Acquire(j, l)
  PROVE  AdmissionInv'
<1> DEFINE A == Asking(job, l)
           P == ToSet(gate[l].pending)
<1>1. /\ gate[l] \in Gate /\ settings.limit[l] \in Nat \ {0}
      /\ GateFits(job, l, gate[l]) /\ FineRows(job)
      /\ gate[l].active \in Nat /\ gate[l].pending \in Seq(Job)
  BY InvParts DEF Gate
<1>2. /\ j \in Running(job) /\ j \in Live(job) /\ job[j].lane = NoLane /\ j \notin P
  <2>1. Is(j, "working") /\ "working" \in InProgress /\ "working" \notin {"waiting", "holding"}
    BY DEF Acquire, InProgress
  <2> QED
    BY <2>1, WhereIs
<1>3. j \notin A /\ IsFiniteSet(A)
  <2>1. IsFiniteSet(Live(job)) /\ A \subseteq Live(job)
    BY <1>1 DEF FineRows, Asking
  <2> QED
    BY <1>2, <2>1, NobodyAssumption, FS_Subset DEF Asking
<1>4. /\ IsInjective(gate[l].pending) /\ P \subseteq {k \in A : job[k].at = "waiting"}
      /\ gate[l].active = Cardinality(A \ P)
      /\ gate[l].pending # <<>> => gate[l].active >= 1
  BY <1>1 DEF GateFits, GateCounts
<1>5. l \notin notices /\ gate[l].pending # <<>> => gate[l].active >= settings.limit[l]
  BY DEF AdmissionInv, Woken
<1>6. CASE Free(l) /\ Moves(j, "holding", l)
           /\ GateStep(l, [gate[l] EXCEPT !.active = @ + 1])
  <2> DEFINE g == [gate[l] EXCEPT !.active = gate[l].active + 1]
  <2>1. "holding" \in InProgress /\ "holding" \in {"waiting", "holding"}
    BY DEF InProgress
  <2>2. /\ Asking(job', l) = A \cup {j} /\ \A k \in Job \ {j} : job'[k] = job[k]
    BY <1>1, <1>2, <1>6, <2>1, MoveKeeps
  <2>3. gate[l].pending = <<>>
    BY <1>6 DEF Free
  <2>7. gate[l].active + 1 \in Nat
    BY <1>1
  <2>4. g \in Gate /\ g.active = gate[l].active + 1 /\ g.pending = <<>>
    BY <1>1, <2>3, <2>7, GateWithActive
  <2>5. GateStep(l, g)
    BY <1>6
  <2> HIDE DEF g, A
  <2>6. GateFits(job', l, g)
    <3>1. P = {} /\ IsInjective(<<>>) /\ ToSet(<<>>) = {}
      BY <2>3 DEF ToSet, IsInjective
    <3>2. Cardinality(A \cup {j}) = Cardinality(A) + 1 /\ A \ P = A
      BY <1>3, <3>1, FS_AddElement
    <3>3. g.active = Cardinality(Asking(job', l) \ ToSet(g.pending))
      BY <1>4, <2>2, <2>4, <3>1, <3>2
    <3> QED
      BY <2>4, <3>1, <3>3 DEF GateFits, GateCounts
  <2> QED
    BY <1>2, <1>6, <2>1, <2>4, <2>5, <2>6, GateStepKeeps
<1>7. CASE ~Free(l) /\ Moves(j, "waiting", l)
           /\ GateStep(l, [gate[l] EXCEPT !.pending = Append(@, j)])
  <2> DEFINE q == Append(gate[l].pending, j)
             g == [gate[l] EXCEPT !.pending = q]
  <2>1. "waiting" \in InProgress /\ "waiting" \in {"waiting", "holding"}
    BY DEF InProgress
  <2>2. /\ Asking(job', l) = A \cup {j} /\ job'[j].at = "waiting"
        /\ \A k \in Job \ {j} : job'[k] = job[k]
    BY <1>1, <1>2, <1>7, <2>1, MoveKeeps
  <2>3. q \in Seq(Job) /\ IsInjective(q) /\ ToSet(q) = P \cup {j}
    BY <1>1, <1>2, <1>4, AppendMembers
  <2>5. GateStep(l, g)
    BY <1>7
  <2> HIDE DEF q
  <2>4. g \in Gate /\ g.active = gate[l].active /\ g.pending = q
    BY <1>1, <2>3, GateWithQueue
  <2>6. gate[l].pending # <<>> \/ gate[l].active >= settings.limit[l]
    BY <1>1, <1>7 DEF Free
  <2>7. g.active >= 1 /\ (l \notin notices => g.active >= settings.limit[l])
    BY <1>1, <1>4, <1>5, <2>4, <2>6
  <2> HIDE DEF g, A, P
  <2>8. GateFits(job', l, g)
    <3>1. (A \cup {j}) \ (P \cup {j}) = A \ P
      BY <1>3
    <3>2. P \subseteq Job \ {j}
      BY <1>2, <1>4 DEF A, Asking, Live
    <3>3. P \cup {j} \subseteq {k \in A \cup {j} : job'[k].at = "waiting"}
      BY <1>4, <2>2, <3>2
    <3> QED
      BY <1>4, <2>2, <2>3, <2>4, <2>7, <3>1, <3>3 DEF GateFits, GateCounts
  <2> QED
    BY <1>2, <1>7, <2>1, <2>4, <2>5, <2>7, <2>8, GateStepKeeps
<1> QED
  BY <1>6, <1>7 DEF Acquire

(* Proceed.                                                                  *)
LEMMA ProceedKeeps ==
  ASSUME AdmissionInv, NEW j \in Job, Proceed(j)
  PROVE  AdmissionInv'
<1> DEFINE l == job[j].lane
<1>1. /\ Is(j, "waiting") /\ j \notin ToSet(gate[l].pending)
      /\ Moves(j, "holding", l) /\ GateStep(l, gate[l])
  BY DEF Proceed, Waits
<1>2. "waiting" \in InProgress /\ "holding" \in InProgress
  BY DEF InProgress
<1>3. /\ j \in Running(job) /\ j \in Live(job) /\ l \in Lane /\ j \in Asking(job, l)
  BY <1>1, <1>2, WhereIs
<1> HIDE DEF l
<1>4. /\ gate[l] \in Gate /\ GateFits(job, l, gate[l]) /\ FineRows(job)
  BY <1>3, InvParts
<1>5. /\ Asking(job', l) = Asking(job, l) \cup {j}
      /\ \A k \in Job \ {j} : job'[k] = job[k]
  BY <1>1, <1>2, <1>3, <1>4, MoveKeeps
<1>6. Asking(job', l) = Asking(job, l)
  BY <1>3, <1>5
<1>7. \A k \in ToSet(gate[l].pending) : job'[k].at = job[k].at
  BY <1>1, <1>4, <1>5 DEF GateFits, GateCounts, Asking, Live
<1>8. GateFits(job', l, gate[l])
  BY <1>4, <1>6, <1>7, GateUndisturbed
<1>9. l \notin notices /\ gate[l].pending # <<>> => gate[l].active >= settings.limit[l]
  BY <1>3 DEF AdmissionInv, Woken
<1> QED
  BY <1>1, <1>2, <1>3, <1>4, <1>8, <1>9, GateStepKeeps DEF l

(* A request that has a slot gives it back: who is next gets it.             *)
LEMMA FreedKeeps ==
  ASSUME AdmissionInv, NEW j \in Running(job), NEW l \in Lane, job[j].lane = l,
         j \notin ToSet(gate[l].pending),
         Moves(j, "working", NoLane), GateStep(l, Freed(l))
  PROVE  AdmissionInv'
<1> DEFINE A == Asking(job, l)
           P == ToSet(gate[l].pending)
           g == [gate[l] EXCEPT !.active = gate[l].active - 1]
<1>1. /\ gate[l] \in Gate /\ settings.limit[l] \in Nat \ {0}
      /\ GateFits(job, l, gate[l]) /\ FineRows(job) /\ job \in JobRows
      /\ gate[l].active \in Nat /\ gate[l].pending \in Seq(Job)
  BY InvParts DEF Gate
<1>2. "working" \in InProgress /\ "working" \notin {"waiting", "holding"} /\ NoLane \notin Lane
  BY NobodyAssumption DEF InProgress
<1>3. /\ FineRows(job') /\ Live(job') = Live(job)
      /\ Asking(job', l) = A \ {j} /\ \A k \in Job \ {j} : job'[k] = job[k]
  BY <1>1, <1>2, MoveKeeps
<1>4. j \in A /\ IsFiniteSet(A) /\ P \subseteq Live(job)
  <2>1. IsFiniteSet(Live(job)) /\ A \subseteq Live(job) /\ j \in Live(job)
    BY <1>1 DEF FineRows, Asking, Live, Running
  <2> QED
    BY <1>1, <2>1, FS_Subset DEF Asking, GateFits, GateCounts
<1>5. /\ IsInjective(gate[l].pending) /\ P \subseteq {k \in A : job[k].at = "waiting"}
      /\ gate[l].active = Cardinality(A \ P)
  BY <1>1 DEF GateFits, GateCounts
<1>6. gate[l].active - 1 \in Nat /\ gate[l].active - 1 = Cardinality((A \ {j}) \ P)
  <2> DEFINE U == A \ P
  <2>1. IsFiniteSet(U) /\ j \in U /\ U \ {j} = (A \ {j}) \ P
    BY <1>4, FS_Subset
  <2>2. gate[l].active = Cardinality(U)
    BY <1>5
  <2> HIDE DEF U, A, P
  <2>3. Cardinality(U \ {j}) = Cardinality(U) - 1 /\ Cardinality(U \ {j}) \in Nat
    BY <2>1, FS_RemoveElement, FS_CardinalityType
  <2> QED
    BY <2>1, <2>2, <2>3
<1>7. g \in Gate /\ g.active = gate[l].active - 1 /\ g.pending = gate[l].pending
  BY <1>1, <1>6, GateWithActive
<1>8. Freed(l) = Granted(g, settings.limit[l])
  BY DEF Freed
<1> HIDE DEF g, A, P
<1>9. GateCounts(job', l, g)
  <2>1. P \subseteq {k \in A \ {j} : job'[k].at = "waiting"}
    BY <1>3, <1>4, <1>5 DEF P, Live
  <2> QED
    BY <1>3, <1>5, <1>6, <1>7, <2>1 DEF GateCounts, P
<1>10. /\ Freed(l) \in Gate /\ GateFits(job', l, Freed(l))
       /\ Freed(l).pending # <<>> => Freed(l).active >= settings.limit[l]
  <2>1. IsFiniteSet(Live(job')) /\ ToSet(g.pending) \subseteq Live(job)
    BY <1>3, <1>4, <1>7 DEF FineRows, P
  <2>2. LET h == Granted(g, settings.limit[l]) IN
        /\ h \in Gate /\ GateFits(job', l, h)
        /\ h.pending # <<>> => h.active >= settings.limit[l]
    BY <1>1, <1>7, <1>9, <2>1, GrantedFits
  <2> QED
    BY <1>8, <2>2
<1> QED
  BY <1>2, <1>10, GateStepKeeps

(* Release.                                                                  *)
LEMMA ReleaseKeeps ==
  ASSUME AdmissionInv, NEW j \in Job, Release(j)
  PROVE  AdmissionInv'
<1> DEFINE l == job[j].lane
<1>1. Is(j, "holding") /\ Moves(j, "working", NoLane) /\ GateStep(l, Freed(l))
  BY DEF Release
<1>2. "holding" \in InProgress /\ "holding" \in {"waiting", "holding"} /\ "holding" # "waiting"
  BY DEF InProgress
<1>3. j \in Running(job) /\ l \in Lane /\ \A k \in Lane : j \notin ToSet(gate[k].pending)
  BY <1>1, <1>2, WhereIs
<1> QED
  BY <1>1, <1>3, FreedKeeps

(* GiveUp.                                                                   *)
LEMMA GiveUpKeeps ==
  ASSUME AdmissionInv, NEW j \in Job, GiveUp(j)
  PROVE  AdmissionInv'
<1> DEFINE l == job[j].lane
           P == ToSet(gate[l].pending)
           q == RemoveFirst(gate[l].pending, j)
           g == [gate[l] EXCEPT !.pending = q]
<1>1. Is(j, "waiting") /\ Moves(j, "working", NoLane)
  BY DEF GiveUp
<1>2. "waiting" \in InProgress /\ "waiting" \in {"waiting", "holding"}
  BY DEF InProgress
<1>3. j \in Running(job) /\ j \in Live(job) /\ l \in Lane /\ j \in Asking(job, l)
  BY <1>1, <1>2, WhereIs
<1>4. CASE ~Waits(j)
  <2>1. j \notin ToSet(gate[l].pending) /\ GateStep(l, Freed(l))
    BY <1>1, <1>4 DEF GiveUp, Waits
  <2> QED
    BY <1>1, <1>3, <2>1, FreedKeeps
<1>5. CASE Waits(j)
  <2>1. j \in P /\ GateStep(l, g)
    BY <1>5 DEF GiveUp, Waits
  <2> HIDE DEF l
  <2>2. /\ gate[l] \in Gate /\ GateFits(job, l, gate[l]) /\ FineRows(job)
        /\ settings.limit[l] \in Nat \ {0}
        /\ gate[l].active \in Nat /\ gate[l].pending \in Seq(Job)
    BY <1>3, InvParts DEF Gate
  <2>3. "working" \in InProgress /\ "working" \notin {"waiting", "holding"} /\ NoLane \notin Lane
    BY NobodyAssumption DEF InProgress
  <2>4. /\ Asking(job', l) = Asking(job, l) \ {j}
        /\ \A k \in Job \ {j} : job'[k] = job[k]
    BY <1>1, <1>3, <2>2, <2>3, MoveKeeps
  <2>5. /\ IsInjective(gate[l].pending)
        /\ P \subseteq {k \in Asking(job, l) : job[k].at = "waiting"}
        /\ gate[l].active = Cardinality(Asking(job, l) \ P)
        /\ gate[l].pending # <<>> => gate[l].active >= 1
    BY <2>2 DEF GateFits, GateCounts
  <2>6. q \in Seq(Job) /\ IsInjective(q) /\ ToSet(q) = P \ {j}
    BY <2>1, <2>2, <2>5, RemoveFirstMembers
  <2>7. gate[l].pending # <<>>
    BY <2>1 DEF ToSet
  <2> HIDE DEF q
  <2>8. g \in Gate /\ g.active = gate[l].active /\ g.pending = q
    BY <2>2, <2>6, GateWithQueue
  <2> HIDE DEF g, P
  <2>9. GateFits(job', l, g)
    <3>1. (Asking(job, l) \ {j}) \ (P \ {j}) = Asking(job, l) \ P
      BY <2>1
    <3>2. P \ {j} \subseteq {k \in Asking(job, l) \ {j} : job'[k].at = "waiting"}
      BY <2>4, <2>5 DEF Asking, Live
    <3> QED
      BY <2>4, <2>5, <2>6, <2>7, <2>8, <3>1, <3>2 DEF GateFits, GateCounts
  <2>10. l \notin notices => g.active >= settings.limit[l]
    BY <1>3, <2>7, <2>8 DEF AdmissionInv, Woken
  <2> QED
    BY <1>1, <1>3, <2>1, <2>3, <2>8, <2>9, <2>10, GateStepKeeps DEF l
<1> QED
  BY <1>4, <1>5

(* Steps that leave the requests and the gates alone.                        *)
LEMMA ContextKeeps ==
  ASSUME AdmissionInv, NEW j \in Job, Expire(j)
  PROVE  AdmissionInv'
<1>1. /\ j \in Live(job) /\ cancelled' = cancelled \cup {j}
      /\ settings' = settings /\ changes' = changes /\ notices' = notices
      /\ job' = job /\ pending' = pending /\ last' = last /\ gate' = gate
  BY DEF Expire
<1>2. TypeOK'
  BY <1>1 DEF AdmissionInv, TypeOK, Live
<1>3. Woken'
  <2>1. Capacity' = Capacity
    BY <1>1, CapacityKept
  <2> QED
    BY <1>1, <2>1 DEF AdmissionInv, Woken
<1> QED
  BY <1>1, <1>2, <1>3 DEF AdmissionInv

(* Change: OnChange has all of them still to wake.                           *)
LEMMA ChangeKeeps ==
  ASSUME AdmissionInv, NEW s \in Setting, Change(s)
  PROVE  AdmissionInv'
<1>1. /\ changes < MaxChange /\ settings' = s /\ changes' = changes + 1
      /\ notices' = Lane \cup {Runtime}
      /\ job' = job /\ pending' = pending /\ last' = last /\ gate' = gate
      /\ cancelled' = cancelled
  BY DEF Change
<1>2. TypeOK'
  <2>1. changes + 1 \in 0 .. MaxChange
    BY <1>1, BoundsAssumption DEF AdmissionInv, TypeOK
  <2> QED
    BY <1>1, <2>1 DEF AdmissionInv, TypeOK, Live
<1>3. Woken'
  BY <1>1 DEF Woken
<1> QED
  BY <1>1, <1>2, <1>3 DEF AdmissionInv

(* WakeGate.                                                                 *)
LEMMA WakeGateKeeps ==
  ASSUME AdmissionInv, NEW l \in Lane, WakeGate(l)
  PROVE  AdmissionInv'
<1> DEFINE g == Granted(gate[l], settings.limit[l])
<1>1. /\ settings \in Setting /\ changes \in 0 .. MaxChange
      /\ notices \subseteq Lane \cup {Runtime}
      /\ last \in User \cup {NoUser} /\ pending \in Seq(Job)
      /\ cancelled \subseteq Live(job) /\ job \in JobRows
      /\ gate \in [Lane -> Gate]
      /\ gate[l] \in Gate /\ settings.limit[l] \in Nat \ {0}
      /\ \A k \in Lane : GateFits(job, k, gate[k])
      /\ FineRows(job) /\ Queued(job, pending)
  BY InvParts
<1>2. /\ notices' = notices \ {l} /\ gate' = [gate EXCEPT ![l] = g]
      /\ settings' = settings /\ changes' = changes /\ job' = job
      /\ pending' = pending /\ last' = last /\ cancelled' = cancelled
  BY DEF WakeGate
<1>3. /\ g \in Gate /\ GateFits(job, l, g)
      /\ g.pending # <<>> => g.active >= settings.limit[l]
  <2>1. GateCounts(job, l, gate[l]) /\ IsFiniteSet(Live(job))
        /\ ToSet(gate[l].pending) \subseteq Live(job)
    BY <1>1 DEF GateFits, FineRows, GateCounts, Asking
  <2>2. LET h == Granted(gate[l], settings.limit[l]) IN
        /\ h \in Gate /\ GateFits(job, l, h)
        /\ h.pending # <<>> => h.active >= settings.limit[l]
    BY <1>1, <2>1, GrantedFits
  <2> QED
    BY <2>2
<1> HIDE DEF g
<1>4. gate'[l] = g /\ \A k \in Lane \ {l} : gate'[k] = gate[k]
  BY <1>1, <1>2
<1>5. TypeOK'
  <2>1. job' \in [Job -> JobType \cup Ended \cup {NoJob}]
    BY <1>1, <1>2 DEF JobRows
  <2>2. gate' \in [Lane -> Gate]
    BY <1>1, <1>2, <1>3
  <2>3. cancelled' \subseteq Live(job')
    BY <1>1, <1>2
  <2> QED
    BY <1>1, <1>2, <2>1, <2>2, <2>3 DEF TypeOK
<1>6. \A k \in Lane : GateFits(job', k, gate'[k])
  BY <1>1, <1>2, <1>3, <1>4
<1>7. Woken'
  <2>1. Capacity' = Capacity
    BY <1>2, CapacityKept
  <2>2. Woken
    BY DEF AdmissionInv
  <2>3. \A k \in Lane \ notices' :
          gate'[k].pending # <<>> => gate'[k].active >= settings.limit[k]
    BY <1>2, <1>3, <1>4, <2>2 DEF Woken
  <2>4. Runtime \notin notices' => Runtime \notin notices
    BY <1>2, NobodyAssumption
  <2> QED
    BY <1>2, <2>1, <2>2, <2>3, <2>4 DEF Woken
<1> QED
  BY <1>1, <1>2, <1>5, <1>6, <1>7 DEF AdmissionInv

(* WakeRuntime.                                                              *)
LEMMA WakeRuntimeKeeps ==
  ASSUME AdmissionInv, WakeRuntime
  PROVE  AdmissionInv'
<1>1. /\ settings \in Setting /\ changes \in 0 .. MaxChange
      /\ notices \subseteq Lane \cup {Runtime}
      /\ last \in User \cup {NoUser}
      /\ cancelled \subseteq Live(job)
      /\ gate \in [Lane -> Gate]
      /\ \A l \in Lane : GateFits(job, l, gate[l])
      /\ FineRows(job) /\ Queued(job, pending)
  BY InvParts
<1>2. /\ notices' = notices \ {Runtime} /\ Dispatch(job, pending)
      /\ settings' = settings /\ changes' = changes /\ gate' = gate
      /\ cancelled' = cancelled
  BY DEF WakeRuntime
<1>3. /\ FineRows(job') /\ Queued(job', pending') /\ Live(job') = Live(job)
      /\ last' \in User \cup {NoUser}
      /\ Cardinality(Running(job')) < Capacity => Stuck(job')
  BY <1>1, <1>2, DispatchKeeps
<1>4. \A l \in Lane : GateFits(job', l, gate[l])
  BY <1>1, <1>2, DispatchGates
<1>5. TypeOK'
  <2>1. cancelled' \subseteq Live(job')
    BY <1>1, <1>2, <1>3
  <2>2. job' \in [Job -> JobType \cup Ended \cup {NoJob}] /\ pending' \in Seq(Job)
    BY <1>3 DEF FineRows, JobRows, Queued
  <2> QED
    BY <1>1, <1>2, <1>3, <2>1, <2>2 DEF TypeOK
<1>6. Woken'
  <2>1. Capacity' = Capacity
    BY <1>2, CapacityKept
  <2>2. Woken
    BY DEF AdmissionInv
  <2> QED
    BY <1>2, <1>3, <2>1, <2>2, NobodyAssumption DEF Woken
<1> QED
  BY <1>2, <1>3, <1>4, <1>5, <1>6 DEF AdmissionInv
-----------------------------------------------------------------------------
(* The theorems.                                                             *)

(* Every step keeps the invariant.                                           *)
LEMMA AdmissionStep == AdmissionInv /\ [Next]_vars => AdmissionInv'
<1> SUFFICES ASSUME AdmissionInv, [Next]_vars PROVE AdmissionInv'
  OBVIOUS
<1>1. CASE \E j \in Job, to \in Inbound : Submit(j, to[1], to[2])
  <2>1. PICK j \in Job, to \in Inbound : Submit(j, to[1], to[2])
    BY <1>1
  <2>2. to[1] \in User /\ to[2] \in Dialogue
    BY InboundAssumption
  <2> QED
    BY <2>1, <2>2, SubmitKeeps
<1>2. CASE \E j \in Job : JobStep(j) \/ Expire(j)
  <2>1. PICK j \in Job : JobStep(j) \/ Expire(j)
    BY <1>2
  <2> QED
    BY <2>1, AbandonKeeps, FinishKeeps, AcquireKeeps, ProceedKeeps, GiveUpKeeps,
       ReleaseKeeps, ContextKeeps DEF JobStep
<1>3. CASE \E s \in Setting : Change(s)
  BY <1>3, ChangeKeeps
<1>4. CASE \E l \in Lane : WakeGate(l)
  BY <1>4, WakeGateKeeps
<1>5. CASE WakeRuntime
  BY <1>5, WakeRuntimeKeeps
<1>6. CASE UNCHANGED vars
  <2>1. /\ settings' = settings /\ changes' = changes /\ notices' = notices
        /\ job' = job /\ pending' = pending /\ last' = last /\ gate' = gate
        /\ cancelled' = cancelled
    BY <1>6 DEF vars
  <2>2. TypeOK'
    BY <2>1 DEF AdmissionInv, TypeOK, Live
  <2>3. Woken'
    <3>1. Capacity' = Capacity
      BY <2>1, CapacityKept
    <3> QED
      BY <2>1, <3>1 DEF AdmissionInv, Woken
  <2> QED
    BY <2>1, <2>2, <2>3 DEF AdmissionInv
<1> QED
  BY <1>1, <1>2, <1>3, <1>4, <1>5, <1>6 DEF Next

(* Requests, queues and slots stay in order, whatever is submitted, ends,    *)
(* gives up or is changed, in whichever order.                               *)
THEOREM AdmissionInvariance == Spec => []AdmissionInv
  BY AdmissionStarts, AdmissionStep, PTL DEF Spec

(* Whoever has a slot or queues for it is a request that asks for the model. *)
LEMMA HoldersFollow == AdmissionInv => SlotsMatchHolders
<1> SUFFICES ASSUME AdmissionInv PROVE SlotsMatchHolders
  OBVIOUS
<1>1. /\ \A l \in Lane : GateFits(job, l, gate[l])
      /\ LanesFit(job) /\ Queued(job, pending)
  BY InvParts DEF FineRows
<1>2. ASSUME NEW l \in Lane
      PROVE  LET on == {j \in Live(job) : job[j].lane = l} IN
             /\ gate[l].active =
                  Cardinality({j \in on : Is(j, "holding") \/ (Is(j, "waiting") /\ ~Waits(j))})
             /\ IsInjective(gate[l].pending)
             /\ ToSet(gate[l].pending) = {j \in on : Waits(j)}
  <2> DEFINE A == Asking(job, l)
             P == ToSet(gate[l].pending)
  <2>1. /\ IsInjective(gate[l].pending)
        /\ P \subseteq {j \in A : job[j].at = "waiting"}
        /\ gate[l].active = Cardinality(A \ P)
    BY <1>1 DEF GateFits, GateCounts
  <2>2. ASSUME NEW j \in A
        PROVE  /\ Waits(j) <=> j \in P
               /\ Is(j, "holding") \/ Is(j, "waiting")
               /\ j \in P => ~Is(j, "holding")
    <3>1. j \in Live(job) /\ job[j].lane = l /\ job[j] \notin Outside
      BY DEF Asking, Live
    <3>2. job[j].at \in {"waiting", "holding"}
      BY <1>1, <3>1 DEF LanesFit
    <3>3. j \in P => job[j].at = "waiting"
      BY <2>1
    <3> QED
      BY <3>1, <3>2, <3>3 DEF Is, Waits
  <2>3. A \ P = {j \in A : Is(j, "holding") \/ (Is(j, "waiting") /\ ~Waits(j))}
    BY <2>2
  <2>4. P = {j \in A : Waits(j)}
    BY <2>1, <2>2
  <2> QED
    BY <2>1, <2>3, <2>4 DEF Asking
<1>3. ToSet(pending) = {j \in Job : Is(j, "pending")}
  BY <1>1 DEF Queued, PendingIn, Is
<1> QED
  BY <1>1, <1>2, <1>3 DEF SlotsMatchHolders, Queued

(* Nobody waits for what is free.                                            *)
LEMMA NobodyForgotten == AdmissionInv => NoWakeupLost
<1> SUFFICES ASSUME AdmissionInv PROVE NoWakeupLost
  OBVIOUS
<1>1. Woken /\ Queued(job, pending)
  BY DEF AdmissionInv
<1>2. ASSUME Runtime \notin notices, Cardinality(Running(job)) < Capacity
      PROVE  Eligible(job, [wait |-> pending, on |-> Running(job), last |-> last]) = {}
  <2>1. Stuck(job)
    BY <1>1, <1>2 DEF Woken
  <2>2. ASSUME NEW i \in DOMAIN pending
        PROVE  \E k \in Running(job) : \/ job[k].dialogue = job[pending[i]].dialogue
                                       \/ job[k].user = job[pending[i]].user
    <3>1. pending[i] \in PendingIn(job)
      BY <1>1 DEF Queued, ToSet
    <3> QED
      BY <2>1, <3>1 DEF Stuck
  <2> QED
    BY <2>2 DEF Eligible
<1> QED
  BY <1>1, <1>2 DEF NoWakeupLost, Woken

(* An admitted request finds room at a gate: it, those that queue there and  *)
(* those that have a slot are at least two more than its own limit, and one  *)
(* of them was admitted when there was room for all.                         *)
LEMMA AdmittedFindRoom == AdmissionInv => AdmittedFits
<1> SUFFICES ASSUME AdmissionInv, NEW j \in Running(job), NEW l \in Lane,
                    Is(j, "working"), Full(j, l)
             PROVE  \E k \in Running(job) : job[k].queue > job[j].queue
  BY DEF AdmittedFits
<1> DEFINE A == Asking(job, l)
           P == ToSet(gate[l].pending)
           S == A \cup {j}
<1>1. /\ job \in JobRows /\ IsFiniteSet(Live(job)) /\ LanesFit(job)
      /\ Apart(job, Running(job)) /\ Fitting(job) /\ GateFits(job, l, gate[l])
      /\ gate[l] \in Gate /\ gate[l].pending \in Seq(Job) /\ gate[l].active \in Nat
  BY InvParts DEF FineRows, Gate
<1>2. /\ IsInjective(gate[l].pending) /\ P \subseteq {k \in A : job[k].at = "waiting"}
      /\ gate[l].active = Cardinality(A \ P)
      /\ gate[l].pending # <<>> => gate[l].active >= 1
  BY <1>1 DEF GateFits, GateCounts
<1>3. /\ j \in Live(job) /\ job[j].at = "working" /\ A \subseteq Live(job)
      /\ job[j].queue \in Nat /\ job[j].queue >= 1
  <2>1. j \in Live(job) /\ job[j].at = "working"
    BY DEF Running, Live, Is
  <2> QED
    BY <1>1, <2>1, RowTypes, BoundsAssumption DEF Asking
<1>4. A \subseteq Running(job) /\ j \notin A
  <2>1. \A k \in A : job[k].at \in {"waiting", "holding"}
    BY <1>1 DEF Asking, LanesFit
  <2> QED
    BY <1>3, <2>1 DEF Asking, Running, Live, InProgress
<1>5. Len(gate[l].pending) >= job[j].queue
  <2>1. ASSUME NEW i \in DOMAIN gate[l].pending,
               job[gate[l].pending[i]].user = job[j].user
        PROVE  FALSE
    <3>1. gate[l].pending[i] \in P
      BY DEF ToSet
    <3>2. gate[l].pending[i] \in Running(job) /\ gate[l].pending[i] # j
      BY <1>2, <1>4, <3>1
    <3> QED
      BY <1>1, <2>1, <3>2 DEF Apart
  <2> QED
    BY <2>1 DEF Full
<1>6. IsFiniteSet(A) /\ IsFiniteSet(P) /\ Cardinality(P) = Len(gate[l].pending)
  BY <1>1, <1>2, <1>3, FS_Subset, QueueLength
<1>7. gate[l].active >= 1
  <2>1. gate[l].pending # <<>>
    BY <1>1, <1>3, <1>5
  <2> QED
    BY <1>2, <2>1
<1> HIDE DEF A, P
<1>8. Cardinality(A) = Cardinality(A \ P) + Cardinality(P)
  <2>1. P \subseteq A
    BY <1>2
  <2>2. A = (A \ P) \cup P /\ (A \ P) \cap P = {} /\ IsFiniteSet(A \ P)
    BY <1>6, <2>1, FS_Subset
  <2> DEFINE U == A \ P
  <2>3. IsFiniteSet(U) /\ A = U \cup P /\ U \cap P = {}
    BY <2>2
  <2> HIDE DEF U
  <2>4. Cardinality(U \cup P) = Cardinality(U) + Cardinality(P) - Cardinality(U \cap P)
    BY <1>6, <2>3, FS_Union
  <2>5. Cardinality(U \cap P) = 0 /\ Cardinality(U) \in Nat /\ Cardinality(P) \in Nat
    BY <1>6, <2>3, FS_EmptySet, FS_CardinalityType
  <2>6. Cardinality(A) = Cardinality(U) + Cardinality(P)
    BY <2>3, <2>4, <2>5
  <2> QED
    BY <2>6 DEF U
<1>9. Cardinality(S) = Cardinality(A) + 1
  BY <1>4, <1>6, FS_AddElement
<1>10. PICK m \in S : Cardinality(S) <= job[m].queue + 1
  <2>1. S \in SUBSET Live(job) /\ S # {}
    BY <1>3
  <2> HIDE DEF S
  <2> QED
    BY <1>1, <2>1 DEF Fitting
<1>11. m \in Running(job) /\ m \in Live(job) /\ job[m].queue \in Nat
  <2>1. m \in Running(job) /\ m \in Live(job)
    BY <1>3, <1>4
  <2> QED
    BY <1>1, <2>1, RowTypes
<1>12. job[m].queue > job[j].queue
  <2> HIDE DEF S
  <2>1. Len(gate[l].pending) \in Nat
    BY <1>1
  <2>2. Cardinality(A \ P) = gate[l].active
    BY <1>2 DEF A, P
  <2>3. gate[l].active \in Nat
    BY <1>1
  <2>4. Cardinality(S) = gate[l].active + Len(gate[l].pending) + 1
    BY <1>6, <1>8, <1>9, <2>1, <2>2, <2>3
  <2>5. job[j].queue \in Nat
    BY <1>3
  <2>6. gate[l].active + Len(gate[l].pending) + 1 <= job[m].queue + 1
    BY <1>10, <2>4
  <2> QED
    BY <1>5, <1>7, <1>11, <2>1, <2>3, <2>5, <2>6
<1> QED
  BY <1>11, <1>12

(* In every state the slots, the queues and the requests agree, nobody waits *)
(* for what is free, and an admitted request finds room at every gate.       *)
THEOREM HoldersCorrect == Spec => []HoldersAgree
<1>1. AdmissionInv => HoldersAgree
  BY HoldersFollow, NobodyForgotten, AdmittedFindRoom DEF HoldersAgree, AdmissionInv
<1> QED
  BY <1>1, AdmissionInvariance, PTL

(* In every state no two running requests share a user or a dialogue.        *)
THEOREM RunsExclusive == Spec => []Exclusive
<1>1. AdmissionInv => Exclusive
  BY DEF AdmissionInv, FineRows, Apart, Exclusive
<1> QED
  BY <1>1, AdmissionInvariance, PTL

(* Whoever is still at the head of a queue after others were granted a slot  *)
(* was passed over because its user was served last, and is not any more.    *)
LEMMA GrantedPasses ==
  ASSUME job \in JobRows, NEW g0 \in Gate, NEW limit \in Nat, NEW h,
         h = Granted(g0, limit),
         IsInjective(g0.pending), ToSet(g0.pending) \subseteq Live(job),
         g0.pending # <<>>,
         g0.pending[1] \notin ToSet(g0.pending) \ ToSet(h.pending),
         ToSet(g0.pending) \ ToSet(h.pending) # {}
  PROVE  /\ g0.last = job[g0.pending[1]].user
         /\ h.last # job[g0.pending[1]].user
<1>1. h \in GrantStates(g0)
  BY GrantedAll
<1>2. g0.pending[1] \in ToSet(h.pending)
  <2>1. g0.pending \in Seq(Job)
    BY DEF Gate
  <2>2. 1 \in 1 .. Len(g0.pending)
    BY <2>1, Places
  <2> QED
    BY <2>1, <2>2, Places
<1>3. h # g0
  OBVIOUS
<1> QED
  BY <1>1, <1>2, <1>3 DEF GrantStates

(* A gate that takes a slot back is a gate.                                  *)
LEMMA SlotToTake ==
  ASSUME AdmissionInv, NEW j \in Live(job), NEW l \in Lane, job[j].lane = l,
         j \notin ToSet(gate[l].pending)
  PROVE  LET g == [gate[l] EXCEPT !.active = gate[l].active - 1] IN
         /\ g \in Gate /\ g.pending = gate[l].pending /\ g.last = gate[l].last
<1> DEFINE U == Asking(job, l) \ ToSet(gate[l].pending)
<1>1. /\ gate[l] \in Gate /\ IsFiniteSet(Live(job)) /\ gate[l].active = Cardinality(U)
      /\ gate[l].active \in Nat
  BY InvParts DEF GateFits, GateCounts, FineRows, Gate
<1>2. IsFiniteSet(U) /\ U # {}
  <2>1. U \subseteq Live(job) /\ j \in U
    BY DEF Asking
  <2> HIDE DEF U
  <2> QED
    BY <1>1, <2>1, FS_Subset
<1> HIDE DEF U
<1>3. Cardinality(U) # 0
  BY <1>2, FS_EmptySet
<1>4. gate[l].active - 1 \in Nat
  BY <1>1, <1>3
<1> QED
  BY <1>1, <1>4 DEF Gate

(* HeadPassedOnce of one gate and one step.                                  *)
PassedOnce(l) ==
  LET head == gate[l].pending[1]
      gone == ToSet(gate[l].pending) \ ToSet(gate'[l].pending)
  IN  /\ gate[l].pending # <<>> /\ head \notin gone
      /\ \E j \in gone : job'[j].at = "waiting"
      => gate[l].last = job[head].user /\ gate'[l].last # job[head].user

(* A step after which everybody still queues passes nobody over.             *)
LEMMA NobodyGone ==
  ASSUME NEW l, ToSet(gate[l].pending) \subseteq ToSet(gate'[l].pending)
  PROVE  PassedOnce(l)
  BY DEF PassedOnce

(* A step that frees a slot of one gate, or of none.                         *)
LEMMA FreedPasses ==
  ASSUME AdmissionInv, NEW j \in Live(job), NEW l \in Lane, job[j].lane = l,
         j \notin ToSet(gate[l].pending), gate' = [gate EXCEPT ![l] = Freed(l)]
  PROVE  PassedOnce(l)
<1> DEFINE g == [gate[l] EXCEPT !.active = gate[l].active - 1]
           h == gate'[l]
<1>1. /\ gate \in [Lane -> Gate] /\ job \in JobRows /\ settings.limit[l] \in Nat
      /\ IsInjective(gate[l].pending) /\ ToSet(gate[l].pending) \subseteq Live(job)
  BY InvParts DEF GateFits, GateCounts, Asking
<1>2. g \in Gate /\ g.pending = gate[l].pending /\ g.last = gate[l].last
  BY SlotToTake
<1>3. h = Granted(g, settings.limit[l])
  BY <1>1 DEF Freed
<1> HIDE DEF g, h
<1>4. ASSUME gate[l].pending # <<>>,
             gate[l].pending[1] \notin ToSet(gate[l].pending) \ ToSet(h.pending),
             ToSet(gate[l].pending) \ ToSet(h.pending) # {}
      PROVE  gate[l].last = job[gate[l].pending[1]].user
             /\ h.last # job[gate[l].pending[1]].user
  <2>1. /\ IsInjective(g.pending) /\ ToSet(g.pending) \subseteq Live(job)
        /\ g.pending # <<>> /\ g.pending[1] \notin ToSet(g.pending) \ ToSet(h.pending)
        /\ ToSet(g.pending) \ ToSet(h.pending) # {}
    BY <1>1, <1>2, <1>4
  <2>2. job \in JobRows /\ settings.limit[l] \in Nat /\ g \in Gate
    BY <1>1, <1>2
  <2>3. g.last = job[g.pending[1]].user /\ h.last # job[g.pending[1]].user
    BY <1>3, <2>1, <2>2, GrantedPasses
  <2> QED
    BY <1>2, <2>3
<1> QED
  BY <1>4 DEF PassedOnce, h

(* Whoever is at the head of a gate's queue is passed over at most once, for *)
(* another user who is served in its place.                                  *)
LEMMA StepsPassOnce ==
  ASSUME AdmissionInv, [Next]_vars, NEW l \in Lane
  PROVE  PassedOnce(l)
<1>1. /\ gate \in [Lane -> Gate] /\ gate[l] \in Gate /\ settings.limit[l] \in Nat \ {0}
      /\ IsInjective(gate[l].pending) /\ ToSet(gate[l].pending) \subseteq Live(job)
      /\ gate[l].pending \in Seq(Job) /\ job \in JobRows
  BY InvParts DEF GateFits, GateCounts, Asking, Gate
<1>2. CASE gate'[l].pending = gate[l].pending
  BY <1>2, NobodyGone
<1>3. ASSUME NEW j \in Job, NEW k \in Lane, Acquire(j, k) PROVE PassedOnce(l)
  <2>1. \/ gate' = [gate EXCEPT ![k] = [gate[k] EXCEPT !.active = @ + 1]]
        \/ gate' = [gate EXCEPT ![k] = [gate[k] EXCEPT !.pending = Append(@, j)]]
    BY <1>3 DEF Acquire, GateStep
  <2>2. gate'[l].pending = gate[l].pending \/ gate'[l].pending = Append(gate[l].pending, j)
    <3>1. CASE k # l
      <4>1. gate'[l] = gate[l]
        BY <1>1, <2>1, <3>1
      <4> QED
        BY <4>1
    <3>2. CASE k = l
      <4>1. \/ gate'[l] = [gate[l] EXCEPT !.active = @ + 1]
            \/ gate'[l] = [gate[l] EXCEPT !.pending = Append(@, j)]
        BY <1>1, <2>1, <3>2
      <4>2. gate[l] \in [active : Nat, pending : Seq(Job), last : User \cup {NoUser}]
        BY <1>1 DEF Gate
      <4> QED
        BY <4>1, <4>2
    <3> QED
      BY <3>1, <3>2
  <2>3. ToSet(gate[l].pending) \subseteq ToSet(Append(gate[l].pending, j))
    BY <1>1 DEF ToSet
  <2> QED
    BY <2>2, <2>3, NobodyGone
<1>4. ASSUME NEW j \in Job, Proceed(j) PROVE PassedOnce(l)
  <2>1. gate' = [gate EXCEPT ![job[j].lane] = gate[job[j].lane]]
    BY <1>4 DEF Proceed, GateStep
  <2>2. gate'[l] = gate[l]
    BY <1>1, <2>1
  <2> QED
    BY <2>2, NobodyGone
<1>5. ASSUME NEW j \in Job, Release(j) PROVE PassedOnce(l)
  <2>1. Is(j, "holding") /\ gate' = [gate EXCEPT ![job[j].lane] = Freed(job[j].lane)]
    BY <1>5 DEF Release, GateStep
  <2>2. "holding" \in InProgress /\ "holding" # "waiting" /\ "holding" \in {"waiting", "holding"}
    BY DEF InProgress
  <2>3. j \in Live(job) /\ job[j].lane \in Lane /\ \A k \in Lane : j \notin ToSet(gate[k].pending)
    BY <2>1, <2>2, WhereIs
  <2>4. CASE job[j].lane = l
    BY <2>1, <2>3, <2>4, FreedPasses
  <2>5. CASE job[j].lane # l
    <3>1. gate'[l] = gate[l]
      BY <1>1, <2>1, <2>5
    <3> QED
      BY <3>1, NobodyGone
  <2> QED
    BY <2>4, <2>5
<1>6. ASSUME NEW j \in Job, GiveUp(j) PROVE PassedOnce(l)
  <2> DEFINE m == job[j].lane
  <2>1. /\ Is(j, "waiting") /\ Moves(j, "working", NoLane)
        /\ GateStep(m, IF Waits(j) THEN [gate[m] EXCEPT !.pending = RemoveFirst(@, j)]
                                   ELSE Freed(m))
    BY <1>6 DEF GiveUp
  <2>2. "waiting" \in InProgress /\ "waiting" \in {"waiting", "holding"}
        /\ "working" \in InProgress /\ "working" \notin {"waiting", "holding"}
        /\ NoLane \notin Lane
    BY NobodyAssumption DEF InProgress
  <2>3. j \in Live(job) /\ j \in Running(job) /\ m \in Lane
    BY <2>1, <2>2, WhereIs
  <2>4. CASE m # l
    <3>1. gate'[l] = gate[l]
      BY <1>1, <2>1, <2>4 DEF GateStep
    <3> QED
      BY <3>1, NobodyGone
  <2>5. CASE m = l /\ ~Waits(j)
    <3>1. j \notin ToSet(gate[l].pending)
      BY <2>1, <2>5 DEF Waits
    <3>2. gate' = [gate EXCEPT ![l] = Freed(l)]
      BY <2>1, <2>5 DEF GateStep
    <3> QED
      BY <2>3, <2>5, <3>1, <3>2, FreedPasses
  <2>6. CASE m = l /\ Waits(j)
    <3>1. j \in ToSet(gate[l].pending)
      BY <2>6 DEF Waits
    <3>2. gate'[l].pending = RemoveFirst(gate[l].pending, j)
      BY <1>1, <2>1, <2>6 DEF GateStep, Gate
    <3>3. ToSet(gate'[l].pending) = ToSet(gate[l].pending) \ {j}
      BY <1>1, <3>1, <3>2, RemoveFirstMembers
    <3>4. job'[j].at = "working"
      <4>1. FineRows(job)
        BY InvParts
      <4> QED
        BY <2>1, <2>2, <2>3, <4>1, MoveKeeps
    <3> QED
      BY <3>3, <3>4 DEF PassedOnce
  <2> QED
    BY <2>4, <2>5, <2>6
<1>7. ASSUME NEW k \in Lane, WakeGate(k) PROVE PassedOnce(l)
  <2>1. gate' = [gate EXCEPT ![k] = Granted(gate[k], settings.limit[k])]
    BY <1>7 DEF WakeGate
  <2>2. CASE k # l
    <3>1. gate'[l] = gate[l]
      BY <1>1, <2>1, <2>2
    <3> QED
      BY <3>1, NobodyGone
  <2>3. CASE k = l
    <3> DEFINE h == gate'[l]
    <3>1. h = Granted(gate[l], settings.limit[l])
      BY <1>1, <2>1, <2>3
    <3> HIDE DEF h
    <3>2. ASSUME gate[l].pending # <<>>,
                 gate[l].pending[1] \notin ToSet(gate[l].pending) \ ToSet(h.pending),
                 ToSet(gate[l].pending) \ ToSet(h.pending) # {}
          PROVE  gate[l].last = job[gate[l].pending[1]].user
                 /\ h.last # job[gate[l].pending[1]].user
      BY <1>1, <3>1, <3>2, GrantedPasses
    <3> QED
      BY <3>2 DEF PassedOnce, h
  <2> QED
    BY <2>2, <2>3
<1>8. ASSUME gate' = gate PROVE PassedOnce(l)
  BY <1>2, <1>8
<1>9. CASE Next
  <2>1. CASE \E j \in Job : JobStep(j) \/ Expire(j)
    <3>1. PICK j \in Job : JobStep(j) \/ Expire(j)
      BY <2>1
    <3>2. ASSUME Abandon(j) \/ (\E ok \in BOOLEAN : Finish(j, ok)) \/ Expire(j)
          PROVE  gate' = gate
      BY <3>2 DEF Abandon, Finish, Expire
    <3> QED
      BY <1>3, <1>4, <1>5, <1>6, <1>8, <3>1, <3>2 DEF JobStep
  <2>2. CASE ~\E j \in Job : JobStep(j) \/ Expire(j)
    <3>1. (\E k \in Lane : WakeGate(k)) \/ gate' = gate
      BY <1>9, <2>2 DEF Next, Submit, Change, WakeRuntime
    <3> QED
      BY <1>7, <1>8, <3>1
  <2> QED
    BY <2>1, <2>2
<1>10. CASE UNCHANGED vars
  BY <1>8, <1>10 DEF vars
<1> QED
  BY <1>9, <1>10

(* No step passes the head of a queue over a second time, or for nobody.     *)
THEOREM HeadsPassedOnce == Spec => HeadPassedOnce
<1> DEFINE A == \A l \in Lane : PassedOnce(l)
<1>1. AdmissionInv /\ [Next]_vars => [A]_vars
  BY StepsPassOnce
<1>2. HeadPassedOnce <=> [][A]_vars
  BY DEF HeadPassedOnce, PassedOnce
<1> HIDE DEF A
<1> QED
  BY <1>1, <1>2, AdmissionInvariance, PTL DEF Spec
=============================================================================
