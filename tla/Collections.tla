---------------------------- MODULE Collections ----------------------------
(***************************************************************************)
(* What the proofs need of numbers, loops, queues and sums: the facts that *)
(* take an induction, which is here one along the order of the numbers.    *)
(***************************************************************************)
EXTENDS Integers, SequencesExt, WellFoundedInduction, FiniteSetTheorems,
        SequenceTheorems, TLAPS

-----------------------------------------------------------------------------
(* Numbers and loops.                                                        *)

(* The least of some numbers, from the order of the numbers having no        *)
(* endless descent.                                                          *)
LEMMA LeastOfNaturals ==
  ASSUME NEW T \in SUBSET Nat, T # {}
  PROVE  \E n \in T : \A m \in T : n <= m
<1> DEFINE R == OpToRel(<, Nat)
<1>1. \E n \in T : \A m \in T : <<m, n>> \notin R
  <2>1. IsWellFoundedOn(R, Nat)
    BY NatLessThanWellFounded
  <2> HIDE DEF R
  <2> QED
    BY <2>1, WFMin
<1>2. \A m, n \in Nat : m < n => <<m, n>> \in R
  BY DEF OpToRel
<1> HIDE DEF R
<1>3. PICK n \in T : \A m \in T : <<m, n>> \notin R
  BY <1>1
<1>4. ASSUME NEW m \in T PROVE n <= m
  <2>1. m \in Nat /\ n \in Nat /\ ~(m < n)
    BY <1>2, <1>3
  <2> QED
    BY <2>1
<1> QED
  BY <1>4

(* Induction along a loop: what its start has and each round keeps, the      *)
(* state after every round has.                                              *)
LEMMA SetInduction ==
  ASSUME NEW S, NEW L \in Nat, NEW g, g[0] \in S,
         \A n \in 0 .. L - 1 : g[n] \in S => g[n + 1] \in S
  PROVE  \A n \in 0 .. L : g[n] \in S
<1> DEFINE T == {n \in 0 .. L : g[n] \notin S}
<1> SUFFICES ASSUME T # {} PROVE FALSE
  OBVIOUS
<1>1. PICK n \in T : \A m \in T : n <= m
  <2>1. T \in SUBSET Nat
    OBVIOUS
  <2> HIDE DEF T
  <2> QED
    BY <2>1, LeastOfNaturals
<1>2. n # 0
  OBVIOUS
<1>3. n - 1 \in 0 .. L - 1 /\ n - 1 \notin T
  BY <1>1, <1>2
<1>4. g[n - 1] \in S
  BY <1>3
<1>5. (n - 1) + 1 = n
  OBVIOUS
<1>6. g[n] \in S
  BY <1>3, <1>4, <1>5
<1> QED
  BY <1>1, <1>6

(* A function of the number of rounds is defined by its start and its round. *)
LEMMA IterationExists ==
  ASSUME NEW S, NEW a \in S, NEW f \in [S -> S], NEW L \in Nat
  PROVE  \E g \in [0 .. L -> S] :
           g[0] = a /\ \A n \in 1 .. L : g[n] = f[g[n - 1]]
<1> DEFINE Good(l) == \E g \in [0 .. l -> S] :
                        g[0] = a /\ \A n \in 1 .. l : g[n] = f[g[n - 1]]
           T == {l \in Nat : ~Good(l)}
<1> SUFFICES ASSUME T # {} PROVE FALSE
  OBVIOUS
<1>1. PICK l \in T : \A m \in T : l <= m
  BY LeastOfNaturals
<1>2. CASE l = 0
  <2> DEFINE g == [n \in 0 .. 0 |-> a]
  <2>1. g \in [0 .. 0 -> S] /\ g[0] = a /\ \A n \in 1 .. 0 : g[n] = f[g[n - 1]]
    OBVIOUS
  <2> HIDE DEF g
  <2>2. Good(0)
    BY <2>1
  <2> QED
    BY <1>2, <2>2
<1>3. CASE l # 0
  <2>1. l - 1 \in Nat /\ l - 1 \notin T
    <3>1. l \in Nat /\ l - 1 \in Nat /\ ~(l <= l - 1)
      BY <1>3
    <3> HIDE DEF T
    <3> QED
      BY <1>1, <3>1
  <2>2. PICK g \in [0 .. l - 1 -> S] :
          g[0] = a /\ \A n \in 1 .. l - 1 : g[n] = f[g[n - 1]]
    BY <2>1
  <2> DEFINE h == [n \in 0 .. l |-> IF n = l THEN f[g[l - 1]] ELSE g[n]]
  <2>3. g[l - 1] \in S
    BY <2>1, <2>2
  <2>4. h \in [0 .. l -> S]
    BY <2>3
  <2>5. ASSUME NEW n \in 1 .. l PROVE h[n] = f[h[n - 1]]
    <3>1. CASE n # l
      <4>1. n \in 1 .. l - 1 /\ n \in 0 .. l /\ n - 1 \in 0 .. l /\ n - 1 # l
        BY <3>1
      <4>2. h[n] = g[n] /\ h[n - 1] = g[n - 1]
        BY <3>1, <4>1
      <4> QED
        BY <2>2, <4>1, <4>2
    <3>2. CASE n = l
      <4>1. l - 1 \in 0 .. l /\ l - 1 # l
        BY <1>3
      <4>2. h[l] = f[g[l - 1]] /\ h[l - 1] = g[l - 1]
        BY <4>1
      <4> QED
        BY <3>2, <4>2
    <3> QED
      BY <3>1, <3>2
  <2>6. h[0] = a
    BY <1>3, <2>2
  <2> HIDE DEF h
  <2>8. Good(l)
    BY <2>4, <2>5, <2>6
  <2> QED
    BY <2>8
<1> QED
  BY <1>2, <1>3

(* The least number of a set is in it.                                       *)
LEMMA MinIsLeast ==
  ASSUME NEW T \in SUBSET Nat, T # {}
  PROVE  Min(T) \in T /\ \A m \in T : Min(T) <= m
<1>1. \E n \in T : \A m \in T : n <= m
  BY LeastOfNaturals
<1> QED
  BY <1>1 DEF Min

(* A loop whose every round makes a number smaller or changes nothing has    *)
(* come to rest after as many rounds as the number said at its start.        *)
LEMMA LoopComesToRest ==
  ASSUME NEW S, NEW a \in S, NEW f \in [S -> S], NEW size \in [S -> Nat],
         \A s \in S : f[s] = s \/ size[f[s]] < size[s],
         NEW g, g[0] = a,
         \A n \in 1 .. size[a] : g[n - 1] \in S => g[n] = f[g[n - 1]]
  PROVE  g[size[a]] \in S /\ f[g[size[a]]] = g[size[a]]
<1> DEFINE L == size[a]
<1>1. L \in Nat /\ g[0] = a
  OBVIOUS
<1>2. ASSUME NEW n \in 0 .. L - 1, g[n] \in S PROVE g[n + 1] = f[g[n]]
  <2>1. n + 1 \in 1 .. L /\ (n + 1) - 1 = n
    BY <1>1
  <2> QED
    BY <1>2, <2>1
<1> HIDE DEF L
<1>3. \A n \in 0 .. L : g[n] \in S
  <2>1. \A n \in 0 .. L - 1 : g[n] \in S => g[n + 1] \in S
    BY <1>2
  <2> QED
    BY <1>1, <2>1, SetInduction
<1> DEFINE T == {p \in Nat \X S : f[p[2]] = p[2] \/ size[p[2]] <= L - p[1]}
           h == [n \in 0 .. L |-> <<n, g[n]>>]
<1>4. h[0] \in T
  <2>1. h[0] = <<0, a>> /\ size[a] <= L - 0
    BY <1>1 DEF L
  <2>2. <<0, a>> \in T
    BY <1>1, <2>1 DEF L
  <2> HIDE DEF T, h
  <2> QED
    BY <2>1, <2>2
<1>5. ASSUME NEW n \in 0 .. L - 1, h[n] \in T PROVE h[n + 1] \in T
  <2>1. n \in 0 .. L /\ n + 1 \in 0 .. L /\ n + 1 \in Nat
    BY <1>1
  <2>2. h[n] = <<n, g[n]>> /\ h[n + 1] = <<n + 1, f[g[n]]>>
    BY <1>2, <1>3, <2>1
  <2>3. g[n] \in S /\ f[g[n]] \in S /\ size[g[n]] \in Nat /\ size[f[g[n]]] \in Nat
    BY <1>3, <2>1
  <2>4. f[g[n]] = g[n] \/ size[g[n]] <= L - n
    BY <1>5, <2>2
  <2>5. f[f[g[n]]] = f[g[n]] \/ size[f[g[n]]] <= L - (n + 1)
    <3>1. CASE f[g[n]] = g[n]
      BY <3>1
    <3>2. CASE f[g[n]] # g[n]
      BY <1>1, <2>1, <2>3, <2>4, <3>2
    <3> QED
      BY <3>1, <3>2
  <2> QED
    BY <2>1, <2>2, <2>3, <2>5
<1>6. h[L] \in T
  <2>1. \A n \in 0 .. L - 1 : h[n] \in T => h[n + 1] \in T
    BY <1>5
  <2> HIDE DEF T, h
  <2>2. \A n \in 0 .. L : h[n] \in T
    BY <1>1, <1>4, <2>1, SetInduction
  <2> QED
    BY <1>1, <2>2
<1>7. h[L] = <<L, g[L]>> /\ g[L] \in S
  BY <1>1, <1>3
<1>8. f[g[L]] = g[L] \/ size[g[L]] <= 0
  BY <1>1, <1>6, <1>7
<1>9. f[g[L]] = g[L]
  <2>1. size[g[L]] \in Nat /\ size[f[g[L]]] \in Nat
    BY <1>7
  <2> QED
    BY <1>7, <1>8, <2>1
<1> QED
  BY <1>7, <1>9 DEF L

-----------------------------------------------------------------------------
(* Queues.                                                                   *)

(* A queue without its i-th member.                                          *)
LEMMA RemoveAtFields ==
  ASSUME NEW S, NEW s \in Seq(S), NEW i \in 1 .. Len(s)
  PROVE  /\ RemoveAt(s, i) \in Seq(S)
         /\ Len(RemoveAt(s, i)) = Len(s) - 1
         /\ \A k \in 1 .. Len(s) - 1 :
              RemoveAt(s, i)[k] = IF k < i THEN s[k] ELSE s[k + 1]
<1> DEFINE a == SubSeq(s, 1, i - 1)
           b == SubSeq(s, i + 1, Len(s))
<1>1. Len(s) \in Nat /\ i \in Nat /\ i >= 1 /\ i <= Len(s)
  OBVIOUS
<1>2. a \in Seq(S) /\ Len(a) = i - 1 /\ \A k \in 1 .. i - 1 : a[k] = s[k]
  <2>1. \A k \in 1 .. i - 1 : s[k] \in S
    OBVIOUS
  <2> QED
    BY <1>1, <2>1
<1>3. b \in Seq(S) /\ Len(b) = Len(s) - i /\ \A k \in 1 .. Len(s) - i : b[k] = s[i + k]
  <2>1. \A k \in i + 1 .. Len(s) : s[k] \in S
    OBVIOUS
  <2> QED
    BY <1>1, <2>1
<1> HIDE DEF a, b
<1>4. RemoveAt(s, i) = a \o b
  BY DEF RemoveAt, a, b
<1>5. a \o b \in Seq(S) /\ Len(a \o b) = Len(a) + Len(b)
  <2>1. a \in Seq(S) /\ b \in Seq(S)
    BY <1>2, <1>3
  <2> QED
    BY <2>1, ConcatProperties
<1>6. ASSUME NEW k \in 1 .. Len(s) - 1
      PROVE (a \o b)[k] = IF k < i THEN s[k] ELSE s[k + 1]
  <2>1. CASE k < i
    <3>1. k \in 1 .. Len(a)
      BY <1>1, <1>2, <2>1
    <3>2. (a \o b)[k] = a[k]
      BY <1>2, <1>3, <3>1
    <3> QED
      BY <1>2, <2>1, <3>1, <3>2
  <2>2. CASE ~(k < i)
    <3>1. k \in Len(a) + 1 .. Len(a) + Len(b) /\ k - Len(a) \in 1 .. Len(s) - i
          /\ i + (k - Len(a)) = k + 1
      BY <1>1, <1>2, <1>3, <2>2
    <3>2. (a \o b)[k] = b[k - Len(a)]
      BY <1>2, <1>3, <3>1
    <3> QED
      BY <1>3, <2>2, <3>1, <3>2
  <2> QED
    BY <2>1, <2>2
<1> QED
  BY <1>1, <1>2, <1>3, <1>4, <1>5, <1>6

(* If nobody queues twice, the others stay and stay in their order.          *)
LEMMA RemoveAtMembers ==
  ASSUME NEW S, NEW s \in Seq(S), NEW i \in 1 .. Len(s), IsInjective(s)
  PROVE  /\ RemoveAt(s, i) \in Seq(S)
         /\ Len(RemoveAt(s, i)) = Len(s) - 1
         /\ IsInjective(RemoveAt(s, i))
         /\ ToSet(RemoveAt(s, i)) = ToSet(s) \ {s[i]}
         /\ i # 1 => Len(RemoveAt(s, i)) >= 1 /\ RemoveAt(s, i)[1] = s[1]
<1> DEFINE t == RemoveAt(s, i)
<1>1. /\ t \in Seq(S) /\ Len(t) = Len(s) - 1
      /\ \A k \in 1 .. Len(s) - 1 : t[k] = IF k < i THEN s[k] ELSE s[k + 1]
  BY RemoveAtFields
<1> HIDE DEF t
<1>2. Len(s) \in Nat /\ DOMAIN s = 1 .. Len(s) /\ DOMAIN t = 1 .. Len(s) - 1
  BY <1>1
<1>3. \A k, m \in 1 .. Len(s) : s[k] = s[m] => k = m
  BY <1>2 DEF IsInjective
<1>4. ASSUME NEW k \in 1 .. Len(s) - 1, NEW m \in 1 .. Len(s) - 1, t[k] = t[m]
      PROVE  k = m
  <2> DEFINE at(n) == IF n < i THEN n ELSE n + 1
  <2>1. at(k) \in 1 .. Len(s) /\ at(m) \in 1 .. Len(s) /\ s[at(k)] = s[at(m)]
    BY <1>1, <1>2, <1>4
  <2>2. at(k) = at(m)
    BY <1>3, <2>1
  <2> QED
    BY <1>2, <2>2
<1>5. IsInjective(t)
  BY <1>2, <1>4 DEF IsInjective
<1>6. ToSet(t) = ToSet(s) \ {s[i]}
  <2>1. ASSUME NEW x \in ToSet(t) PROVE x \in ToSet(s) /\ x # s[i]
    <3>1. PICK k \in 1 .. Len(s) - 1 : x = t[k]
      BY <1>2 DEF ToSet
    <3>2. CASE k < i
      <4>1. x = s[k] /\ k \in 1 .. Len(s) /\ k # i
        BY <1>1, <1>2, <3>1, <3>2
      <4> QED
        BY <1>2, <1>3, <4>1 DEF ToSet
    <3>3. CASE ~(k < i)
      <4>1. x = s[k + 1] /\ k + 1 \in 1 .. Len(s) /\ k + 1 # i
        BY <1>1, <1>2, <3>1, <3>3
      <4> QED
        BY <1>2, <1>3, <4>1 DEF ToSet
    <3> QED
      BY <3>2, <3>3
  <2>2. ASSUME NEW x \in ToSet(s), x # s[i] PROVE x \in ToSet(t)
    <3>1. PICK k \in 1 .. Len(s) : x = s[k]
      BY <1>2 DEF ToSet
    <3>2. CASE k < i
      <4>1. x = t[k] /\ k \in 1 .. Len(s) - 1
        BY <1>1, <1>2, <3>1, <3>2
      <4> QED
        BY <1>2, <4>1 DEF ToSet
    <3>3. CASE ~(k < i)
      <4>1. k > i
        BY <1>2, <2>2, <3>1, <3>3
      <4>2. k - 1 \in 1 .. Len(s) - 1 /\ ~(k - 1 < i) /\ (k - 1) + 1 = k
        BY <1>2, <4>1
      <4>3. x = t[k - 1]
        BY <1>1, <3>1, <4>2
      <4> QED
        BY <1>2, <4>2, <4>3 DEF ToSet
    <3> QED
      BY <3>2, <3>3
  <2> QED
    BY <2>1, <2>2
<1>7. i # 1 => Len(t) >= 1 /\ t[1] = s[1]
  BY <1>1, <1>2
<1> QED
  BY <1>1, <1>5, <1>6, <1>7 DEF t

(* A queue with a new last member.                                           *)
LEMMA AppendMembers ==
  ASSUME NEW S, NEW s \in Seq(S), NEW x \in S, x \notin ToSet(s), IsInjective(s)
  PROVE  /\ Append(s, x) \in Seq(S)
         /\ IsInjective(Append(s, x))
         /\ ToSet(Append(s, x)) = ToSet(s) \cup {x}
<1> DEFINE t == Append(s, x)
<1>1. /\ t \in Seq(S) /\ Len(t) = Len(s) + 1 /\ Len(s) \in Nat
      /\ DOMAIN s = 1 .. Len(s) /\ DOMAIN t = 1 .. Len(s) + 1
      /\ \A k \in 1 .. Len(s) : t[k] = s[k]
      /\ t[Len(s) + 1] = x
  OBVIOUS
<1> HIDE DEF t
<1>2. \A k \in 1 .. Len(s) : s[k] # x
  BY <1>1 DEF ToSet
<1>3. IsInjective(t)
  BY <1>1, <1>2 DEF IsInjective
<1>4. ToSet(t) = ToSet(s) \cup {x}
  <2>1. ASSUME NEW y \in ToSet(t) PROVE y \in ToSet(s) \cup {x}
    BY <1>1 DEF ToSet
  <2>2. ASSUME NEW y \in ToSet(s) \cup {x} PROVE y \in ToSet(t)
    BY <1>1 DEF ToSet
  <2> QED
    BY <2>1, <2>2
<1> QED
  BY <1>1, <1>3, <1>4 DEF t

(* A queue in which nobody stands twice is as long as it has members.        *)
LEMMA QueueLength ==
  ASSUME NEW S, NEW s \in Seq(S), IsInjective(s)
  PROVE  IsFiniteSet(ToSet(s)) /\ Cardinality(ToSet(s)) = Len(s)
<1>1. Len(s) \in Nat /\ DOMAIN s = 1 .. Len(s) /\ ToSet(s) = {s[k] : k \in 1 .. Len(s)}
  BY DEF ToSet
<1>2. IsFiniteSet(1 .. Len(s)) /\ Cardinality(1 .. Len(s)) = Len(s)
  BY <1>1, FS_Interval
<1>3. s \in Bijection(1 .. Len(s), ToSet(s))
  <2>1. s \in [1 .. Len(s) -> ToSet(s)]
    BY <1>1
  <2>2. \A k, m \in 1 .. Len(s) : s[k] = s[m] => k = m
    BY <1>1 DEF IsInjective
  <2>3. \A x \in ToSet(s) : \E k \in 1 .. Len(s) : s[k] = x
    BY <1>1
  <2> QED
    BY <2>1, <2>2, <2>3 DEF Bijection, Injection, Surjection, IsInjective
<1>4. ExistsBijection(1 .. Len(s), ToSet(s))
  BY <1>3 DEF ExistsBijection
<1> QED
  BY <1>2, <1>4, FS_Bijection

-----------------------------------------------------------------------------
(* Sums.                                                                     *)

\* G adds up f over the subsets of S, in whatever order.
Adds(G, f, S) ==
  /\ G \in [SUBSET S -> Int]
  /\ G[{}] = 0
  /\ \A s \in SUBSET S : \A x \in s : G[s] = f[x] + G[s \ {x}]

\* iter adds up f taking the members of each set in some order.
Follows(iter, f, S) ==
  /\ iter[{}] = 0
  /\ \A s \in SUBSET S : s # {} => \E x \in s : iter[s] = f[x] + iter[s \ {x}]

(* Of sets that do not all have what each gets from the set without one of   *)
(* its members, a smallest one that has it not would be without members.     *)
LEMMA SmallestSet ==
  ASSUME NEW S, IsFiniteSet(S), NEW Bad \in SUBSET SUBSET S, Bad # {}
  PROVE  \E s \in Bad : \A x \in s : s \ {x} \notin Bad
<1> DEFINE T == {Cardinality(s) : s \in Bad}
<1>1. \A s \in SUBSET S : IsFiniteSet(s) /\ Cardinality(s) \in Nat
  BY FS_Subset, FS_CardinalityType
<1>2. PICK n \in T : \A m \in T : n <= m
  <2>1. T \in SUBSET Nat /\ T # {}
    BY <1>1
  <2> HIDE DEF T
  <2> QED
    BY <2>1, LeastOfNaturals
<1>3. PICK s \in Bad : n = Cardinality(s)
  BY <1>2
<1>4. ASSUME NEW x \in s, s \ {x} \in Bad PROVE FALSE
  <2>1. Cardinality(s \ {x}) = Cardinality(s) - 1
    BY <1>1, FS_RemoveElement
  <2>2. Cardinality(s \ {x}) \in T
    BY <1>4
  <2>3. Cardinality(s) <= Cardinality(s \ {x}) /\ Cardinality(s) \in Nat
    BY <1>1, <1>2, <1>3, <2>2
  <2> QED
    BY <2>1, <2>3
<1> QED
  BY <1>4

(* Whatever is finite can be added up.                                       *)
LEMMA AdderExists ==
  ASSUME NEW S, IsFiniteSet(S), NEW f \in [S -> Int]
  PROVE  \E G : Adds(G, f, S)
<1> DEFINE Bad == {s \in SUBSET S : ~\E G : Adds(G, f, s)}
<1>1. SUFFICES ASSUME Bad # {} PROVE FALSE
  OBVIOUS
<1>2. PICK s \in Bad : \A x \in s : s \ {x} \notin Bad
  <2>1. Bad \in SUBSET SUBSET S
    OBVIOUS
  <2> HIDE DEF Bad
  <2> QED
    BY <1>1, <2>1, SmallestSet
<1>3. CASE s = {}
  <2>1. Adds([u \in SUBSET {} |-> 0], f, {})
    BY DEF Adds
  <2> QED
    BY <1>2, <1>3, <2>1
<1>4. ASSUME NEW x \in s PROVE FALSE
  <2> DEFINE r == s \ {x}
  <2>1. PICK G : Adds(G, f, r)
    BY <1>2, <1>4
  <2> DEFINE H == [u \in SUBSET s |-> IF x \in u THEN f[x] + G[u \ {x}] ELSE G[u]]
  <2>2. /\ G \in [SUBSET r -> Int] /\ G[{}] = 0
        /\ \A u \in SUBSET r : \A y \in u : G[u] = f[y] + G[u \ {y}]
    BY <2>1 DEF Adds
  <2>3. s \in SUBSET S /\ \A y \in s : f[y] \in Int
    BY <1>2
  <2>4. \A u \in SUBSET s : /\ u \ {x} \in SUBSET r
                            /\ x \notin u => u \in SUBSET r
    OBVIOUS
  <2> HIDE DEF r
  <2>5. ASSUME NEW u \in SUBSET s, NEW y \in u PROVE H[u] = f[y] + H[u \ {y}]
    <3>1. u \ {y} \in SUBSET s
      OBVIOUS
    <3>2. CASE y = x
      BY <2>4, <3>1, <3>2
    <3>3. CASE y # x /\ x \in u
      <4>1. H[u] = f[x] + G[u \ {x}]
        BY <3>3
      <4>2. G[u \ {x}] = f[y] + G[(u \ {x}) \ {y}]
        BY <2>2, <2>4, <3>3
      <4>3. H[u \ {y}] = f[x] + G[(u \ {x}) \ {y}]
        <5>1. (u \ {y}) \ {x} = (u \ {x}) \ {y}
          OBVIOUS
        <5>2. H[u \ {y}] = f[x] + G[(u \ {y}) \ {x}]
          BY <3>1, <3>3
        <5> QED
          BY <5>1, <5>2
      <4>4. f[x] \in Int /\ f[y] \in Int /\ G[(u \ {x}) \ {y}] \in Int
        <5>1. (u \ {x}) \ {y} \in SUBSET r
          BY <2>4
        <5> QED
          BY <1>4, <2>2, <2>3, <5>1
      <4>5. \A a, b, g \in Int : a + (b + g) = b + (a + g)
        OBVIOUS
      <4> HIDE DEF H
      <4> QED
        BY <4>1, <4>2, <4>3, <4>4, <4>5
    <3>4. CASE x \notin u
      <4>1. H[u] = G[u] /\ H[u \ {y}] = G[u \ {y}]
        BY <3>1, <3>4
      <4> QED
        BY <2>2, <2>4, <3>4, <4>1
    <3> QED
      BY <3>2, <3>3, <3>4
  <2>6. H \in [SUBSET s -> Int]
    <3>1. ASSUME NEW u \in SUBSET s
          PROVE  (IF x \in u THEN f[x] + G[u \ {x}] ELSE G[u]) \in Int
      <4>1. G[u \ {x}] \in Int /\ f[x] \in Int
        BY <1>4, <2>2, <2>3, <2>4
      <4>2. x \notin u => G[u] \in Int
        BY <2>2, <2>4
      <4> QED
        BY <4>1, <4>2
    <3> QED
      BY <3>1
  <2>7. H[{}] = 0
    BY <2>2
  <2>8. Adds(H, f, s)
    <3> HIDE DEF H
    <3> QED
      BY <2>5, <2>6, <2>7 DEF Adds
  <2> QED
    BY <1>2, <2>8
<1> QED
  BY <1>3, <1>4

(* And a recursion that takes the members in some order finds the same sum.  *)
LEMMA FoldAdds ==
  ASSUME NEW S, IsFiniteSet(S), NEW f, NEW G, Adds(G, f, S),
         NEW iter, Follows(iter, f, S)
  PROVE  \A s \in SUBSET S : iter[s] = G[s]
<1> DEFINE Bad == {s \in SUBSET S : iter[s] # G[s]}
<1>1. SUFFICES ASSUME Bad # {} PROVE FALSE
  OBVIOUS
<1>2. PICK s \in Bad : \A x \in s : s \ {x} \notin Bad
  <2>1. Bad \in SUBSET SUBSET S
    OBVIOUS
  <2> HIDE DEF Bad
  <2> QED
    BY <1>1, <2>1, SmallestSet
<1>3. CASE s = {}
  BY <1>2, <1>3 DEF Adds, Follows
<1>4. CASE s # {}
  <2>1. PICK x \in s : iter[s] = f[x] + iter[s \ {x}]
    BY <1>2, <1>4 DEF Follows
  <2>2. iter[s \ {x}] = G[s \ {x}]
    BY <1>2
  <2>3. G[s] = f[x] + G[s \ {x}]
    BY <1>2 DEF Adds
  <2> QED
    BY <1>2, <2>1, <2>2, <2>3
<1> QED
  BY <1>3, <1>4

\* The same is added of every member.
Agree(f, g, S) == \A x \in S : f[x] = g[x]

\* T has one member more than S.
Joins(x, S, T) == x \notin S /\ T = S \cup {x}

(* One more member adds its own.                                             *)
LEMMA SumGrows ==
  ASSUME NEW S, NEW x, NEW T, Joins(x, S, T), NEW f, NEW G, Adds(G, f, T),
         NEW g, Agree(f, g, S)
  PROVE  /\ G[S] \in Int /\ G[T] = f[x] + G[S]
         /\ \E H : Adds(H, g, S) /\ H[S] = G[S]
<1> DEFINE H == [s \in SUBSET S |-> G[s]]
<1>1. /\ G \in [SUBSET (S \cup {x}) -> Int] /\ G[{}] = 0
      /\ \A s \in SUBSET (S \cup {x}) : \A y \in s : G[s] = f[y] + G[s \ {y}]
      /\ x \notin S /\ T = S \cup {x}
  BY DEF Adds, Joins
<1>2. G[S] \in Int /\ G[S \cup {x}] = f[x] + G[S]
  <2>1. (S \cup {x}) \ {x} = S /\ S \in SUBSET (S \cup {x})
    BY <1>1
  <2> QED
    BY <1>1, <2>1
<1>3. H \in [SUBSET S -> Int] /\ H[{}] = 0 /\ H[S] = G[S]
  BY <1>1
<1>4. ASSUME NEW s \in SUBSET S, NEW y \in s PROVE H[s] = g[y] + H[s \ {y}]
  <2>1. G[s] = f[y] + G[s \ {y}]
    BY <1>1
  <2>2. f[y] = g[y] /\ H[s] = G[s] /\ H[s \ {y}] = G[s \ {y}]
    BY DEF Agree
  <2> QED
    BY <2>1, <2>2
<1> HIDE DEF H
<1>5. Adds(H, g, S)
  BY <1>3, <1>4 DEF Adds
<1> QED
  BY <1>1, <1>2, <1>3, <1>5
=============================================================================
