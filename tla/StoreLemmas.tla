---------------------------- MODULE StoreLemmas ----------------------------
(***************************************************************************)
(* Lemmas about the operators the algorithms are built from: the order of  *)
(* tags, channels, and majorities; and about functions defined by          *)
(* recursion.                                                              *)
(***************************************************************************)
EXTENDS Tags, Channels, FiniteSets, FiniteSetTheorems, WellFoundedInduction, TLAPS

-----------------------------------------------------------------------------
(* Tags: isGreaterTag is a strict total order (applicationUtilities.go 46-60) *)

\* No tag is above itself, and of two tags the larger is above the smaller
\* only: AtLeast is reflexive, total and antisymmetric.
LEMMA TagTotal ==
  ASSUME NEW t \in AnyTag, NEW u \in AnyTag
  PROVE  /\ AtLeast(t, t)
         /\ AtLeast(t, u) \/ AtLeast(u, t)
         /\ AtLeast(t, u) /\ AtLeast(u, t) => t = u
         /\ isGreaterTag(t, u) <=> ~ AtLeast(u, t)
         /\ isGreaterTag(t, u) => AtLeast(t, u) /\ t # u
BY DEF AtLeast, isGreaterTag, AnyTag, Tag, LowestTag

\* The order is transitive, also when one of the comparisons is strict.
LEMMA TagTransitive ==
  ASSUME NEW t \in AnyTag, NEW u \in AnyTag, NEW v \in AnyTag
  PROVE  /\ AtLeast(t, u) /\ AtLeast(u, v) => AtLeast(t, v)
         /\ isGreaterTag(t, u) /\ AtLeast(u, v) => isGreaterTag(t, v)
         /\ AtLeast(t, u) /\ isGreaterTag(u, v) => isGreaterTag(t, v)
BY DEF AtLeast, isGreaterTag, AnyTag, Tag, LowestTag

\* The two comparisons of the code agree (applicationUtilities.go 30-60).
LEMMA TagComparisonsAgree ==
  ASSUME NEW t \in AnyTag, NEW u \in AnyTag
  PROVE  IsSmallerThan(t, u) <=> isGreaterTag(u, t)
BY DEF IsSmallerThan, isGreaterTag, AnyTag, Tag, LowestTag

\* LargerTag is an upper bound and one of its arguments.
LEMMA LargerTagBounds ==
  ASSUME NEW t \in AnyTag, NEW u \in AnyTag
  PROVE  /\ AtLeast(LargerTag(t, u), t)
         /\ AtLeast(LargerTag(t, u), u)
         /\ LargerTag(t, u) \in {t, u}
BY TagTotal DEF LargerTag

LEMMA InitialTagIsTag == InitialTag \in Tag /\ Tag \subseteq AnyTag /\ LowestTag \in AnyTag
BY DEF InitialTag, Tag, AnyTag

-----------------------------------------------------------------------------
(* Channels *)

\* What a send puts into a channel.
LEMMA SendMessages ==
  ASSUME NEW T, NEW q \in Seq(T), NEW m \in T
  PROVE  /\ Append(q, m) \in Seq(T)
         /\ Messages(Append(q, m)) = Messages(q) \cup {m}
<1> DEFINE p == Append(q, m)
<1>1. /\ p \in Seq(T) /\ Len(p) = Len(q) + 1 /\ Len(q) \in Nat
      /\ p[Len(q) + 1] = m
      /\ \A k \in 1..Len(q) : p[k] = q[k]
  OBVIOUS
<1>2. Messages(p) \subseteq Messages(q) \cup {m}
  BY <1>1 DEF Messages
<1>3. Messages(q) \cup {m} \subseteq Messages(p)
  BY <1>1 DEF Messages
<1> QED
  BY <1>1, <1>2, <1>3

\* A send keeps at most one message of S in the channel when it adds the first.
LEMMA SendAtMostOne ==
  ASSUME NEW T, NEW q \in Seq(T), NEW m \in T, NEW S,
         AtMostOne(q, S),
         m \in S => Messages(q) \cap S = {}
  PROVE  AtMostOne(Append(q, m), S)
<1> DEFINE p == Append(q, m)
<1>1. /\ Len(p) = Len(q) + 1 /\ Len(q) \in Nat
      /\ p[Len(q) + 1] = m
      /\ \A k \in 1..Len(q) : p[k] = q[k]
  OBVIOUS
<1> SUFFICES ASSUME NEW j \in 1..Len(p), NEW k \in 1..Len(p), p[j] \in S, p[k] \in S
             PROVE  j = k
  BY DEF AtMostOne
<1>2. CASE j \in 1..Len(q) /\ k \in 1..Len(q)
  BY <1>1, <1>2 DEF AtMostOne
<1>3. CASE j = Len(q) + 1 /\ k = Len(q) + 1
  BY <1>3
<1>4. CASE j \in 1..Len(q) /\ k = Len(q) + 1
  BY <1>1, <1>4 DEF Messages
<1>5. CASE j = Len(q) + 1 /\ k \in 1..Len(q)
  BY <1>1, <1>5 DEF Messages
<1> QED
  BY <1>1, <1>2, <1>3, <1>4, <1>5

\* What is left in a channel after a receive, and what was received.
LEMMA ReceiveMessages ==
  ASSUME NEW T, NEW q \in Seq(T), q # <<>>
  PROVE  /\ Tail(q) \in Seq(T)
         /\ Head(q) \in T
         /\ Head(q) \in Messages(q)
         /\ Messages(Tail(q)) \subseteq Messages(q)
<1>1. /\ Tail(q) \in Seq(T) /\ Head(q) \in T /\ Head(q) = q[1] /\ Len(q) \in Nat
      /\ Len(q) >= 1 /\ Len(Tail(q)) = Len(q) - 1
      /\ \A k \in 1..Len(Tail(q)) : Tail(q)[k] = q[k + 1] /\ k + 1 \in 1..Len(q)
  OBVIOUS
<1>2. Head(q) \in Messages(q)
  BY <1>1 DEF Messages
<1>3. Messages(Tail(q)) \subseteq Messages(q)
  BY <1>1 DEF Messages
<1> QED
  BY <1>1, <1>2, <1>3

\* A receive keeps at most one message of S, and none after it received one.
LEMMA ReceiveAtMostOne ==
  ASSUME NEW T, NEW q \in Seq(T), q # <<>>, NEW S, AtMostOne(q, S)
  PROVE  /\ AtMostOne(Tail(q), S)
         /\ Head(q) \in S => Messages(Tail(q)) \cap S = {}
<1>1. /\ Head(q) = q[1] /\ Len(q) \in Nat /\ Len(q) >= 1 /\ Len(Tail(q)) = Len(q) - 1
      /\ \A k \in 1..Len(Tail(q)) : Tail(q)[k] = q[k + 1] /\ k + 1 \in 1..Len(q)
  OBVIOUS
<1>2. AtMostOne(Tail(q), S)
  BY <1>1 DEF AtMostOne
<1>3. ASSUME Head(q) \in S, NEW m \in Messages(Tail(q)), m \in S
      PROVE  FALSE
  <2>1. PICK k \in 1..Len(Tail(q)) : m = Tail(q)[k]
    BY <1>3 DEF Messages
  <2>2. q[k + 1] \in S /\ k + 1 \in 1..Len(q) /\ 1 \in 1..Len(q) /\ q[1] \in S
    BY <1>1, <1>3, <2>1
  <2>3. k + 1 = 1
    BY <2>2 DEF AtMostOne
  <2> QED
    BY <2>3
<1> QED
  BY <1>2, <1>3

-----------------------------------------------------------------------------
(* Majorities *)

\* Two majorities of a finite set of servers share a server; so do a majority
\* and any set with as many servers.
LEMMA MajoritiesIntersect ==
  ASSUME NEW N, IsFiniteSet(N), NEW P, NEW Q, P \subseteq N, Q \subseteq N,
         Cardinality(P) >= (Cardinality(N) + 2) \div 2,
         Cardinality(Q) >= (Cardinality(N) + 2) \div 2
  PROVE  \E s \in P : s \in Q
<1>1. Cardinality(N) \in Nat
  BY FS_CardinalityType
<1>2. IsFiniteSet(P) /\ IsFiniteSet(Q) /\ IsFiniteSet(P \cup Q)
  BY FS_Subset, FS_Union
<1>3. Cardinality(P) \in Nat /\ Cardinality(Q) \in Nat /\ Cardinality(P \cup Q) \in Nat
      /\ Cardinality(P \cap Q) \in Nat
  BY <1>2, FS_CardinalityType, FS_Intersection
<1>4. Cardinality(P \cup Q) = Cardinality(P) + Cardinality(Q) - Cardinality(P \cap Q)
  BY <1>2, FS_Union
<1>5. Cardinality(P \cup Q) <= Cardinality(N)
  BY <1>2, FS_Subset
<1>6. Cardinality(P \cap Q) # 0
  BY <1>1, <1>3, <1>4, <1>5
<1>7. P \cap Q # {}
  BY <1>6, FS_EmptySet
<1> QED
  BY <1>7

-----------------------------------------------------------------------------
(* Induction, and functions defined by recursion *)

\* A set of natural numbers that is not empty has a least element.
LEMMA LeastNumber ==
  ASSUME NEW T, T \subseteq Nat, T # {}
  PROVE  \E m \in T : \A n \in T : m <= n
<1>1. PICK m \in T : \A n \in T : ~ (<<n, m>> \in OpToRel(<, Nat))
  BY WFMin, NatLessThanWellFounded
<1>2. \A n \in T : ~ (n < m)
  BY <1>1 DEF OpToRel
<1> QED
  BY <1>2

\* Induction over a set of natural numbers.
LEMMA InductionOverSet ==
  ASSUME NEW S, 0 \in S, \A n \in Nat : n \in S => n + 1 \in S
  PROVE  Nat \subseteq S
<1> SUFFICES ASSUME Nat \ S # {} PROVE FALSE
  OBVIOUS
<1>1. PICK m \in Nat \ S : \A n \in Nat \ S : m <= n
  BY LeastNumber
<1>2. m # 0 /\ m - 1 \in Nat
  BY <1>1
<1>3. m - 1 \in S
  BY <1>1, <1>2
<1> QED
  BY <1>1, <1>2, <1>3

\* f is the loop that goes on with the next argument until it stops.
IsLoop(f, D, Stop, result, next) ==
  f = [x \in D |-> IF x \in Stop THEN result[x] ELSE f[next[x]]]

\* It keeps to the arguments in J, and returns something in R from where it stops.
KeepsTo(J, Stop, next, mu) ==
  \A x \in J \ Stop : next[x] \in J /\ mu[next[x]] < mu[x]
StopsWith(J, Stop, result, R) ==
  \A x \in J \cap Stop : result[x] \in R

\* Such a loop is defined when every argument has a smaller measure than the one
\* before and none has one above N.
LEMMA LoopIsDefined ==
  ASSUME NEW D, NEW Stop, NEW result, NEW next, NEW mu \in [D -> Nat], NEW N \in Nat,
         \A x \in D : mu[x] <= N, KeepsTo(D, Stop, next, mu)
  PROVE  \E f : IsLoop(f, D, Stop, result, next)
<1> DEFINE Step(f, x) == IF x \in Stop THEN result[x] ELSE f[next[x]]
           S == {m \in Nat : \E f : /\ f = [x \in D |-> f[x]]
                                    /\ \A x \in D : mu[x] < m => f[x] = Step(f, x)}
<1>1. 0 \in S
  <2> DEFINE f == [x \in D |-> 0]
  <2>1. f = [x \in D |-> f[x]] /\ \A x \in D : mu[x] < 0 => f[x] = Step(f, x)
    OBVIOUS
  <2> QED
    BY <2>1
<1>2. ASSUME NEW m \in Nat, m \in S PROVE m + 1 \in S
  <2>1. PICK f : /\ f = [x \in D |-> f[x]]
                 /\ \A x \in D : mu[x] < m => f[x] = Step(f, x)
    BY <1>2
  <2> DEFINE g == [x \in D |-> IF mu[x] < m THEN f[x] ELSE Step(f, x)]
  <2>2. g = [x \in D |-> g[x]]
    OBVIOUS
  <2>3. ASSUME NEW x \in D, mu[x] < m + 1 PROVE g[x] = Step(g, x)
    <3>1. g[x] = Step(f, x)
      BY <2>1
    <3>2. CASE x \in Stop
      BY <3>1, <3>2
    <3>3. CASE x \notin Stop
      <4>1. next[x] \in D /\ mu[next[x]] < m
        BY <2>3, <3>3 DEF KeepsTo
      <4>2. g[next[x]] = f[next[x]]
        BY <4>1
      <4> HIDE DEF g
      <4> QED
        BY <3>1, <3>3, <4>2
    <3> QED
      BY <3>2, <3>3
  <2> HIDE DEF g, Step
  <2>4. \E h : h = [x \in D |-> h[x]] /\ \A x \in D : mu[x] < m + 1 => h[x] = Step(h, x)
    BY <2>2, <2>3
  <2> QED
    BY <2>4
<1>3. N + 1 \in S
  <2> HIDE DEF S
  <2> QED
    BY <1>1, <1>2, InductionOverSet
<1>4. PICK f : f = [x \in D |-> f[x]] /\ \A x \in D : mu[x] < N + 1 => f[x] = Step(f, x)
  BY <1>3
<1>5. \A x \in D : f[x] = Step(f, x)
  BY <1>4
<1>6. f = [x \in D |-> Step(f, x)]
  BY <1>4, <1>5
<1> QED
  BY <1>6 DEF IsLoop

\* What such a loop returns from the arguments it keeps to.
LEMMA LoopReturns ==
  ASSUME NEW D, NEW Stop, NEW result, NEW next, NEW mu \in [D -> Nat], NEW f,
         IsLoop(f, D, Stop, result, next),
         NEW J \in SUBSET D, NEW R,
         KeepsTo(J, Stop, next, mu), StopsWith(J, Stop, result, R)
  PROVE  \A x \in J : f[x] \in R
<1> DEFINE Bad == {x \in J : f[x] \notin R}
           T == {mu[x] : x \in Bad}
<1> SUFFICES ASSUME T # {} PROVE FALSE
  OBVIOUS
<1>1. T \subseteq Nat
  OBVIOUS
<1>2. PICK m \in T : \A n \in T : m <= n
  <2> HIDE DEF T
  <2> QED
    BY <1>1, LeastNumber
<1>3. PICK x \in Bad : m = mu[x]
  OBVIOUS
<1>4. f[x] = IF x \in Stop THEN result[x] ELSE f[next[x]]
  BY DEF IsLoop
<1>5. x \notin Stop
  BY <1>4 DEF StopsWith
<1>6. next[x] \in Bad /\ mu[next[x]] < mu[x]
  BY <1>4, <1>5 DEF KeepsTo
<1>7. m <= mu[next[x]] /\ mu[next[x]] \in Nat
  BY <1>2, <1>6
<1> QED
  BY <1>3, <1>6, <1>7

-----------------------------------------------------------------------------
(* Sorted sequences and running values *)

\* What holds from each place to the next in a transitive relation L holds from a
\* place to every later one.
LEMMA SortedThroughout ==
  ASSUME NEW n \in Nat, NEW V, NEW t \in [1..n -> V], NEW L,
         \A v \in V : <<v, v>> \in L,
         \A u, v, w \in V : <<u, v>> \in L /\ <<v, w>> \in L => <<u, w>> \in L,
         \A i \in 1..(n - 1) : <<t[i], t[i + 1]>> \in L
  PROVE  \A i, j \in 1..n : i <= j => <<t[i], t[j]>> \in L
<1> DEFINE S == {d \in Nat : \A i \in 1..n : i + d <= n => <<t[i], t[i + d]>> \in L}
<1>1. 0 \in S
  OBVIOUS
<1>2. ASSUME NEW d \in Nat, d \in S PROVE d + 1 \in S
  <2>1. ASSUME NEW i \in 1..n, i + (d + 1) <= n
        PROVE  <<t[i], t[i + (d + 1)]>> \in L
    <3>1. <<t[i], t[i + d]>> \in L
      BY <1>2, <2>1
    <3>2. i + d \in 1..(n - 1) /\ (i + d) + 1 = i + (d + 1)
      BY <2>1
    <3>3. <<t[i + d], t[i + (d + 1)]>> \in L
      BY <3>2
    <3>4. t[i] \in V /\ t[i + d] \in V /\ t[i + (d + 1)] \in V
      BY <3>2, <2>1
    <3> QED
      BY <3>1, <3>3, <3>4
  <2> QED
    BY <2>1
<1>3. Nat \subseteq S
  <2> HIDE DEF S
  <2> QED
    BY <1>1, <1>2, InductionOverSet
<1>4. ASSUME NEW i \in 1..n, NEW j \in 1..n, i <= j PROVE <<t[i], t[j]>> \in L
  <2>1. j - i \in Nat /\ i + (j - i) = j
    BY <1>4
  <2>2. j - i \in S
    <3> HIDE DEF S
    <3> QED
      BY <1>3, <2>1
  <2> QED
    BY <2>1, <2>2
<1> QED
  BY <1>4

\* A loop over 1..n that makes a new value of each index and the value before.
IsRun(f, n, v0, step) ==
  f[0] = v0 /\ \A i \in 1..n : f[i] = step[<<i, f[i - 1]>>]

LEMMA RunIsDefined ==
  ASSUME NEW n \in Nat, NEW V, NEW v0 \in V, NEW step \in [(1..n) \X V -> V]
  PROVE  \E f \in [0..n -> V] : IsRun(f, n, v0, step)
<1> DEFINE S == {m \in Nat : \E f \in [0..n -> V] :
                   /\ f[0] = v0
                   /\ \A i \in 1..n : i <= m => f[i] = step[<<i, f[i - 1]>>]}
<1>1. 0 \in S
  <2> DEFINE f == [i \in 0..n |-> v0]
  <2>1. f \in [0..n -> V] /\ f[0] = v0 /\ \A i \in 1..n : ~ (i <= 0)
    OBVIOUS
  <2> HIDE DEF f
  <2> QED
    BY <2>1
<1>2. ASSUME NEW m \in Nat, m \in S PROVE m + 1 \in S
  <2>1. PICK f \in [0..n -> V] :
          f[0] = v0 /\ \A i \in 1..n : i <= m => f[i] = step[<<i, f[i - 1]>>]
    BY <1>2
  <2> DEFINE g == [i \in 0..n |-> IF i <= m THEN f[i] ELSE
                     IF i = m + 1 THEN step[<<i, f[m]>>] ELSE v0]
  <2>2. g \in [0..n -> V] /\ g[0] = v0
    BY <2>1
  <2>3. ASSUME NEW i \in 1..n, i <= m + 1 PROVE g[i] = step[<<i, g[i - 1]>>]
    <3>1. CASE i <= m
      BY <2>1, <3>1
    <3>2. CASE i = m + 1
      BY <2>1, <3>2
    <3> QED
      BY <2>3, <3>1, <3>2
  <2> HIDE DEF g
  <2> QED
    BY <2>2, <2>3
<1>3. n \in S
  <2> HIDE DEF S
  <2> QED
    BY <1>1, <1>2, InductionOverSet
<1>4. PICK f \in [0..n -> V] :
        f[0] = v0 /\ \A i \in 1..n : i <= n => f[i] = step[<<i, f[i - 1]>>]
  BY <1>3
<1> QED
  BY <1>4 DEF IsRun
=============================================================================
