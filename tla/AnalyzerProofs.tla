--------------------------- MODULE AnalyzerProofs ---------------------------
(***************************************************************************)
(* Proofs about SafetyAnalyzer: what its loops and its two binary searches *)
(* return, for sequences of every length, and from that what each check    *)
(* says of the log, whatever order the unstable sort leaves.               *)
(***************************************************************************)
EXTENDS SafetyAnalyzer, StoreLemmas

-----------------------------------------------------------------------------
(* BinarySearchP1 (safetyAnalyzer.go 352-385) *)

Nondecreasing(times, n) == \A i, j \in 1..n : i <= j => times[i] <= times[j]

\* No two of the times are value.
NoTie(times, n, value) ==
  \A i, j \in 1..n : times[i] = value /\ times[j] = value => i = j

\* The search stops; what it returns then; where it goes on otherwise; and how far
\* it is from its end.
MedianP1(x) == (x[1] + x[2]) \div 2
StopP1(x) == x[1] > x[2] \/ MedianP1(x) = x[3]
ResultP1(x) == IF x[1] > x[2] THEN IF x[1] = 0 THEN 0 ELSE x[1] - 1 ELSE x[3]
NextP1(times, value, x) ==
  IF times[MedianP1(x) + 1] = value THEN <<MedianP1(x), x[2], MedianP1(x)>>
  ELSE IF times[MedianP1(x) + 1] < value THEN <<MedianP1(x) + 1, x[2], MedianP1(x)>>
  ELSE <<x[1], MedianP1(x) - 1, MedianP1(x)>>
LeftP1(x) ==
  IF x[1] > x[2] THEN 0
  ELSE 2 * (x[2] - x[1] + 1) + IF MedianP1(x) = x[3] THEN 0 ELSE 1

ArgumentsP1(n) == (0..n) \X (-1..(n - 1)) \X (0..(n - 1))
StopsP1(n) == {x \in ArgumentsP1(n) : StopP1(x)}
ResultsP1(n) == [x \in ArgumentsP1(n) |-> ResultP1(x)]
NextsP1(n, times, value) == [x \in ArgumentsP1(n) |-> NextP1(times, value, x)]

\* The median lies between start and end.
LEMMA MedianBetween ==
  ASSUME NEW s \in Nat, NEW e \in Nat, s <= e
  PROVE  (s + e) \div 2 \in s..e
OBVIOUS

\* Every turn brings the search nearer to its end: also one that finds the value,
\* as it does not halve the range but the next turn has another median or ends.
LEMMA SearchP1Turns ==
  ASSUME NEW n \in Nat, NEW times \in [1..n -> Nat], NEW value \in Nat,
         NEW x \in ArgumentsP1(n)
  PROVE  /\ LeftP1(x) \in Nat /\ LeftP1(x) <= 2 * n + 1
         /\ ~ StopP1(x) => /\ NextP1(times, value, x) \in ArgumentsP1(n)
                           /\ LeftP1(NextP1(times, value, x)) < LeftP1(x)
<1>1. PICK s \in 0..n, e \in -1..(n - 1), l \in 0..(n - 1) : x = <<s, e, l>>
  BY DEF ArgumentsP1
<1>2. x[1] = s /\ x[2] = e /\ x[3] = l
  BY <1>1
<1>3. LeftP1(x) \in Nat /\ LeftP1(x) <= 2 * n + 1
  BY <1>2 DEF LeftP1
<1>4. ASSUME ~ StopP1(x)
      PROVE  /\ NextP1(times, value, x) \in ArgumentsP1(n)
             /\ LeftP1(NextP1(times, value, x)) < LeftP1(x)
  <2> DEFINE m == (s + e) \div 2
  <2>1. s <= e /\ m # l /\ MedianP1(x) = m
    BY <1>2, <1>4 DEF StopP1, MedianP1
  <2>2. m \in s..e
    BY <2>1, MedianBetween
  <2>3. m \in 0..(n - 1) /\ m + 1 \in 0..n /\ m - 1 \in -1..(n - 1)
    BY <2>1, <2>2
  <2>4. LeftP1(x) = 2 * (e - s + 1) + 1
    BY <1>2, <2>1 DEF LeftP1
  <2>5. \/ NextP1(times, value, x) = <<m, e, m>>
        \/ NextP1(times, value, x) = <<m + 1, e, m>>
        \/ NextP1(times, value, x) = <<s, m - 1, m>>
    BY <1>2, <2>1 DEF NextP1
  <2>6. NextP1(times, value, x) \in ArgumentsP1(n)
    <3> HIDE DEF m
    <3>1. /\ <<m, e, m>> \in ArgumentsP1(n)
          /\ <<m + 1, e, m>> \in ArgumentsP1(n)
          /\ <<s, m - 1, m>> \in ArgumentsP1(n)
      <4>0. m + 1 \in 0..n /\ m \in 0..n /\ m - 1 \in -1..(n - 1)
        BY <2>3
      <4>1. <<m, e, m>> \in ArgumentsP1(n)
        BY <2>3, <4>0 DEF ArgumentsP1
      <4>2. <<m + 1, e, m>> \in ArgumentsP1(n)
        BY <2>3, <4>0 DEF ArgumentsP1
      <4>3. <<s, m - 1, m>> \in ArgumentsP1(n)
        BY <2>3, <4>0 DEF ArgumentsP1
      <4> QED
        BY <4>1, <4>2, <4>3
    <3> QED
      BY <2>5, <3>1
  <2>7. LeftP1(<<m + 1, e, m>>) < 2 * (e - s + 1) + 1
    <3> HIDE DEF m
    <3> QED
      BY <2>1, <2>2 DEF LeftP1, MedianP1
  <2>8. LeftP1(<<s, m - 1, m>>) < 2 * (e - s + 1) + 1
    <3> HIDE DEF m
    <3> QED
      BY <2>1, <2>2 DEF LeftP1, MedianP1
  <2>9. LeftP1(<<m, e, m>>) < 2 * (e - s + 1) + 1
    <3>1. CASE m = s
      BY <2>1, <2>2, <3>1 DEF LeftP1, MedianP1
    <3>2. CASE m > s
      <4> HIDE DEF m
      <4> QED
        BY <2>1, <2>2, <3>2 DEF LeftP1, MedianP1
    <3> QED
      BY <2>2, <3>1, <3>2
  <2> QED
    BY <2>4, <2>5, <2>6, <2>7, <2>8, <2>9
<1> QED
  BY <1>3, <1>4

\* The search is a loop of that kind.
LEMMA SearchP1IsLoop ==
  ASSUME NEW n \in Nat \ {0}, NEW times \in [1..n -> Nat], Len(times) = n, NEW value \in Nat
  PROVE  \E f : /\ IsLoop(f, ArgumentsP1(n), StopsP1(n), ResultsP1(n),
                          NextsP1(n, times, value))
                /\ SearchP1(times, value) = f[<<0, n - 1, 0>>]
<1> DEFINE D == ArgumentsP1(n)
           Stop == StopsP1(n)
           result == ResultsP1(n)
           next == NextsP1(n, times, value)
           mu == [x \in D |-> LeftP1(x)]
           Turn(f, x) == IF StopP1(x) THEN ResultP1(x) ELSE f[NextP1(times, value, x)]
           Body(f, x) ==
              IF x[1] > x[2] THEN IF x[1] = 0 THEN 0 ELSE x[1] - 1
              ELSE IF (x[1] + x[2]) \div 2 = x[3] THEN x[3]
              ELSE IF times[(x[1] + x[2]) \div 2 + 1] = value
                   THEN f[<<(x[1] + x[2]) \div 2, x[2], (x[1] + x[2]) \div 2>>]
              ELSE IF times[(x[1] + x[2]) \div 2 + 1] < value
                   THEN f[<<(x[1] + x[2]) \div 2 + 1, x[2], (x[1] + x[2]) \div 2>>]
              ELSE f[<<x[1], (x[1] + x[2]) \div 2 - 1, (x[1] + x[2]) \div 2>>]
           IsTurns(f) == f = [x \in D |-> Turn(f, x)]
           IsSearch(f) == f = [x \in (0..n) \X (-1..(n - 1)) \X (0..(n - 1)) |-> Body(f, x)]
<1>1. PICK f : IsLoop(f, D, Stop, result, next)
  <2>1. mu \in [D -> Nat] /\ \A x \in D : mu[x] <= 2 * n + 1
    BY SearchP1Turns
  <2>2. KeepsTo(D, Stop, next, mu)
    BY SearchP1Turns DEF KeepsTo, StopsP1, NextsP1
  <2>3. PICK N \in Nat : N = 2 * n + 1
    OBVIOUS
  <2>4. mu \in [D -> Nat] /\ \A x \in D : mu[x] <= N
    BY <2>1, <2>3
  <2> HIDE DEF D, Stop, result, next, mu
  <2> QED
    BY <2>2, <2>4, LoopIsDefined
<1>3. \A g : IsLoop(g, D, Stop, result, next) <=> IsTurns(g)
  <2>1. \A g : \A x \in D : (IF x \in Stop THEN result[x] ELSE g[next[x]]) = Turn(g, x)
    BY DEF StopsP1, ResultsP1, NextsP1
  <2>2. \A g : IsLoop(g, D, Stop, result, next) <=>
               g = [x \in D |-> IF x \in Stop THEN result[x] ELSE g[next[x]]]
    <3> HIDE DEF D, Stop, result, next
    <3> QED
      BY DEF IsLoop
  <2> HIDE DEF D, Stop, result, next, Turn
  <2> QED
    BY <2>1, <2>2
<1>4. \A g : IsTurns(g) <=> IsSearch(g)
  <2>1. \A g : \A x \in D : Turn(g, x) = Body(g, x)
    BY DEF StopP1, ResultP1, NextP1, MedianP1
  <2>2. D = (0..n) \X (-1..(n - 1)) \X (0..(n - 1))
    BY DEF ArgumentsP1
  <2> HIDE DEF D, Turn, Body
  <2> QED
    BY <2>1, <2>2
<1> DEFINE F == CHOOSE g : IsSearch(g)
<1>5. SearchP1(times, value) = F[<<0, n - 1, 0>>]
  BY DEF SearchP1
<1>6. IsSearch(F)
  <2> HIDE DEF IsSearch, IsTurns
  <2>1. IsSearch(f)
    BY <1>1, <1>3, <1>4
  <2> QED
    BY <2>1
<1>7. IsLoop(F, D, Stop, result, next)
  <2> HIDE DEF IsSearch, IsTurns, F, D, Stop, result, next
  <2> QED
    BY <1>3, <1>4, <1>6
<1> QED
  <2> HIDE DEF F
  <2> QED
    BY <1>5, <1>7

\* What the arguments of a turn tell of the times: those before start are not above
\* value, those after end are; and last is in the range only when value was found
\* there or nothing was looked at yet.
InSearchP1(n, times, value) ==
  {x \in ArgumentsP1(n) :
     /\ x[1] <= x[2] + 1
     /\ \A k \in 1..n : k <= x[1] => times[k] <= value
     /\ \A k \in 1..n : k > x[2] + 1 => value < times[k]
     /\ x[1] <= x[3] /\ x[3] <= x[2] =>
          \/ times[x[3] + 1] = value
          \/ x[1] = 0 /\ x[2] = n - 1 /\ x[3] = 0}

\* The places that are not above value and, without a tie, are the last such.
LastNotAbove(n, times, value) ==
  {r \in 0..(n - 1) :
     /\ times[r + 1] <= value
     /\ NoTie(times, n, value) /\ value < times[n] =>
          \A k \in 1..n : k > r + 1 => value < times[k]}

LEMMA SearchP1Stays ==
  ASSUME NEW n \in Nat \ {0}, NEW times \in [1..n -> Nat], NEW value \in Nat,
         Nondecreasing(times, n), NEW x \in InSearchP1(n, times, value), ~ StopP1(x)
  PROVE  NextP1(times, value, x) \in InSearchP1(n, times, value)
<1> DEFINE y == NextP1(times, value, x)
<1>1. PICK s \in 0..n, e \in -1..(n - 1), l \in 0..(n - 1) : x = <<s, e, l>>
  BY DEF ArgumentsP1, InSearchP1
<1>2. x[1] = s /\ x[2] = e /\ x[3] = l
  BY <1>1
<1>3. /\ \A k \in 1..n : k <= s => times[k] <= value
      /\ \A k \in 1..n : k > e + 1 => value < times[k]
  BY <1>2 DEF InSearchP1
<1>4. PICK m : m = (s + e) \div 2
  OBVIOUS
<1>5. s <= e /\ MedianP1(x) = m
  BY <1>2, <1>4 DEF StopP1, MedianP1
<1>6. m \in s..e
  BY <1>4, <1>5, MedianBetween
<1>7. m \in 0..(n - 1) /\ m + 1 \in 1..n /\ m + 1 \in 0..n /\ m - 1 \in -1..(n - 1)
  BY <1>5, <1>6
<1>8. CASE times[m + 1] = value
  <2>1. y = <<m, e, m>>
    BY <1>2, <1>5, <1>8 DEF NextP1
  <2>2. \A k \in 1..n : k <= m => times[k] <= value
    BY <1>7, <1>8 DEF Nondecreasing
  <2>3. y \in ArgumentsP1(n) /\ y[1] = m /\ y[2] = e /\ y[3] = m
    BY <1>7, <2>1 DEF ArgumentsP1
  <2>4. y \in InSearchP1(n, times, value)
    <3> HIDE DEF y
    <3> QED
      BY <1>3, <1>6, <1>8, <2>2, <2>3 DEF InSearchP1
  <2> QED
    BY <2>4
<1>9. CASE times[m + 1] < value
  <2>1. y = <<m + 1, e, m>>
    BY <1>2, <1>5, <1>7, <1>9 DEF NextP1
  <2>2. \A k \in 1..n : k <= m + 1 => times[k] <= value
    BY <1>7, <1>9 DEF Nondecreasing
  <2>3. y \in ArgumentsP1(n) /\ y[1] = m + 1 /\ y[2] = e /\ y[3] = m
    BY <1>7, <2>1 DEF ArgumentsP1
  <2>4. y \in InSearchP1(n, times, value)
    <3> HIDE DEF y
    <3>1. y[1] <= y[2] + 1 /\ ~ (y[1] <= y[3])
      BY <1>6, <2>3
    <3>2. \A k \in 1..n : k <= y[1] => times[k] <= value
      BY <2>2, <2>3
    <3>3. \A k \in 1..n : k > y[2] + 1 => value < times[k]
      BY <1>3, <2>3
    <3> QED
      BY <2>3, <3>1, <3>2, <3>3 DEF InSearchP1
  <2> QED
    BY <2>4
<1>10. CASE value < times[m + 1]
  <2>1. y = <<s, m - 1, m>>
    BY <1>2, <1>5, <1>7, <1>10 DEF NextP1
  <2>2. \A k \in 1..n : k > m => value < times[k]
    BY <1>7, <1>10 DEF Nondecreasing
  <2>3. y \in ArgumentsP1(n) /\ y[1] = s /\ y[2] = m - 1 /\ y[3] = m
    BY <1>7, <2>1 DEF ArgumentsP1
  <2>4. y \in InSearchP1(n, times, value)
    <3> HIDE DEF y
    <3> QED
      BY <1>3, <1>6, <2>2, <2>3 DEF InSearchP1
  <2> QED
    BY <2>4
<1>11. times[m + 1] \in Nat
  BY <1>7
<1> QED
  BY <1>8, <1>9, <1>10, <1>11

LEMMA SearchP1Ends ==
  ASSUME NEW n \in Nat \ {0}, NEW times \in [1..n -> Nat], NEW value \in Nat,
         Nondecreasing(times, n), times[1] <= value,
         NEW x \in InSearchP1(n, times, value), StopP1(x)
  PROVE  ResultP1(x) \in LastNotAbove(n, times, value)
<1>1. PICK s \in 0..n, e \in -1..(n - 1), l \in 0..(n - 1) : x = <<s, e, l>>
  BY DEF ArgumentsP1, InSearchP1
<1>2. x[1] = s /\ x[2] = e /\ x[3] = l
  BY <1>1
<1>3. /\ s <= e + 1
      /\ \A k \in 1..n : k <= s => times[k] <= value
      /\ \A k \in 1..n : k > e + 1 => value < times[k]
      /\ s <= l /\ l <= e => times[l + 1] = value \/ (s = 0 /\ e = n - 1 /\ l = 0)
  BY <1>2 DEF InSearchP1
<1>4. CASE s > e
  <2>1. s = e + 1 /\ s # 0
    BY <1>3, <1>4
  <2>2. ResultP1(x) = s - 1
    BY <1>2, <1>4, <2>1 DEF ResultP1
  <2>3. s - 1 \in 0..(n - 1) /\ (s - 1) + 1 = s /\ s \in 1..n
    BY <2>1
  <2> QED
    BY <1>3, <2>1, <2>2, <2>3 DEF LastNotAbove
<1>5. CASE s <= e
  <2>1. l = (s + e) \div 2 /\ ResultP1(x) = l
    BY <1>2, <1>5 DEF StopP1, ResultP1, MedianP1
  <2>2. l \in s..e
    BY <1>5, <2>1, MedianBetween
  <2>3. l + 1 \in 1..n /\ times[l + 1] <= value
    BY <1>3, <2>2
  <2>4. ASSUME NoTie(times, n, value), value < times[n], NEW k \in 1..n, k > l + 1
        PROVE  value < times[k]
    <3>1. CASE times[l + 1] = value
      <4>1. times[k] >= value /\ times[k] # value
        BY <2>3, <2>4, <3>1 DEF Nondecreasing, NoTie
      <4> QED
        BY <4>1
    <3>2. CASE s = 0 /\ e = n - 1 /\ l = 0
      <4>1. n - 1 \in {0, 1}
        BY <2>1, <3>2
      <4>2. k = n
        BY <2>4, <3>2, <4>1
      <4> QED
        BY <2>4, <4>2
    <3> QED
      BY <1>3, <2>2, <3>1, <3>2
  <2> QED
    BY <2>1, <2>3, <2>4 DEF LastNotAbove
<1> QED
  BY <1>4, <1>5

\* BinarySearchP1 returns -1 when all times are above value, and otherwise a place
\* that is not above it; the last such place unless two of the times are value. (The
\* last time must be above value: where it is called, the operation that started
\* at value ended later.)
LEMMA BinarySearchP1Finds ==
  ASSUME NEW n \in Nat \ {0}, NEW times \in [1..n -> Nat], Len(times) = n, NEW value \in Nat,
         Nondecreasing(times, n)
  PROVE  \/ /\ BinarySearchP1(times, value) = -1
            /\ \A k \in 1..n : value < times[k]
         \/ BinarySearchP1(times, value) \in LastNotAbove(n, times, value)
<1>1. CASE value < times[1]
  <2>1. BinarySearchP1(times, value) = -1
    BY <1>1 DEF BinarySearchP1
  <2>2. \A k \in 1..n : times[1] <= times[k]
    BY DEF Nondecreasing
  <2> QED
    BY <1>1, <2>1, <2>2
<1>2. CASE times[1] <= value
  <2>1. BinarySearchP1(times, value) = SearchP1(times, value)
    BY <1>2 DEF BinarySearchP1
  <2>2. PICK f : /\ IsLoop(f, ArgumentsP1(n), StopsP1(n), ResultsP1(n), NextsP1(n, times, value))
                 /\ SearchP1(times, value) = f[<<0, n - 1, 0>>]
    BY SearchP1IsLoop
  <2> DEFINE D == ArgumentsP1(n)
             Stop == StopsP1(n)
             result == ResultsP1(n)
             next == NextsP1(n, times, value)
             mu == [x \in D |-> LeftP1(x)]
             J == InSearchP1(n, times, value)
             R == LastNotAbove(n, times, value)
  <2>3. J \in SUBSET D
    BY DEF InSearchP1
  <2>4. KeepsTo(J, Stop, next, mu)
    BY <2>3, SearchP1Stays, SearchP1Turns DEF KeepsTo, StopsP1, NextsP1
  <2>5. StopsWith(J, Stop, result, R)
    BY <1>2, <2>3, SearchP1Ends DEF StopsWith, StopsP1, ResultsP1
  <2>6. mu \in [D -> Nat]
    BY SearchP1Turns
  <2>7. <<0, n - 1, 0>> \in J
    BY DEF InSearchP1, ArgumentsP1
  <2>8. f[<<0, n - 1, 0>>] \in R
    <3>1. \A x \in J : f[x] \in R
      <4>1. IsLoop(f, D, Stop, result, next)
        BY <2>2
      <4> HIDE DEF D, Stop, result, next, mu, J, R
      <4> QED
        BY <2>3, <2>4, <2>5, <2>6, <4>1, LoopReturns
    <3> QED
      BY <2>7, <3>1
  <2> QED
    BY <2>1, <2>2, <2>8
<1>3. times[1] \in Nat
  OBVIOUS
<1> QED
  BY <1>1, <1>2, <1>3

-----------------------------------------------------------------------------
(* BinarySearchP3 (safetyAnalyzer.go 324-350) *)

SortedTags(tags, n) == \A i, j \in 1..n : i <= j => AtLeast(tags[j], tags[i])

MedianP3(x) == (x[1] + x[2]) \div 2
Above(tags, tag, x) == isGreaterTag(tag, tags[MedianP3(x) + 1])
Below(tags, tag, x) == isGreaterTag(tags[MedianP3(x) + 1], tag)
StopP3(tags, tag, x) == x[1] > x[2] \/ (~ Above(tags, tag, x) /\ ~ Below(tags, tag, x))
NextP3(tags, tag, x) ==
  IF Above(tags, tag, x) THEN <<MedianP3(x) + 1, x[2]>> ELSE <<x[1], MedianP3(x) - 1>>
LeftP3(x) == IF x[1] > x[2] THEN 0 ELSE x[2] - x[1] + 1

ArgumentsP3(n) == (0..n) \X (-1..(n - 1))
StopsP3(n, tags, tag) == {x \in ArgumentsP3(n) : StopP3(tags, tag, x)}
ResultsP3(n) == [x \in ArgumentsP3(n) |-> IF x[1] > x[2] THEN FALSE ELSE TRUE]
NextsP3(n, tags, tag) == [x \in ArgumentsP3(n) |-> NextP3(tags, tag, x)]

LEMMA SearchP3Turns ==
  ASSUME NEW n \in Nat, NEW tags, NEW tag, NEW x \in ArgumentsP3(n)
  PROVE  /\ LeftP3(x) \in Nat /\ LeftP3(x) <= n
         /\ ~ StopP3(tags, tag, x) =>
              /\ NextP3(tags, tag, x) \in ArgumentsP3(n)
              /\ LeftP3(NextP3(tags, tag, x)) < LeftP3(x)
<1>1. PICK s \in 0..n, e \in -1..(n - 1) : x = <<s, e>>
  BY DEF ArgumentsP3
<1>2. x[1] = s /\ x[2] = e
  BY <1>1
<1>3. LeftP3(x) \in Nat /\ LeftP3(x) <= n
  BY <1>2 DEF LeftP3
<1>4. ASSUME ~ StopP3(tags, tag, x)
      PROVE  /\ NextP3(tags, tag, x) \in ArgumentsP3(n)
             /\ LeftP3(NextP3(tags, tag, x)) < LeftP3(x)
  <2>1. PICK m : m = (s + e) \div 2
    OBVIOUS
  <2>2. s <= e /\ MedianP3(x) = m
    BY <1>2, <1>4, <2>1 DEF StopP3, MedianP3
  <2>3. m \in s..e
    BY <2>1, <2>2, MedianBetween
  <2>4. m + 1 \in 0..n /\ m - 1 \in -1..(n - 1)
    BY <2>2, <2>3
  <2>5. NextP3(tags, tag, x) = <<m + 1, e>> \/ NextP3(tags, tag, x) = <<s, m - 1>>
    BY <1>2, <2>2 DEF NextP3
  <2>6. NextP3(tags, tag, x) \in ArgumentsP3(n)
    BY <2>4, <2>5 DEF ArgumentsP3
  <2>7. LeftP3(<<m + 1, e>>) < LeftP3(x) /\ LeftP3(<<s, m - 1>>) < LeftP3(x)
    BY <1>2, <2>2, <2>3 DEF LeftP3
  <2> QED
    BY <2>5, <2>6, <2>7
<1> QED
  BY <1>3, <1>4

LEMMA SearchP3IsLoop ==
  ASSUME NEW n \in Nat, NEW tags, Len(tags) = n, NEW tag
  PROVE  \E f : /\ IsLoop(f, ArgumentsP3(n), StopsP3(n, tags, tag), ResultsP3(n),
                          NextsP3(n, tags, tag))
                /\ BinarySearchP3(tags, tag) = f[<<0, n - 1>>]
<1> DEFINE D == ArgumentsP3(n)
           Stop == StopsP3(n, tags, tag)
           result == ResultsP3(n)
           next == NextsP3(n, tags, tag)
           mu == [x \in D |-> LeftP3(x)]
           Turn(f, x) ==
             IF StopP3(tags, tag, x) THEN (IF x[1] > x[2] THEN FALSE ELSE TRUE)
             ELSE f[NextP3(tags, tag, x)]
           Body(f, x) ==
             IF x[1] > x[2] THEN FALSE
             ELSE IF isGreaterTag(tag, tags[(x[1] + x[2]) \div 2 + 1])
                  THEN f[<<(x[1] + x[2]) \div 2 + 1, x[2]>>]
             ELSE IF isGreaterTag(tags[(x[1] + x[2]) \div 2 + 1], tag)
                  THEN f[<<x[1], (x[1] + x[2]) \div 2 - 1>>]
             ELSE TRUE
           IsTurns(f) == f = [x \in D |-> Turn(f, x)]
           IsSearch(f) == f = [x \in (0..n) \X (-1..(n - 1)) |-> Body(f, x)]
<1>1. PICK f : IsLoop(f, D, Stop, result, next)
  <2>1. mu \in [D -> Nat] /\ \A x \in D : mu[x] <= n
    BY SearchP3Turns
  <2>2. KeepsTo(D, Stop, next, mu)
    BY SearchP3Turns DEF KeepsTo, StopsP3, NextsP3
  <2> HIDE DEF D, Stop, result, next, mu
  <2> QED
    BY <2>1, <2>2, LoopIsDefined
<1>2. \A g : IsLoop(g, D, Stop, result, next) <=> IsTurns(g)
  <2>1. \A g : \A x \in D : (IF x \in Stop THEN result[x] ELSE g[next[x]]) = Turn(g, x)
    BY DEF StopsP3, ResultsP3, NextsP3
  <2>2. \A g : IsLoop(g, D, Stop, result, next) <=>
               g = [x \in D |-> IF x \in Stop THEN result[x] ELSE g[next[x]]]
    <3> HIDE DEF D, Stop, result, next
    <3> QED
      BY DEF IsLoop
  <2> HIDE DEF D, Stop, result, next, Turn
  <2> QED
    BY <2>1, <2>2
<1>3. \A g : IsTurns(g) <=> IsSearch(g)
  <2>1. \A g : \A x \in D : Turn(g, x) = Body(g, x)
    BY DEF StopP3, NextP3, MedianP3, Above, Below
  <2>2. D = (0..n) \X (-1..(n - 1))
    BY DEF ArgumentsP3
  <2> HIDE DEF D, Turn, Body
  <2> QED
    BY <2>1, <2>2
<1> DEFINE F == CHOOSE g : IsSearch(g)
<1>4. BinarySearchP3(tags, tag) = F[<<0, n - 1>>]
  BY DEF BinarySearchP3
<1>5. IsSearch(F)
  <2> HIDE DEF IsSearch, IsTurns, D, Stop, result, next
  <2>1. IsSearch(f)
    BY <1>1, <1>2, <1>3
  <2> QED
    BY <2>1
<1>6. IsLoop(F, D, Stop, result, next)
  <2> HIDE DEF IsSearch, IsTurns, F, D, Stop, result, next
  <2> QED
    BY <1>2, <1>3, <1>5
<1> QED
  <2> HIDE DEF F
  <2> QED
    BY <1>4, <1>6

\* The tag is nowhere but in the range.
InSearchP3(n, tags, tag) ==
  {x \in ArgumentsP3(n) : \A k \in 1..n : tags[k] = tag => x[1] < k /\ k <= x[2] + 1}

FoundIn(n, tags, tag) == {b \in BOOLEAN : b <=> \E k \in 1..n : tags[k] = tag}

LEMMA SearchP3Stays ==
  ASSUME NEW n \in Nat, NEW tags \in [1..n -> Tag], NEW tag \in Tag, SortedTags(tags, n),
         NEW x \in InSearchP3(n, tags, tag), ~ StopP3(tags, tag, x)
  PROVE  NextP3(tags, tag, x) \in InSearchP3(n, tags, tag)
<1>1. PICK s \in 0..n, e \in -1..(n - 1) : x = <<s, e>>
  BY DEF ArgumentsP3, InSearchP3
<1>2. x[1] = s /\ x[2] = e /\ \A k \in 1..n : tags[k] = tag => s < k /\ k <= e + 1
  BY <1>1 DEF InSearchP3
<1>3. PICK m : m = (s + e) \div 2
  OBVIOUS
<1>4. s <= e /\ MedianP3(x) = m
  BY <1>2, <1>3 DEF StopP3, MedianP3
<1>5. m \in s..e /\ m + 1 \in 1..n
  BY <1>3, <1>4, MedianBetween
<1>6. NextP3(tags, tag, x) \in ArgumentsP3(n)
  BY SearchP3Turns DEF InSearchP3
<1>7. tags[m + 1] \in AnyTag /\ tag \in AnyTag
  BY <1>5 DEF AnyTag
<1>8. CASE Above(tags, tag, x)
  <2>1. NextP3(tags, tag, x) = <<m + 1, e>> /\ isGreaterTag(tag, tags[m + 1])
    BY <1>2, <1>4, <1>8 DEF NextP3, Above
  <2>2. ASSUME NEW k \in 1..n, tags[k] = tag PROVE m + 1 < k
    <3>1. ~ AtLeast(tags[m + 1], tag)
      BY <1>7, <2>1, TagTotal
    <3> QED
      BY <1>5, <2>2, <3>1 DEF SortedTags
  <2> QED
    BY <1>2, <1>6, <2>1, <2>2 DEF InSearchP3
<1>9. CASE ~ Above(tags, tag, x)
  <2>1. NextP3(tags, tag, x) = <<s, m - 1>> /\ isGreaterTag(tags[m + 1], tag)
    BY <1>2, <1>4, <1>9 DEF NextP3, Below, StopP3
  <2>2. ASSUME NEW k \in 1..n, tags[k] = tag PROVE k <= m
    <3>1. ~ AtLeast(tag, tags[m + 1])
      BY <1>7, <2>1, TagTotal
    <3> QED
      BY <1>5, <2>2, <3>1 DEF SortedTags
  <2>3. m \in Int
    BY <1>5
  <2> QED
    BY <1>2, <1>6, <2>1, <2>2, <2>3 DEF InSearchP3
<1> QED
  BY <1>8, <1>9

LEMMA SearchP3Ends ==
  ASSUME NEW n \in Nat, NEW tags \in [1..n -> Tag], NEW tag \in Tag,
         NEW x \in InSearchP3(n, tags, tag), StopP3(tags, tag, x)
  PROVE  (IF x[1] > x[2] THEN FALSE ELSE TRUE) \in FoundIn(n, tags, tag)
<1>1. PICK s \in 0..n, e \in -1..(n - 1) : x = <<s, e>>
  BY DEF ArgumentsP3, InSearchP3
<1>2. x[1] = s /\ x[2] = e /\ \A k \in 1..n : tags[k] = tag => s < k /\ k <= e + 1
  BY <1>1 DEF InSearchP3
<1>3. CASE s > e
  <2>1. ~ \E k \in 1..n : tags[k] = tag
    BY <1>2, <1>3
  <2>2. FALSE \in FoundIn(n, tags, tag)
    BY <2>1 DEF FoundIn
  <2>3. (IF x[1] > x[2] THEN FALSE ELSE TRUE) = FALSE
    BY <1>2, <1>3
  <2> QED
    BY <2>2, <2>3
<1>4. CASE s <= e
  <2>1. PICK m : m = (s + e) \div 2
    OBVIOUS
  <2>2. m \in s..e /\ m + 1 \in 1..n /\ MedianP3(x) = m
    BY <1>2, <1>4, <2>1, MedianBetween DEF MedianP3
  <2>3. AtLeast(tags[m + 1], tag) /\ AtLeast(tag, tags[m + 1])
    BY <1>2, <1>4, <2>2 DEF StopP3, Above, Below, AtLeast
  <2>4. tags[m + 1] = tag
    BY <2>2, <2>3, TagTotal DEF AnyTag
  <2> QED
    BY <1>2, <1>4, <2>2, <2>4 DEF FoundIn
<1>5. s > e \/ s <= e
  OBVIOUS
<1> QED
  BY <1>3, <1>4, <1>5, Zenon

\* BinarySearchP3 finds a tag exactly when it is among the sorted tags.
LEMMA BinarySearchP3Finds ==
  ASSUME NEW n \in Nat, NEW tags \in [1..n -> Tag], Len(tags) = n, NEW tag \in Tag,
         SortedTags(tags, n)
  PROVE  BinarySearchP3(tags, tag) <=> \E k \in 1..n : tags[k] = tag
<1>1. PICK f : /\ IsLoop(f, ArgumentsP3(n), StopsP3(n, tags, tag), ResultsP3(n),
                         NextsP3(n, tags, tag))
               /\ BinarySearchP3(tags, tag) = f[<<0, n - 1>>]
  BY SearchP3IsLoop
<1> DEFINE D == ArgumentsP3(n)
           Stop == StopsP3(n, tags, tag)
           result == ResultsP3(n)
           next == NextsP3(n, tags, tag)
           mu == [x \in D |-> LeftP3(x)]
           J == InSearchP3(n, tags, tag)
           R == FoundIn(n, tags, tag)
<1>2. J \in SUBSET D
  BY DEF InSearchP3
<1>3. KeepsTo(J, Stop, next, mu)
  BY <1>2, SearchP3Stays, SearchP3Turns DEF KeepsTo, StopsP3, NextsP3
<1>4. StopsWith(J, Stop, result, R)
  BY <1>2, SearchP3Ends DEF StopsWith, StopsP3, ResultsP3
<1>5. mu \in [D -> Nat]
  BY SearchP3Turns
<1>6. <<0, n - 1>> \in J
  BY DEF InSearchP3, ArgumentsP3
<1>7. IsLoop(f, D, Stop, result, next)
  BY <1>1
<1>8. \A x \in J : f[x] \in R
  <2> HIDE DEF D, Stop, result, next, mu, J, R
  <2> QED
    BY <1>2, <1>3, <1>4, <1>5, <1>7, LoopReturns
<1>9. BinarySearchP3(tags, tag) \in R
  BY <1>1, <1>6, <1>8
<1> QED
  BY <1>9 DEF FoundIn

-----------------------------------------------------------------------------
(* The sorted orders, the running maximum and the tags of the writes *)

\* An order of the indices of ops: a permutation.
Permutations1(n) ==
  {p \in [1..n -> 1..n] : /\ \A i, j \in 1..n : p[i] = p[j] => i = j
                          /\ \A k \in 1..n : \E i \in 1..n : p[i] = k}

LEMMA SortedPermutes ==
  ASSUME NEW ops, NEW n \in Nat, Len(ops) = n, n <= MaxLines, NEW key, NEW p \in Sorted(ops, key)
  PROVE  /\ p \in Permutations1(n)
         /\ Len(p) = n
         /\ \A i \in 1..(n - 1) : ~ Less(key, ops[p[i + 1]], ops[p[i]])
<1>1. IsFiniteSet(1..n) /\ Cardinality(1..n) = n
  BY FS_Interval
<1>2. p \in SetToSeqs(1..n)
  BY DataAssumption DEF Sorted, IndexOrders
<1>3. p \in [1..n -> 1..n] /\ \A i, j \in 1..n : i # j => p[i] # p[j]
  BY <1>1, <1>2 DEF SetToSeqs
<1>4. p \in Injection(1..n, 1..n)
  BY <1>3 DEF Injection, IsInjective
<1>5. p \in Surjection(1..n, 1..n)
  BY <1>1, <1>4, FS_Injection
<1>6. \A k \in 1..n : \E i \in 1..n : p[i] = k
  BY <1>5 DEF Surjection
<1>7. Len(p) = n
  BY <1>3
<1> QED
  BY <1>3, <1>6, <1>7 DEF Sorted, Permutations1

TagsOf(ops, p) == [i \in DOMAIN p |-> ops[p[i]].Tag_var]

LEMMA EndTimesSorted ==
  ASSUME NEW n \in Nat, NEW ops \in [1..n -> Operations], NEW p \in Permutations1(n),
         \A i \in 1..(n - 1) : ~ Less("endtime_ms", ops[p[i + 1]], ops[p[i]])
  PROVE  /\ EndTimes(ops, p) \in [1..n -> Nat] /\ Len(EndTimes(ops, p)) = n
         /\ Nondecreasing(EndTimes(ops, p), n)
<1> DEFINE t == EndTimes(ops, p)
           L == {x \in Nat \X Nat : x[1] <= x[2]}
<1>1. t = [i \in 1..n |-> ops[p[i]].endtime_ms]
  BY DEF EndTimes, Permutations1
<1>2. \A i \in 1..n : p[i] \in 1..n /\ ops[p[i]].endtime_ms \in Nat
  BY DataAssumption DEF Operations, Permutations1
<1>3. t \in [1..n -> Nat] /\ Len(t) = n
  BY <1>1, <1>2
<1>4. \A i \in 1..(n - 1) : t[i] <= t[i + 1]
  BY <1>1, <1>2 DEF Less
<1>5. \A i \in 1..(n - 1) : <<t[i], t[i + 1]>> \in L
  BY <1>3, <1>4
<1>6. \A v \in Nat : <<v, v>> \in L
  OBVIOUS
<1>7. \A u, v, w \in Nat : <<u, v>> \in L /\ <<v, w>> \in L => <<u, w>> \in L
  OBVIOUS
<1>8. \A i, j \in 1..n : i <= j => <<t[i], t[j]>> \in L
  <2> HIDE DEF t, L
  <2> QED
    BY <1>3, <1>5, <1>6, <1>7, SortedThroughout
<1>9. \A i, j \in 1..n : i <= j => t[i] <= t[j]
  BY <1>8
<1> QED
  BY <1>3, <1>9 DEF Nondecreasing

LEMMA TagsSorted ==
  ASSUME NEW n \in Nat, NEW ops \in [1..n -> Operations], NEW p \in Permutations1(n),
         \A i \in 1..(n - 1) : ~ Less("Tag_var", ops[p[i + 1]], ops[p[i]])
  PROVE  /\ TagsOf(ops, p) \in [1..n -> Tag]
         /\ SortedTags(TagsOf(ops, p), n)
<1> DEFINE t == TagsOf(ops, p)
           L == {x \in Tag \X Tag : AtLeast(x[2], x[1])}
<1>1. t = [i \in 1..n |-> ops[p[i]].Tag_var]
  BY DEF TagsOf, Permutations1
<1>2. \A i \in 1..n : p[i] \in 1..n /\ ops[p[i]].Tag_var \in Tag
  BY DEF Operations, Permutations1
<1>3. t \in [1..n -> Tag]
  BY <1>1, <1>2
<1>4. \A i \in 1..(n - 1) : AtLeast(t[i + 1], t[i])
  BY <1>1, <1>2 DEF Less, AtLeast
<1>5. \A i \in 1..(n - 1) : <<t[i], t[i + 1]>> \in L
  BY <1>3, <1>4
<1>6. \A v \in Tag : <<v, v>> \in L
  BY TagTotal DEF AnyTag
<1>7. \A u, v, w \in Tag : <<u, v>> \in L /\ <<v, w>> \in L => <<u, w>> \in L
  BY TagTransitive DEF AnyTag
<1>8. \A i, j \in 1..n : i <= j => <<t[i], t[j]>> \in L
  <2> HIDE DEF t, L
  <2> QED
    BY <1>3, <1>5, <1>6, <1>7, SortedThroughout
<1>9. \A i, j \in 1..n : i <= j => AtLeast(t[j], t[i])
  BY <1>8
<1> QED
  BY <1>3, <1>9 DEF SortedTags

\* The running maximum is the tag of an operation up to that place, and not below
\* that of any.
LEMMA RunningMaxIsMax ==
  ASSUME NEW n \in Nat \ {0}, NEW ops \in [1..n -> Operations], NEW p \in Permutations1(n)
  PROVE  \A i \in 1..n :
           /\ \E j \in 1..i : RunningMaxTag(ops, p)[i] = TagsOf(ops, p)[j]
           /\ \A j \in 1..i : AtLeast(RunningMaxTag(ops, p)[i], TagsOf(ops, p)[j])
<1> DEFINE t == TagsOf(ops, p)
           step == [x \in (1..n) \X AnyTag |-> LargerTag(t[x[1]], x[2])]
           IsMax(g) == g = [i \in DOMAIN p |->
             LargerTag(ops[p[i]].Tag_var, IF i = 1 THEN LowestTag ELSE g[i - 1])]
           R == RunningMaxTag(ops, p)
<1>1. DOMAIN p = 1..n /\ t = [i \in 1..n |-> ops[p[i]].Tag_var] /\ t \in [1..n -> Tag]
  BY DEF TagsOf, Operations, Permutations1
<1>2. step \in [(1..n) \X AnyTag -> AnyTag]
  BY <1>1, LargerTagBounds DEF AnyTag
<1>3. LowestTag \in AnyTag
  BY InitialTagIsTag
<1>4. PICK f \in [0..n -> AnyTag] : IsRun(f, n, LowestTag, step)
  <2> HIDE DEF step
  <2> QED
    BY <1>2, <1>3, RunIsDefined
<1>5. f[0] = LowestTag /\ \A i \in 1..n : f[i] = LargerTag(t[i], f[i - 1])
  <2>1. f[0] = LowestTag /\ \A i \in 1..n : f[i] = step[<<i, f[i - 1]>>]
    <3> HIDE DEF step
    <3> QED
      BY <1>4 DEF IsRun
  <2>2. \A i \in 1..n : <<i, f[i - 1]>> \in (1..n) \X AnyTag
    <3>1. \A i \in 1..n : i - 1 \in 0..n
      OBVIOUS
    <3> QED
      BY <3>1
  <2> HIDE DEF t
  <2> QED
    BY <2>1, <2>2
<1>6. \E g : IsMax(g)
  <2> DEFINE g == [i \in 1..n |-> f[i]]
  <2>1. \A i \in 1..n : (IF i = 1 THEN LowestTag ELSE g[i - 1]) = f[i - 1]
    BY <1>5
  <2>2. \A i \in 1..n : g[i] = LargerTag(ops[p[i]].Tag_var, IF i = 1 THEN LowestTag ELSE g[i - 1])
    BY <1>1, <1>5, <2>1
  <2>3. g = [i \in 1..n |-> g[i]]
    OBVIOUS
  <2> HIDE DEF g
  <2>4. g = [i \in 1..n |->
               LargerTag(ops[p[i]].Tag_var, IF i = 1 THEN LowestTag ELSE g[i - 1])]
    BY <2>2, <2>3
  <2>5. IsMax(g)
    BY <1>1, <2>4
  <2> HIDE DEF IsMax
  <2> QED
    BY <2>5
<1>7. IsMax(R)
  <2>1. R = CHOOSE g : IsMax(g)
    BY DEF RunningMaxTag
  <2> HIDE DEF IsMax, R
  <2> QED
    BY <1>6, <2>1
<1>8. \A i \in 1..n : R[i] = LargerTag(t[i], IF i = 1 THEN LowestTag ELSE R[i - 1])
  <2> HIDE DEF R
  <2> QED
    BY <1>1, <1>7
<1> HIDE DEF R, t
<1> DEFINE Good(i) == /\ \E j \in 1..i : R[i] = t[j]
                      /\ \A j \in 1..i : AtLeast(R[i], t[j])
           S == {m \in Nat : m + 1 <= n => Good(m + 1)}
<1>9. 0 \in S
  <2>1. R[1] = LargerTag(t[1], LowestTag) /\ t[1] \in Tag
    BY <1>1, <1>8
  <2>2. R[1] = t[1]
    BY <2>1 DEF LargerTag, isGreaterTag, Tag, LowestTag
  <2>3. AtLeast(t[1], t[1])
    BY <2>1, TagTotal DEF AnyTag
  <2> QED
    BY <2>2, <2>3
<1>10. ASSUME NEW m \in Nat, m \in S PROVE m + 1 \in S
  <2> SUFFICES ASSUME (m + 1) + 1 <= n PROVE Good((m + 1) + 1)
    OBVIOUS
  <2>1. PICK k \in 1..n : k = m + 1
    OBVIOUS
  <2>2. Good(k) /\ k + 1 \in 1..n /\ k + 1 = (m + 1) + 1
    BY <1>10, <2>1
  <2>3. R[k + 1] = LargerTag(t[k + 1], R[k])
    BY <1>8, <2>1, <2>2
  <2>4. PICK j \in 1..k : R[k] = t[j]
    BY <2>2
  <2>5. j \in 1..n /\ R[k] \in AnyTag /\ t[k + 1] \in AnyTag
    BY <1>1, <2>1, <2>2, <2>4 DEF AnyTag
  <2>6. R[k + 1] \in {t[k + 1], R[k]} /\ AtLeast(R[k + 1], R[k]) /\ AtLeast(R[k + 1], t[k + 1])
    BY <2>3, <2>5, LargerTagBounds
  <2>7. \E i \in 1..(k + 1) : R[k + 1] = t[i]
    <3>1. j \in 1..(k + 1) /\ k + 1 \in 1..(k + 1)
      BY <2>1
    <3> QED
      BY <2>4, <2>6, <3>1
  <2>8. ASSUME NEW i \in 1..(k + 1) PROVE AtLeast(R[k + 1], t[i])
    <3>1. CASE i = k + 1
      BY <2>6, <3>1
    <3>2. CASE i \in 1..k
      <4>1. AtLeast(R[k], t[i])
        BY <2>2, <3>2
      <4>2. i \in 1..n
        BY <2>1, <3>2
      <4>3. t[i] \in AnyTag /\ R[k + 1] \in AnyTag
        BY <1>1, <2>5, <2>6, <4>2 DEF AnyTag
      <4> QED
        BY <2>5, <2>6, <4>1, <4>3, TagTransitive
    <3> QED
      BY <2>1, <3>1, <3>2
  <2> QED
    BY <2>2, <2>7, <2>8
<1>11. Nat \subseteq S
  <2> HIDE DEF S
  <2> QED
    BY <1>9, <1>10, InductionOverSet
<1>12. ASSUME NEW i \in 1..n PROVE Good(i)
  <2>1. i - 1 \in Nat /\ (i - 1) + 1 = i
    OBVIOUS
  <2>2. i - 1 \in S
    <3> HIDE DEF S
    <3> QED
      BY <1>11, <2>1
  <2> HIDE DEF Good
  <2> QED
    BY <2>1, <2>2
<1> QED
  BY <1>12 DEF R, t

\* Place k of w is the write at place q[k] of the order p, for the first m places.
ListsWrites(w, q, m, ops, p) ==
  /\ q \in [1..Len(w) -> 1..m]
  /\ \A k, l \in 1..Len(w) : k < l => q[k] < q[l]
  /\ \A k \in 1..Len(w) : IsWrite(ops[p[q[k]]]) /\ w[k] = ops[p[q[k]]].Tag_var
  /\ \A i \in 1..m : IsWrite(ops[p[i]]) => \E k \in 1..Len(w) : q[k] = i

\* The tags of the writes are appended in the order of the places.
LEMMA WriteAppended ==
  ASSUME NEW m \in Nat, NEW ops, NEW p, NEW w \in Seq(Tag), NEW q,
         ListsWrites(w, q, m, ops, p), ops[p[m + 1]].Tag_var \in Tag
  PROVE  /\ ~ IsWrite(ops[p[m + 1]]) => ListsWrites(w, q, m + 1, ops, p)
         /\ IsWrite(ops[p[m + 1]]) =>
              \E r : ListsWrites(Append(w, ops[p[m + 1]].Tag_var), r, m + 1, ops, p)
<1>1. Len(w) \in Nat /\ 1..m \subseteq 1..(m + 1)
  OBVIOUS
<1>2. /\ q \in [1..Len(w) -> 1..m]
      /\ \A k, l \in 1..Len(w) : k < l => q[k] < q[l]
      /\ \A k \in 1..Len(w) : IsWrite(ops[p[q[k]]]) /\ w[k] = ops[p[q[k]]].Tag_var
      /\ \A i \in 1..m : IsWrite(ops[p[i]]) => \E k \in 1..Len(w) : q[k] = i
  BY DEF ListsWrites
<1>3. ASSUME ~ IsWrite(ops[p[m + 1]]) PROVE ListsWrites(w, q, m + 1, ops, p)
  <2>1. q \in [1..Len(w) -> 1..(m + 1)]
    BY <1>1, <1>2
  <2>2. \A i \in 1..(m + 1) : i \in 1..m \/ i = m + 1
    OBVIOUS
  <2>3. \A i \in 1..(m + 1) : IsWrite(ops[p[i]]) => \E k \in 1..Len(w) : q[k] = i
    BY <1>2, <1>3, <2>2
  <2> QED
    BY <1>2, <2>1, <2>3 DEF ListsWrites
<1>4. ASSUME IsWrite(ops[p[m + 1]])
      PROVE  \E r : ListsWrites(Append(w, ops[p[m + 1]].Tag_var), r, m + 1, ops, p)
  <2> DEFINE v == Append(w, ops[p[m + 1]].Tag_var)
             r == [k \in 1..(Len(w) + 1) |-> IF k = Len(w) + 1 THEN m + 1 ELSE q[k]]
  <2>1. /\ Len(v) = Len(w) + 1
        /\ v[Len(w) + 1] = ops[p[m + 1]].Tag_var
        /\ \A k \in 1..Len(w) : v[k] = w[k]
    OBVIOUS
  <2>2. \A k \in 1..(Len(w) + 1) : k \in 1..Len(w) \/ k = Len(w) + 1
    BY <1>1
  <2>3. r[Len(w) + 1] = m + 1 /\ \A k \in 1..Len(w) : r[k] = q[k] /\ q[k] \in 1..m
    BY <1>1, <1>2
  <2>4. r \in [1..(Len(w) + 1) -> 1..(m + 1)]
    BY <1>1, <1>2
  <2> HIDE DEF v, r
  <2>5. \A k, l \in 1..(Len(w) + 1) : k < l => r[k] < r[l]
    BY <1>1, <1>2, <2>2, <2>3
  <2>6. \A k \in 1..(Len(w) + 1) : IsWrite(ops[p[r[k]]]) /\ v[k] = ops[p[r[k]]].Tag_var
    BY <1>2, <1>4, <2>1, <2>2, <2>3
  <2>7. ASSUME NEW i \in 1..(m + 1), IsWrite(ops[p[i]])
        PROVE  \E k \in 1..(Len(w) + 1) : r[k] = i
    <3>1. CASE i = m + 1
      BY <1>1, <2>3, <3>1
    <3>2. CASE i \in 1..m
      <4>1. PICK k \in 1..Len(w) : q[k] = i
        BY <1>2, <2>7, <3>2
      <4>2. k \in 1..(Len(w) + 1) /\ r[k] = i
        BY <1>1, <2>3, <4>1
      <4> QED
        BY <4>2
    <3> QED
      BY <3>1, <3>2
  <2>8. ListsWrites(v, r, m + 1, ops, p)
    BY <2>1, <2>4, <2>5, <2>6, <2>7 DEF ListsWrites
  <2> QED
    BY <2>8 DEF v
<1> QED
  BY <1>3, <1>4

LEMMA WriteTagsAreOfWrites ==
  ASSUME NEW n \in Nat, NEW ops \in [1..n -> Operations], NEW p \in Permutations1(n), Len(p) = n
  PROVE  /\ WriteTags(ops, p) \in Seq(Tag)
         /\ \E q : ListsWrites(WriteTags(ops, p), q, n, ops, p)
<1> DEFINE T == Seq(Tag)
           tag(i) == ops[p[i]].Tag_var
           step == [x \in (1..n) \X T |-> IF IsWrite(ops[p[x[1]]]) THEN Append(x[2], tag(x[1]))
                                          ELSE x[2]]
           IsList(g) == g = [i \in 0..Len(p) |->
             IF i = 0 THEN <<>>
             ELSE IF IsWrite(ops[p[i]]) THEN Append(g[i - 1], ops[p[i]].Tag_var)
             ELSE g[i - 1]]
<1>1. \A i \in 1..n : tag(i) \in Tag
  BY DEF Permutations1, Operations
<1>2. step \in [(1..n) \X T -> T]
  <2>1. ASSUME NEW i \in 1..n, NEW s \in T
        PROVE  (IF IsWrite(ops[p[i]]) THEN Append(s, tag(i)) ELSE s) \in T
    BY <1>1
  <2> QED
    BY <2>1
<1>3. <<>> \in T
  OBVIOUS
<1>4. PICK f \in [0..n -> T] : IsRun(f, n, <<>>, step)
  <2> HIDE DEF step, T
  <2> QED
    BY <1>2, <1>3, RunIsDefined
<1>5. f[0] = <<>> /\ \A i \in 1..n : f[i] =
        IF IsWrite(ops[p[i]]) THEN Append(f[i - 1], tag(i)) ELSE f[i - 1]
  <2>1. f[0] = <<>> /\ \A i \in 1..n : f[i] = step[<<i, f[i - 1]>>]
    <3> HIDE DEF step, T
    <3> QED
      BY <1>4 DEF IsRun
  <2>2. \A i \in 1..n : <<i, f[i - 1]>> \in (1..n) \X T
    <3>1. \A i \in 1..n : i - 1 \in 0..n
      OBVIOUS
    <3> HIDE DEF T
    <3> QED
      BY <3>1
  <2> HIDE DEF tag, T
  <2> QED
    BY <2>1, <2>2
<1>6. \E g : IsList(g)
  <2>1. \A i \in 0..n : i = 0 \/ i \in 1..n
    OBVIOUS
  <2>2. \A i \in 0..n : f[i] = IF i = 0 THEN <<>>
             ELSE IF IsWrite(ops[p[i]]) THEN Append(f[i - 1], ops[p[i]].Tag_var)
             ELSE f[i - 1]
    BY <1>5, <2>1
  <2>3. f = [i \in 0..n |-> f[i]]
    OBVIOUS
  <2>4. f = [i \in 0..n |-> IF i = 0 THEN <<>>
             ELSE IF IsWrite(ops[p[i]]) THEN Append(f[i - 1], ops[p[i]].Tag_var)
             ELSE f[i - 1]]
    BY <2>2, <2>3
  <2>5. IsList(f)
    BY <2>4
  <2> HIDE DEF IsList
  <2> QED
    BY <2>5
<1> DEFINE g == CHOOSE h : IsList(h)
<1>7. WriteTags(ops, p) = g[n]
  BY DEF WriteTags
<1>8. IsList(g)
  <2> HIDE DEF IsList
  <2> QED
    BY <1>6
<1>9. g[0] = <<>> /\ \A i \in 1..n : g[i] =
        IF IsWrite(ops[p[i]]) THEN Append(g[i - 1], tag(i)) ELSE g[i - 1]
  <2> HIDE DEF g
  <2>1. \A i \in 0..n : g[i] = IF i = 0 THEN <<>>
             ELSE IF IsWrite(ops[p[i]]) THEN Append(g[i - 1], ops[p[i]].Tag_var)
             ELSE g[i - 1]
    BY <1>8
  <2>2. 0 \in 0..n /\ \A i \in 1..n : i \in 0..n /\ i # 0
    OBVIOUS
  <2> QED
    BY <2>1, <2>2
<1> HIDE DEF g
<1> DEFINE S == {m \in Nat : m <= n => g[m] \in T /\ \E q : ListsWrites(g[m], q, m, ops, p)}
<1>10. 0 \in S
  <2>1. ListsWrites(<<>>, <<>>, 0, ops, p)
    BY DEF ListsWrites
  <2> QED
    BY <1>3, <1>9, <2>1
<1>11. ASSUME NEW m \in Nat, m \in S PROVE m + 1 \in S
  <2> SUFFICES ASSUME m + 1 <= n
               PROVE  g[m + 1] \in T /\ \E q : ListsWrites(g[m + 1], q, m + 1, ops, p)
    OBVIOUS
  <2>1. m + 1 \in 1..n /\ (m + 1) - 1 = m
    OBVIOUS
  <2>2. g[m] \in T
    BY <1>11
  <2>3. PICK q : ListsWrites(g[m], q, m, ops, p)
    BY <1>11
  <2>4. g[m + 1] = IF IsWrite(ops[p[m + 1]]) THEN Append(g[m], tag(m + 1)) ELSE g[m]
    BY <1>9, <2>1
  <2>5. tag(m + 1) \in Tag
    BY <1>1, <2>1
  <2>6. PICK w \in Seq(Tag) : w = g[m]
    BY <2>2
  <2>7. /\ ~ IsWrite(ops[p[m + 1]]) => ListsWrites(w, q, m + 1, ops, p)
        /\ IsWrite(ops[p[m + 1]]) => \E r : ListsWrites(Append(w, tag(m + 1)), r, m + 1, ops, p)
    BY <2>3, <2>5, <2>6, WriteAppended
  <2>8. g[m + 1] \in T
    BY <2>4, <2>5, <2>6
  <2> HIDE DEF tag, T
  <2> QED
    BY <2>4, <2>6, <2>7, <2>8
<1>12. n \in S
  <2> HIDE DEF S
  <2> QED
    BY <1>10, <1>11, InductionOverSet
<1> QED
  BY <1>7, <1>12

-----------------------------------------------------------------------------
(* What each check says of the operations of one object *)

SameWrite(ops, i, j) ==
  IsWrite(ops[i]) /\ IsWrite(ops[j]) /\ ops[i].Tag_var = ops[j].Tag_var

\* safetyCheckP2 passes exactly when no two writes have one tag: equal tags stand
\* next to each other in any sorted order.
LEMMA P2Meaning ==
  ASSUME NEW n \in Nat, NEW ops \in [1..n -> Operations], NEW p \in Permutations1(n),
         Len(p) = n, SortedTags(TagsOf(ops, p), n)
  PROVE  /\ safetyCheckP2(ops, p) <=>
              \A i, j \in 1..n : SameWrite(ops, i, j) => i = j
         /\ WriteTags(ops, p) \in Seq(Tag)
         /\ SortedTags(WriteTags(ops, p), Len(WriteTags(ops, p)))
         /\ \A i \in 1..n : IsWrite(ops[i]) =>
              \E k \in 1..Len(WriteTags(ops, p)) : WriteTags(ops, p)[k] = ops[i].Tag_var
         /\ \A k \in 1..Len(WriteTags(ops, p)) :
              \E i \in 1..n : IsWrite(ops[i]) /\ WriteTags(ops, p)[k] = ops[i].Tag_var
<1>1. PICK w, q : w \in Seq(Tag) /\ w = WriteTags(ops, p) /\ ListsWrites(w, q, n, ops, p)
  BY WriteTagsAreOfWrites
<1>2. PICK m \in Nat : m = Len(w)
  BY <1>1
<1>3. /\ q \in [1..m -> 1..n]
      /\ \A k, l \in 1..m : k < l => q[k] < q[l]
      /\ \A k \in 1..m : IsWrite(ops[p[q[k]]]) /\ w[k] = ops[p[q[k]]].Tag_var
      /\ \A i \in 1..n : IsWrite(ops[p[i]]) => \E k \in 1..m : q[k] = i
  BY <1>1, <1>2 DEF ListsWrites
<1>4. /\ p \in [1..n -> 1..n]
      /\ \A i, j \in 1..n : p[i] = p[j] => i = j
      /\ \A k \in 1..n : \E i \in 1..n : p[i] = k
  BY DEF Permutations1
<1>5. ASSUME NEW k \in 1..m, NEW l \in 1..m, k <= l PROVE AtLeast(w[l], w[k])
  <2>1. q[k] \in 1..n /\ q[l] \in 1..n /\ q[k] <= q[l]
    BY <1>3, <1>5
  <2>2. AtLeast(TagsOf(ops, p)[q[l]], TagsOf(ops, p)[q[k]])
    BY <2>1 DEF SortedTags
  <2> QED
    BY <1>3, <1>4, <2>1, <2>2 DEF TagsOf
<1>6. ASSUME NEW i \in 1..n, IsWrite(ops[i])
      PROVE  \E k \in 1..m : p[q[k]] = i /\ w[k] = ops[i].Tag_var
  <2>1. PICK a \in 1..n : p[a] = i
    BY <1>4
  <2>2. PICK k \in 1..m : q[k] = a
    BY <1>3, <1>6, <2>1
  <2> QED
    BY <1>3, <2>1, <2>2
<1>7. ASSUME NEW k \in 1..m PROVE \E i \in 1..n : IsWrite(ops[i]) /\ w[k] = ops[i].Tag_var
  <2>1. PICK a \in 1..n : a = q[k]
    BY <1>3
  <2>2. p[a] \in 1..n /\ IsWrite(ops[p[a]]) /\ w[k] = ops[p[a]].Tag_var
    BY <1>3, <1>4, <2>1
  <2> QED
    BY <2>2
<1>8. safetyCheckP2(ops, p) <=> \A k \in 2..m : w[k] # w[k - 1]
  BY <1>1, <1>2 DEF safetyCheckP2
<1>9. ASSUME \A k \in 2..m : w[k] # w[k - 1],
             NEW i \in 1..n, NEW j \in 1..n, SameWrite(ops, i, j)
      PROVE  i = j
  <2>1. PICK k \in 1..m : p[q[k]] = i /\ w[k] = ops[i].Tag_var
    BY <1>6, <1>9 DEF SameWrite
  <2>2. PICK l \in 1..m : p[q[l]] = j /\ w[l] = ops[j].Tag_var
    BY <1>6, <1>9 DEF SameWrite
  <2>3. ASSUME NEW a \in 1..m, NEW b \in 1..m, w[a] = w[b], a < b PROVE FALSE
    <3>1. a + 1 \in 1..m /\ a + 1 <= b /\ a <= a + 1 /\ a + 1 \in 2..m /\ (a + 1) - 1 = a
      BY <2>3
    <3>2. AtLeast(w[b], w[a + 1]) /\ AtLeast(w[a + 1], w[a])
      BY <1>5, <3>1
    <3>3. w[a] \in AnyTag /\ w[a + 1] \in AnyTag
      BY <1>1, <1>2, <3>1 DEF AnyTag
    <3>4. w[a + 1] = w[a]
      BY <2>3, <3>2, <3>3, TagTotal
    <3> QED
      BY <1>9, <3>1, <3>4
  <2>4. k = l
    BY <1>9, <2>1, <2>2, <2>3 DEF SameWrite
  <2> QED
    BY <2>1, <2>2, <2>4
<1>10. ASSUME \A i, j \in 1..n : SameWrite(ops, i, j) => i = j,
              NEW k \in 2..m, w[k] = w[k - 1]
       PROVE  FALSE
  <2>1. k \in 1..m /\ k - 1 \in 1..m /\ k - 1 < k
    BY <1>2
  <2>2. PICK a \in 1..n, b \in 1..n : a = q[k] /\ b = q[k - 1] /\ b < a
    BY <1>3, <2>1
  <2>3. a # b
    BY <2>2
  <2>4. p[a] \in 1..n /\ p[b] \in 1..n /\ p[a] # p[b]
    BY <1>4, <2>3
  <2>5. p[q[k]] \in 1..n /\ p[q[k - 1]] \in 1..n /\ p[q[k]] # p[q[k - 1]]
    BY <2>2, <2>4
  <2>6. /\ IsWrite(ops[p[q[k]]]) /\ w[k] = ops[p[q[k]]].Tag_var
        /\ IsWrite(ops[p[q[k - 1]]]) /\ w[k - 1] = ops[p[q[k - 1]]].Tag_var
    BY <1>3, <2>1
  <2> QED
    BY <1>10, <2>5, <2>6 DEF SameWrite
<1>11. safetyCheckP2(ops, p) <=>
          \A i, j \in 1..n : SameWrite(ops, i, j) => i = j
  <2> DEFINE Differ == \A k \in 2..m : w[k] # w[k - 1]
             Distinct == \A i, j \in 1..n : SameWrite(ops, i, j) => i = j
  <2>1. Differ => Distinct
    BY <1>9
  <2>2. Distinct => Differ
    BY <1>10
  <2>3. safetyCheckP2(ops, p) <=> Differ
    BY <1>8
  <2> HIDE DEF Differ, Distinct
  <2>4. safetyCheckP2(ops, p) <=> Distinct
    BY <2>1, <2>2, <2>3
  <2> QED
    BY <2>4 DEF Distinct
<1>12. SortedTags(w, m)
  BY <1>5 DEF SortedTags
<1> QED
  BY <1>1, <1>2, <1>6, <1>7, <1>11, <1>12

\* safetyCheckP3 passes exactly when P2 does and every read returns, unharmed, the
\* initial value or what a write of the object wrote.
LEMMA P3Meaning ==
  ASSUME NEW n \in Nat, NEW ops \in [1..n -> Operations], Len(ops) = n,
         NEW p \in Permutations1(n), Len(p) = n, SortedTags(TagsOf(ops, p), n)
  PROVE  safetyCheckP3(ops, p) <=>
           /\ safetyCheckP2(ops, p)
           /\ \A i \in 1..n : ~ IsWrite(ops[i]) =>
                /\ ops[i].dataSafe
                /\ \/ ops[i].Tag_var = InitialTag
                   \/ \E j \in 1..n : IsWrite(ops[j]) /\ ops[j].Tag_var = ops[i].Tag_var
<1>1. PICK w \in Seq(Tag) : w = WriteTags(ops, p)
  BY P2Meaning
<1>2. /\ w = WriteTags(ops, p) /\ SortedTags(w, Len(w))
      /\ \A i \in 1..n : IsWrite(ops[i]) => \E k \in 1..Len(w) : w[k] = ops[i].Tag_var
      /\ \A k \in 1..Len(w) : \E i \in 1..n : IsWrite(ops[i]) /\ w[k] = ops[i].Tag_var
  <2>1. SortedTags(WriteTags(ops, p), Len(WriteTags(ops, p)))
    BY P2Meaning
  <2>2. \A i \in 1..n : IsWrite(ops[i]) =>
          \E k \in 1..Len(WriteTags(ops, p)) : WriteTags(ops, p)[k] = ops[i].Tag_var
    BY P2Meaning
  <2>3. \A k \in 1..Len(WriteTags(ops, p)) :
          \E i \in 1..n : IsWrite(ops[i]) /\ WriteTags(ops, p)[k] = ops[i].Tag_var
    BY P2Meaning
  <2> QED
    BY <1>1, <2>1, <2>2, <2>3
<1>3. PICK m \in Nat : m = Len(w)
  OBVIOUS
<1>4. w \in [1..m -> Tag]
  BY <1>3
<1>5. ASSUME NEW i \in 1..n
      PROVE  BinarySearchP3(w, ops[i].Tag_var) <=>
               \E j \in 1..n : IsWrite(ops[j]) /\ ops[j].Tag_var = ops[i].Tag_var
  <2>1. PICK t \in Tag : t = ops[i].Tag_var
    BY DEF Operations
  <2>2. BinarySearchP3(w, t) <=> \E k \in 1..m : w[k] = t
    BY <1>2, <1>3, <1>4, BinarySearchP3Finds
  <2>3. ASSUME NEW k \in 1..m, w[k] = t
        PROVE  \E j \in 1..n : IsWrite(ops[j]) /\ ops[j].Tag_var = t
    <3>1. PICK j \in 1..n : IsWrite(ops[j]) /\ w[k] = ops[j].Tag_var
      BY <1>2, <1>3
    <3> QED
      BY <2>3, <3>1
  <2>4. ASSUME NEW j \in 1..n, IsWrite(ops[j]), ops[j].Tag_var = t
        PROVE  \E k \in 1..m : w[k] = t
    <3>1. PICK k \in 1..Len(w) : w[k] = ops[j].Tag_var
      BY <1>2, <2>4
    <3> QED
      BY <1>3, <2>4, <3>1
  <2>5. BinarySearchP3(w, t) <=> \E j \in 1..n : IsWrite(ops[j]) /\ ops[j].Tag_var = t
    BY <2>2, <2>3, <2>4
  <2> QED
    BY <2>1, <2>5
<1>6. DOMAIN ops = 1..n
  OBVIOUS
<1> QED
  BY <1>2, <1>5, <1>6 DEF safetyCheckP3

\* Operation a had ended when b started, and has the larger tag.
InvertedAt(ops, a, b) ==
  ops[a].endtime_ms <= ops[b].startime_ms /\ isGreaterTag(ops[a].Tag_var, ops[b].Tag_var)

\* safetyCheckP1 fails only on an inversion.
LEMMA P1Sound ==
  ASSUME NEW n \in Nat \ {0}, NEW ops \in [1..n -> Operations], NEW p \in Permutations1(n),
         EndTimes(ops, p) \in [1..n -> Nat], Len(EndTimes(ops, p)) = n,
         Nondecreasing(EndTimes(ops, p), n), ~ safetyCheckP1(ops, p)
  PROVE  \E a, b \in 1..n : InvertedAt(ops, a, b)
<1> DEFINE R == RunningMaxTag(ops, p)
<1>1. PICK b \in 1..n : /\ BinarySearchP1(EndTimes(ops, p), ops[b].startime_ms) > -1
                        /\ isGreaterTag(R[BinarySearchP1(EndTimes(ops, p), ops[b].startime_ms) + 1],
                                        ops[b].Tag_var)
  BY DEF safetyCheckP1
<1>2. PICK t \in [1..n -> Nat], v \in Nat : t = EndTimes(ops, p) /\ v = ops[b].startime_ms
  BY DataAssumption DEF Operations
<1>3. PICK r \in 0..(n - 1) : r = BinarySearchP1(t, v) /\ t[r + 1] <= v
  <2>1. Len(t) = n /\ Nondecreasing(t, n)
    BY <1>2
  <2>2. BinarySearchP1(t, v) > -1
    BY <1>1, <1>2
  <2>3. BinarySearchP1(t, v) = -1 \/ BinarySearchP1(t, v) \in LastNotAbove(n, t, v)
    BY <2>1, BinarySearchP1Finds
  <2>4. PICK r : r = BinarySearchP1(t, v)
    OBVIOUS
  <2>5. r \in LastNotAbove(n, t, v)
    BY <2>2, <2>3, <2>4
  <2>6. r \in 0..(n - 1) /\ t[r + 1] <= v
    BY <2>5 DEF LastNotAbove
  <2> QED
    BY <2>4, <2>6
<1>4. r + 1 \in 1..n
  OBVIOUS
<1>5. PICK j \in 1..(r + 1) : R[r + 1] = TagsOf(ops, p)[j]
  <2>1. PICK h \in 1..n : h = r + 1
    BY <1>4
  <2>2. \A i \in 1..n :
         /\ \E j \in 1..i : RunningMaxTag(ops, p)[i] = TagsOf(ops, p)[j]
         /\ \A j \in 1..i : AtLeast(RunningMaxTag(ops, p)[i], TagsOf(ops, p)[j])
    BY RunningMaxIsMax
  <2>3. PICK j \in 1..h : RunningMaxTag(ops, p)[h] = TagsOf(ops, p)[j]
    BY <2>2
  <2> QED
    BY <2>1, <2>3
<1>6. j \in 1..n /\ j <= r + 1
  BY <1>4
<1>7. p[j] \in 1..n /\ DOMAIN p = 1..n
  BY <1>6 DEF Permutations1
<1>8. t[j] <= v
  <2>1. t[j] <= t[r + 1]
    BY <1>2, <1>4, <1>6 DEF Nondecreasing
  <2>2. t[j] \in Nat /\ t[r + 1] \in Nat
    BY <1>4, <1>6
  <2> QED
    BY <1>3, <2>1, <2>2
<1>9. t[j] = ops[p[j]].endtime_ms /\ R[r + 1] = ops[p[j]].Tag_var
  BY <1>2, <1>5, <1>6, <1>7 DEF EndTimes, TagsOf
<1>10. isGreaterTag(R[r + 1], ops[b].Tag_var)
  BY <1>1, <1>2, <1>3
<1>11. InvertedAt(ops, p[j], b)
  BY <1>2, <1>8, <1>9, <1>10 DEF InvertedAt
<1> QED
  BY <1>7, <1>11

\* safetyCheckP1 misses an inversion only when two operations ended at the time at
\* which the later one started. Every operation ends after it starts: some end
\* time is above every start time, as BinarySearchP1 needs.
LEMMA P1Complete ==
  ASSUME NEW n \in Nat \ {0}, NEW ops \in [1..n -> Operations], NEW p \in Permutations1(n),
         EndTimes(ops, p) \in [1..n -> Nat], Len(EndTimes(ops, p)) = n,
         Nondecreasing(EndTimes(ops, p), n), safetyCheckP1(ops, p),
         \A i \in 1..n : ops[i].startime_ms < ops[i].endtime_ms,
         NEW a \in 1..n, NEW b \in 1..n, InvertedAt(ops, a, b)
  PROVE  \E i, j \in 1..n : i # j /\ ops[i].endtime_ms = ops[b].startime_ms
                                  /\ ops[j].endtime_ms = ops[b].startime_ms
<1> SUFFICES ASSUME \A i, j \in 1..n : /\ ops[i].endtime_ms = ops[b].startime_ms
                                       /\ ops[j].endtime_ms = ops[b].startime_ms
                                      => i = j
             PROVE  FALSE
  OBVIOUS
<1> DEFINE R == RunningMaxTag(ops, p)
<1>1. PICK t \in [1..n -> Nat], v \in Nat : t = EndTimes(ops, p) /\ v = ops[b].startime_ms
  BY DataAssumption DEF Operations
<1>2. /\ p \in [1..n -> 1..n]
      /\ \A i, j \in 1..n : p[i] = p[j] => i = j
      /\ \A k \in 1..n : \E i \in 1..n : p[i] = k
  BY DEF Permutations1
<1>3. \A i \in 1..n : t[i] = ops[p[i]].endtime_ms /\ p[i] \in 1..n
  BY <1>1, <1>2 DEF EndTimes
<1>4. PICK k \in 1..n : p[k] = a
  BY <1>2
<1>5. PICK l \in 1..n : p[l] = b
  BY <1>2
<1>6. t[k] <= v
  BY <1>1, <1>3, <1>4 DEF InvertedAt
<1>7. v < t[n]
  <2>1. v < t[l]
    BY <1>1, <1>3, <1>5
  <2>2. t[l] <= t[n] /\ n \in 1..n
    BY <1>1 DEF Nondecreasing
  <2>3. t[l] \in Nat /\ t[n] \in Nat
    BY <2>2
  <2> QED
    BY <2>1, <2>2, <2>3
<1>8. NoTie(t, n, v)
  <2>1. ASSUME NEW i \in 1..n, NEW j \in 1..n, t[i] = v, t[j] = v PROVE i = j
    <3>1. p[i] \in 1..n /\ p[j] \in 1..n /\ ops[p[i]].endtime_ms = v /\ ops[p[j]].endtime_ms = v
      BY <1>3, <2>1
    <3>2. p[i] = p[j]
      BY <1>1, <3>1
    <3> QED
      BY <1>2, <3>2
  <2> QED
    BY <2>1 DEF NoTie
<1>9. \/ BinarySearchP1(t, v) = -1 /\ \A i \in 1..n : v < t[i]
      \/ BinarySearchP1(t, v) \in LastNotAbove(n, t, v)
  BY <1>1, BinarySearchP1Finds
<1>10. t[k] \in Nat
  OBVIOUS
<1>11. PICK r \in 0..(n - 1) : /\ r = BinarySearchP1(t, v)
                               /\ \A i \in 1..n : i > r + 1 => v < t[i]
  <2>1. ~ (v < t[k])
    BY <1>1, <1>6, <1>10
  <2>2. BinarySearchP1(t, v) \in LastNotAbove(n, t, v)
    BY <1>9, <2>1
  <2>3. NoTie(t, n, v) /\ v < t[n]
    BY <1>7, <1>8
  <2> QED
    BY <2>2, <2>3 DEF LastNotAbove
<1>12. r + 1 \in 1..n /\ k \in 1..(r + 1)
  <2>1. ~ (v < t[k])
    BY <1>6, <1>10
  <2>2. ~ (k > r + 1)
    BY <1>11, <2>1
  <2> QED
    BY <2>2
<1>13. PICK c \in 1..n : c = r + 1
  BY <1>12
<1>14. /\ \E j \in 1..c : R[c] = TagsOf(ops, p)[j]
       /\ \A j \in 1..c : AtLeast(R[c], TagsOf(ops, p)[j])
  BY RunningMaxIsMax
<1>15. PICK j \in 1..c : R[c] = TagsOf(ops, p)[j]
  BY <1>14
<1>16. AtLeast(R[c], TagsOf(ops, p)[k])
  BY <1>12, <1>13, <1>14
<1>17. j \in 1..n /\ p[j] \in 1..n
  BY <1>3
<1>18. TagsOf(ops, p)[k] = ops[a].Tag_var /\ TagsOf(ops, p)[j] = ops[p[j]].Tag_var
  BY <1>2, <1>4, <1>17 DEF TagsOf
<1>19. R[c] \in AnyTag /\ ops[a].Tag_var \in AnyTag /\ ops[b].Tag_var \in AnyTag
  <2>1. \A i \in 1..n : ops[i].Tag_var \in AnyTag
    BY DEF Operations, AnyTag
  <2> QED
    BY <1>15, <1>17, <1>18, <2>1
<1>20. isGreaterTag(R[c], ops[b].Tag_var)
  BY <1>16, <1>18, <1>19, TagTransitive DEF InvertedAt
<1>21. b \in DOMAIN ops /\ r > -1
  OBVIOUS
<1> QED
  BY <1>1, <1>11, <1>20, <1>21, <1>13 DEF safetyCheckP1

-----------------------------------------------------------------------------
(* The log *)

LinesOn(c, o) == {op \in AllOperations : op.client_name = c /\ op.objectname = o}

TypeInv ==
  /\ operations \in [Objects -> Seq(Operations)]
  /\ maxOpnums \in [Objects -> [Clients -> Nat]]
  /\ passed \subseteq {"P1", "P2", "P3", "liveness"}

\* Every line stands in the sequence of its object, once, and ends after it starts;
\* the clients number their lines, so no two are equal.
LinesInv ==
  \A o \in Objects :
    /\ \A i \in DOMAIN operations[o] :
         operations[o][i].objectname = o /\ operations[o][i].startime_ms < operations[o][i].endtime_ms
    /\ IsInjective(operations[o])

CountInv ==
  /\ IsFiniteSet(AllOperations)
  /\ Cardinality(AllOperations) <= MaxLines
  /\ \A op \in AllOperations : op.opnum <= Cardinality(LinesOn(op.client_name, op.objectname))
  /\ \A o \in Objects, c \in Clients : maxOpnums[o][c] = Cardinality(LinesOn(c, o))

LogInv == TypeInv /\ LinesInv /\ CountInv

LEMMA LinesAreListed ==
  ASSUME TypeInv
  PROVE  /\ \A op : op \in AllOperations <=>
              \E o \in Objects : \E i \in 1..Len(operations[o]) : op = operations[o][i]
         /\ AllOperations \subseteq Operations
<1>1. \A o \in Objects : operations[o] \in Seq(Operations)
  BY DEF TypeInv
<1>2. \A o \in Objects : DOMAIN operations[o] = 1..Len(operations[o])
                         /\ \A i \in 1..Len(operations[o]) : operations[o][i] \in Operations
  BY <1>1
<1>3. \A op : op \in AllOperations <=>
        \E o \in Objects : \E i \in 1..Len(operations[o]) : op = operations[o][i]
  BY <1>2 DEF AllOperations, Range
<1> QED
  BY <1>2, <1>3

\* The sequence of an object that is in the log.
LEMMA ObjectOfLog ==
  ASSUME LogInv, NEW o \in Objects
  PROVE  \E n \in Nat :
           /\ n = Len(operations[o]) /\ n <= MaxLines
           /\ operations[o] \in [1..n -> Operations]
           /\ n = 0 <=> operations[o] = <<>>
           /\ \A i \in 1..n : operations[o][i].objectname = o
           /\ \A i \in 1..n : operations[o][i].startime_ms < operations[o][i].endtime_ms
           /\ \A i, j \in 1..n : operations[o][i] = operations[o][j] => i = j
<1>1. operations[o] \in Seq(Operations)
  BY DEF LogInv, TypeInv
<1>2. PICK n \in Nat : n = Len(operations[o])
  BY <1>1
<1>3. operations[o] \in [1..n -> Operations] /\ (n = 0 <=> operations[o] = <<>>)
  BY <1>1, <1>2
<1>4. IsInjective(operations[o])
  BY DEF LogInv, LinesInv
<1>5. \A i \in 1..n : operations[o][i] \in AllOperations
  BY <1>2, LinesAreListed DEF LogInv
<1>6. operations[o] \in Injection(1..n, AllOperations)
  BY <1>3, <1>4, <1>5 DEF Injection
<1>7. IsFiniteSet(AllOperations) /\ Cardinality(AllOperations) <= MaxLines
  BY DEF LogInv, CountInv
<1>8. Cardinality(1..n) <= Cardinality(AllOperations)
  BY <1>6, <1>7, FS_Injection
<1>9. Cardinality(1..n) = n
  BY FS_Interval
<1>10. n <= MaxLines
  <2>1. Cardinality(AllOperations) \in Nat /\ MaxLines \in Nat
    BY <1>7, FS_CardinalityType, DataAssumption
  <2> QED
    BY <1>7, <1>8, <1>9, <2>1
<1>11. \A i \in 1..n : /\ operations[o][i].objectname = o
                       /\ operations[o][i].startime_ms < operations[o][i].endtime_ms
  BY <1>3 DEF LogInv, LinesInv
<1>12. \A i, j \in 1..n : operations[o][i] = operations[o][j] => i = j
  BY <1>3, <1>4 DEF IsInjective
<1> QED
  BY <1>2, <1>3, <1>10, <1>11, <1>12

LEMMA OrderOfLog ==
  ASSUME LogInv, NEW key, NEW p \in Orders(key), NEW o \in LoggedObjects
  PROVE  \E n \in Nat \ {0} :
           /\ n = Len(operations[o])
           /\ operations[o] \in [1..n -> Operations]
           /\ p[o] \in Permutations1(n) /\ Len(p[o]) = n
           /\ \A i \in 1..(n - 1) : ~ Less(key, operations[o][p[o][i + 1]], operations[o][p[o][i]])
           /\ \A i \in 1..n : operations[o][i].objectname = o
           /\ \A i \in 1..n : operations[o][i].startime_ms < operations[o][i].endtime_ms
           /\ \A i, j \in 1..n : operations[o][i] = operations[o][j] => i = j
           /\ \A i \in 1..n : operations[o][i] \in AllOperations
<1>1. o \in Objects /\ operations[o] # <<>> /\ p[o] \in Sorted(operations[o], key)
  BY DEF LoggedObjects, Orders
<1>2. PICK n \in Nat :
           /\ n = Len(operations[o]) /\ n <= MaxLines
           /\ operations[o] \in [1..n -> Operations]
           /\ n = 0 <=> operations[o] = <<>>
           /\ \A i \in 1..n : operations[o][i].objectname = o
           /\ \A i \in 1..n : operations[o][i].startime_ms < operations[o][i].endtime_ms
           /\ \A i, j \in 1..n : operations[o][i] = operations[o][j] => i = j
  BY <1>1, ObjectOfLog
<1>3. /\ p[o] \in Permutations1(n) /\ Len(p[o]) = n
      /\ \A i \in 1..(n - 1) : ~ Less(key, operations[o][p[o][i + 1]], operations[o][p[o][i]])
  BY <1>1, <1>2, SortedPermutes
<1>4. \A i \in 1..n : operations[o][i] \in AllOperations
  BY <1>1, <1>2, LinesAreListed DEF LogInv
<1>5. n \in Nat \ {0}
  BY <1>1, <1>2
<1> QED
  BY <1>2, <1>3, <1>4, <1>5

\* Where a line of the log stands.
LEMMA PlaceOfLine ==
  ASSUME LogInv, NEW op \in AllOperations
  PROVE  /\ op.objectname \in LoggedObjects
         /\ \E i \in 1..Len(operations[op.objectname]) : op = operations[op.objectname][i]
<1>1. PICK o \in Objects : \E i \in 1..Len(operations[o]) : op = operations[o][i]
  BY LinesAreListed DEF LogInv
<1>2. op.objectname = o /\ operations[o] # <<>>
  BY <1>1, ObjectOfLog
<1> QED
  BY <1>1, <1>2 DEF LoggedObjects

-----------------------------------------------------------------------------
(* What the three checks say of the log *)

LEMMA P1OfLog ==
  ASSUME LogInv, NEW p \in Orders("endtime_ms")
  PROVE  /\ ~ (\A o \in LoggedObjects : safetyCheckP1(operations[o], p[o])) =>
              \E e, f \in AllOperations : Inversion(e, f)
         /\ (\A o \in LoggedObjects : safetyCheckP1(operations[o], p[o])) =>
              \A e, f \in AllOperations : Inversion(e, f) => EndTimesTie(f)
<1>1. ASSUME NEW o \in LoggedObjects, ~ safetyCheckP1(operations[o], p[o])
      PROVE  \E e, f \in AllOperations : Inversion(e, f)
  <2>1. PICK n \in Nat \ {0} :
           /\ n = Len(operations[o])
           /\ operations[o] \in [1..n -> Operations]
           /\ p[o] \in Permutations1(n) /\ Len(p[o]) = n
           /\ \A i \in 1..(n - 1) : ~ Less("endtime_ms", operations[o][p[o][i + 1]], operations[o][p[o][i]])
           /\ \A i \in 1..n : operations[o][i].objectname = o
           /\ \A i \in 1..n : operations[o][i] \in AllOperations
    BY OrderOfLog
  <2>2. EndTimes(operations[o], p[o]) \in [1..n -> Nat] /\ Len(EndTimes(operations[o], p[o])) = n
        /\ Nondecreasing(EndTimes(operations[o], p[o]), n)
    BY <2>1, EndTimesSorted
  <2>3. PICK a \in 1..n, b \in 1..n : InvertedAt(operations[o], a, b)
    BY <1>1, <2>1, <2>2, P1Sound
  <2>4. Inversion(operations[o][a], operations[o][b])
    BY <2>1, <2>3 DEF Inversion, InvertedAt
  <2> QED
    BY <2>1, <2>4
<1>2. ASSUME \A o \in LoggedObjects : safetyCheckP1(operations[o], p[o]),
             NEW e \in AllOperations, NEW f \in AllOperations, Inversion(e, f)
      PROVE  EndTimesTie(f)
  <2>1. PICK o \in LoggedObjects : o = f.objectname
    BY PlaceOfLine
  <2>2. e.objectname = o
    BY <1>2, <2>1 DEF Inversion
  <2>3. PICK n \in Nat \ {0} :
           /\ n = Len(operations[o])
           /\ operations[o] \in [1..n -> Operations]
           /\ p[o] \in Permutations1(n) /\ Len(p[o]) = n
           /\ \A i \in 1..(n - 1) : ~ Less("endtime_ms", operations[o][p[o][i + 1]], operations[o][p[o][i]])
           /\ \A i \in 1..n : operations[o][i].startime_ms < operations[o][i].endtime_ms
    BY OrderOfLog
  <2>4. EndTimes(operations[o], p[o]) \in [1..n -> Nat] /\ Len(EndTimes(operations[o], p[o])) = n
        /\ Nondecreasing(EndTimes(operations[o], p[o]), n)
    BY <2>3, EndTimesSorted
  <2>5. PICK a \in 1..n : e = operations[o][a]
    BY <2>2, <2>3, PlaceOfLine
  <2>6. PICK b \in 1..n : f = operations[o][b]
    BY <2>1, <2>3, PlaceOfLine
  <2>7. InvertedAt(operations[o], a, b)
    BY <1>2, <2>5, <2>6 DEF Inversion, InvertedAt
  <2>8. \E i, j \in 1..n : i # j /\ operations[o][i].endtime_ms = operations[o][b].startime_ms
                                 /\ operations[o][j].endtime_ms = operations[o][b].startime_ms
    BY <1>2, <2>3, <2>4, <2>7, P1Complete
  <2> QED
    BY <2>1, <2>3, <2>6, <2>8 DEF EndTimesTie
<1> QED
  BY <1>1, <1>2

\* The writes of an object that have one tag are one write.
TagsTellWrites ==
  \A e, f \in AllOperations :
    IsWrite(e) /\ IsWrite(f) /\ e.objectname = f.objectname /\ e.Tag_var = f.Tag_var => e = f

LEMMA P2OfLog ==
  ASSUME LogInv, NEW p \in Orders("Tag_var")
  PROVE  (\A o \in LoggedObjects : safetyCheckP2(operations[o], p[o])) <=> TagsTellWrites
<1>1. ASSUME NEW o \in LoggedObjects
      PROVE  \E n \in Nat \ {0} :
               /\ n = Len(operations[o])
               /\ operations[o] \in [1..n -> Operations]
               /\ \A i \in 1..n : operations[o][i].objectname = o
               /\ \A i, j \in 1..n : operations[o][i] = operations[o][j] => i = j
               /\ \A i \in 1..n : operations[o][i] \in AllOperations
               /\ safetyCheckP2(operations[o], p[o]) <=>
                    \A i, j \in 1..n : SameWrite(operations[o], i, j) => i = j
  <2>1. PICK n \in Nat \ {0} :
           /\ n = Len(operations[o])
           /\ operations[o] \in [1..n -> Operations]
           /\ p[o] \in Permutations1(n) /\ Len(p[o]) = n
           /\ \A i \in 1..(n - 1) : ~ Less("Tag_var", operations[o][p[o][i + 1]], operations[o][p[o][i]])
           /\ \A i \in 1..n : operations[o][i].objectname = o
           /\ \A i, j \in 1..n : operations[o][i] = operations[o][j] => i = j
           /\ \A i \in 1..n : operations[o][i] \in AllOperations
    BY OrderOfLog
  <2>2. SortedTags(TagsOf(operations[o], p[o]), n)
    BY <2>1, TagsSorted
  <2>3. safetyCheckP2(operations[o], p[o]) <=>
          \A i, j \in 1..n : SameWrite(operations[o], i, j) => i = j
    BY <2>1, <2>2, P2Meaning
  <2> QED
    BY <2>1, <2>3
<1>2. ASSUME \A o \in LoggedObjects : safetyCheckP2(operations[o], p[o]),
             NEW e \in AllOperations, NEW f \in AllOperations,
             IsWrite(e), IsWrite(f), e.objectname = f.objectname, e.Tag_var = f.Tag_var
      PROVE  e = f
  <2>1. PICK o \in LoggedObjects : o = f.objectname
    BY PlaceOfLine
  <2>2. PICK n \in Nat \ {0} :
               /\ n = Len(operations[o])
               /\ safetyCheckP2(operations[o], p[o]) <=>
                    \A i, j \in 1..n : SameWrite(operations[o], i, j) => i = j
    BY <1>1
  <2>3. PICK a \in 1..n : e = operations[o][a]
    BY <1>2, <2>1, <2>2, PlaceOfLine
  <2>4. PICK b \in 1..n : f = operations[o][b]
    BY <2>1, <2>2, PlaceOfLine
  <2>5. SameWrite(operations[o], a, b)
    BY <1>2, <2>3, <2>4 DEF SameWrite
  <2> QED
    BY <1>2, <2>2, <2>3, <2>4, <2>5
<1>3. ASSUME TagsTellWrites, NEW o \in LoggedObjects
      PROVE  safetyCheckP2(operations[o], p[o])
  <2>1. PICK n \in Nat \ {0} :
               /\ n = Len(operations[o])
               /\ operations[o] \in [1..n -> Operations]
               /\ \A i \in 1..n : operations[o][i].objectname = o
               /\ \A i, j \in 1..n : operations[o][i] = operations[o][j] => i = j
               /\ \A i \in 1..n : operations[o][i] \in AllOperations
               /\ safetyCheckP2(operations[o], p[o]) <=>
                    \A i, j \in 1..n : SameWrite(operations[o], i, j) => i = j
    BY <1>1
  <2>2. ASSUME NEW i \in 1..n, NEW j \in 1..n, SameWrite(operations[o], i, j)
        PROVE  i = j
    <3>1. operations[o][i] = operations[o][j]
      <4>1. PICK e \in AllOperations, f \in AllOperations :
              e = operations[o][i] /\ f = operations[o][j]
        BY <2>1
      <4>2. /\ IsWrite(e) /\ IsWrite(f) /\ e.Tag_var = f.Tag_var
            /\ e.objectname = o /\ f.objectname = o
        BY <2>1, <2>2, <4>1 DEF SameWrite
      <4> QED
        BY <1>3, <4>1, <4>2 DEF TagsTellWrites
    <3> QED
      BY <2>1, <3>1
  <2> QED
    BY <2>1, <2>2
<1> QED
  BY <1>2, <1>3 DEF TagsTellWrites

\* What a read must return.
ReadsReturnWrites ==
  \A r \in {op \in AllOperations : ~ IsWrite(op)} :
    /\ r.dataSafe
    /\ \/ r.Tag_var = InitialTag
       \/ \E w \in AllOperations :
            IsWrite(w) /\ w.objectname = r.objectname /\ w.Tag_var = r.Tag_var

LEMMA P3OfLog ==
  ASSUME LogInv, NEW p \in Orders("Tag_var")
  PROVE  (\A o \in LoggedObjects : safetyCheckP3(operations[o], p[o])) <=>
           TagsTellWrites /\ ReadsReturnWrites
<1> DEFINE ReadsOf(o, n) ==
      \A i \in 1..n : ~ IsWrite(operations[o][i]) =>
                /\ operations[o][i].dataSafe
                /\ \/ operations[o][i].Tag_var = InitialTag
                   \/ \E j \in 1..n : IsWrite(operations[o][j])
                                      /\ operations[o][j].Tag_var = operations[o][i].Tag_var
<1>1. ASSUME NEW o \in LoggedObjects
      PROVE  \E n \in Nat \ {0} :
               /\ n = Len(operations[o])
               /\ \A i \in 1..n : operations[o][i].objectname = o
               /\ \A i \in 1..n : operations[o][i] \in AllOperations
               /\ safetyCheckP3(operations[o], p[o]) <=>
                    safetyCheckP2(operations[o], p[o]) /\ ReadsOf(o, n)
  <2>1. PICK n \in Nat \ {0} :
           /\ n = Len(operations[o])
           /\ operations[o] \in [1..n -> Operations]
           /\ p[o] \in Permutations1(n) /\ Len(p[o]) = n
           /\ \A i \in 1..(n - 1) : ~ Less("Tag_var", operations[o][p[o][i + 1]], operations[o][p[o][i]])
           /\ \A i \in 1..n : operations[o][i].objectname = o
           /\ \A i \in 1..n : operations[o][i] \in AllOperations
    BY OrderOfLog
  <2>2. SortedTags(TagsOf(operations[o], p[o]), n)
    BY <2>1, TagsSorted
  <2>3. safetyCheckP3(operations[o], p[o]) <=>
          safetyCheckP2(operations[o], p[o]) /\ ReadsOf(o, n)
    BY <2>1, <2>2, P3Meaning
  <2> QED
    BY <2>1, <2>3
<1> DEFINE AllReads == \A o \in LoggedObjects : \E n \in Nat \ {0} :
                         n = Len(operations[o]) /\ ReadsOf(o, n)
<1>2. (\A o \in LoggedObjects : safetyCheckP3(operations[o], p[o])) <=>
        (\A o \in LoggedObjects : safetyCheckP2(operations[o], p[o])) /\ AllReads
  <2> HIDE DEF ReadsOf
  <2> QED
    BY <1>1
<1>3. ASSUME AllReads, NEW r \in AllOperations, ~ IsWrite(r)
      PROVE  /\ r.dataSafe
             /\ \/ r.Tag_var = InitialTag
                \/ \E w \in AllOperations :
                     IsWrite(w) /\ w.objectname = r.objectname /\ w.Tag_var = r.Tag_var
  <2>1. PICK o \in LoggedObjects : o = r.objectname
    BY PlaceOfLine
  <2>2. PICK n \in Nat \ {0} :
               /\ n = Len(operations[o])
               /\ \A i \in 1..n : operations[o][i].objectname = o
               /\ \A i \in 1..n : operations[o][i] \in AllOperations
    BY <1>1
  <2>3. ReadsOf(o, n)
    <3> HIDE DEF ReadsOf
    <3> QED
      BY <1>3, <2>2
  <2>4. PICK i \in 1..n : r = operations[o][i]
    BY <2>1, <2>2, PlaceOfLine
  <2>5. /\ r.dataSafe
        /\ \/ r.Tag_var = InitialTag
           \/ \E j \in 1..n : IsWrite(operations[o][j]) /\ operations[o][j].Tag_var = r.Tag_var
    BY <1>3, <2>3, <2>4
  <2> QED
    BY <2>1, <2>2, <2>5
<1>4. ASSUME ReadsReturnWrites, NEW o \in LoggedObjects
      PROVE  \E n \in Nat \ {0} : n = Len(operations[o]) /\ ReadsOf(o, n)
  <2>1. PICK n \in Nat \ {0} :
               /\ n = Len(operations[o])
               /\ \A i \in 1..n : operations[o][i].objectname = o
               /\ \A i \in 1..n : operations[o][i] \in AllOperations
    BY <1>1
  <2>2. ASSUME NEW i \in 1..n, ~ IsWrite(operations[o][i])
        PROVE  /\ operations[o][i].dataSafe
               /\ \/ operations[o][i].Tag_var = InitialTag
                  \/ \E j \in 1..n : IsWrite(operations[o][j])
                                     /\ operations[o][j].Tag_var = operations[o][i].Tag_var
    <3>1. PICK r \in AllOperations : r = operations[o][i]
      BY <2>1
    <3>2. /\ r.dataSafe
          /\ \/ r.Tag_var = InitialTag
             \/ \E w \in AllOperations :
                  IsWrite(w) /\ w.objectname = r.objectname /\ w.Tag_var = r.Tag_var
      BY <1>4, <2>2, <3>1 DEF ReadsReturnWrites
    <3>3. CASE r.Tag_var = InitialTag
      BY <3>1, <3>2, <3>3
    <3>4. CASE \E w \in AllOperations :
                  IsWrite(w) /\ w.objectname = r.objectname /\ w.Tag_var = r.Tag_var
      <4>1. PICK w \in AllOperations :
                  IsWrite(w) /\ w.objectname = r.objectname /\ w.Tag_var = r.Tag_var
        BY <3>4
      <4>2. w.objectname = o
        BY <2>1, <3>1, <4>1
      <4>3. PICK j \in 1..n : w = operations[o][j]
        BY <2>1, <4>2, PlaceOfLine
      <4> QED
        BY <3>1, <3>2, <4>1, <4>3
    <3> QED
      BY <3>2, <3>3, <3>4
  <2>3. ReadsOf(o, n)
    BY <2>2
  <2> HIDE DEF ReadsOf
  <2> QED
    BY <2>1, <2>3
<1>5. AllReads <=> ReadsReturnWrites
  <2>1. AllReads => ReadsReturnWrites
    <3> HIDE DEF AllReads
    <3> QED
      BY <1>3 DEF ReadsReturnWrites
  <2>2. ReadsReturnWrites => AllReads
    <3> HIDE DEF ReadsOf
    <3> QED
      BY <1>4
  <2> QED
    BY <2>1, <2>2
<1> HIDE DEF AllReads
<1> QED
  BY <1>2, <1>5, P2OfLog

-----------------------------------------------------------------------------
(* The log is well formed *)

LEMMA ListedIn ==
  ASSUME NEW ops \in [Objects -> Seq(Operations)]
  PROVE  \A op : op \in UNION {Range(ops[o]) : o \in Objects} <=>
           \E o \in Objects : \E i \in 1..Len(ops[o]) : op = ops[o][i]
<1>1. \A o \in Objects : ops[o] \in Seq(Operations)
  OBVIOUS
<1>2. \A o \in Objects : DOMAIN ops[o] = 1..Len(ops[o])
  BY <1>1
<1> QED
  BY <1>2 DEF Range

LEMMA InitLog == Init => LogInv
<1> SUFFICES ASSUME Init PROVE LogInv
  OBVIOUS
<1>1. \A o \in Objects : operations[o] = <<>>
  BY DEF Init
<1>2. operations \in [Objects -> Seq(Operations)]
  <2>1. << >> \in Seq(Operations)
    OBVIOUS
  <2> QED
    BY <2>1 DEF Init
<1>3. TypeInv
  BY <1>2 DEF TypeInv, Init
<1>4. LinesInv
  BY <1>1 DEF LinesInv, IsInjective
<1>5. AllOperations = {}
  <2>1. \A op : op \in AllOperations <=>
              \E o \in Objects : \E i \in 1..Len(operations[o]) : op = operations[o][i]
    BY <1>3, LinesAreListed
  <2> QED
    BY <2>1, <1>1
<1>6. \A c, o : LinesOn(c, o) = {}
  BY <1>5 DEF LinesOn
<1>7. \A o \in Objects, c \in Clients : maxOpnums[o][c] = 0
  BY DEF Init
<1>8. CountInv
  BY <1>5, <1>6, <1>7, FS_EmptySet, DataAssumption DEF CountInv
<1> QED
  BY <1>3, <1>4, <1>8 DEF LogInv

LEMMA NextLineIsNew ==
  ASSUME LogInv, NEW c \in NextClients, NEW line \in Following(c)
  PROVE  /\ c \in Clients /\ line.client_name = c /\ line.objectname \in Objects
         /\ line \in Operations
         /\ line.startime_ms < line.endtime_ms
         /\ LinesOn(c, line.objectname) \in SUBSET AllOperations
         /\ IsFiniteSet(LinesOn(c, line.objectname))
         /\ line.opnum = 1 + Cardinality(LinesOn(c, line.objectname))
         /\ line \notin AllOperations
<1>1. c \in Clients
  BY DEF NextClients, Clients, Range
<1>2. /\ line.client_name = c /\ line.objectname \in Objects /\ line.opnum \in 1..MaxLines
      /\ line.startime_ms < line.endtime_ms
  BY DEF Following
<1>3. line \in Operations
  <2>1. LoggedTags[c] \subseteq Tag
    BY <1>1, DataAssumption
  <2>2. PICK tags \in SUBSET Tag : tags = LoggedTags[c]
    BY <2>1
  <2>3. (IF c \in Writers THEN {TRUE} ELSE BOOLEAN) \subseteq BOOLEAN
    OBVIOUS
  <2>4. line \in [client_name : {c}, objectname : Objects, opnum : 1..MaxLines,
                  startime_ms : Times, endtime_ms : Times, Tag_var : tags, dataSafe : BOOLEAN]
    BY <2>2, <2>3 DEF Following
  <2> QED
    BY <1>1, <2>4 DEF Operations
<1>4. LinesOn(c, line.objectname) = {op \in LinesOf(c) : op.objectname = line.objectname}
  BY DEF LinesOn, LinesOf
<1>5. line.opnum = 1 + Cardinality(LinesOn(c, line.objectname))
  BY <1>4 DEF Following
<1>6. LinesOn(c, line.objectname) \in SUBSET AllOperations
  BY DEF LinesOn
<1>7. IsFiniteSet(LinesOn(c, line.objectname))
  BY <1>6, FS_Subset DEF LogInv, CountInv
<1>8. line \notin AllOperations
  <2> SUFFICES ASSUME line \in AllOperations PROVE FALSE
    OBVIOUS
  <2>1. line.opnum <= Cardinality(LinesOn(c, line.objectname))
    BY <1>2 DEF LogInv, CountInv
  <2>2. Cardinality(LinesOn(c, line.objectname)) \in Nat
    BY <1>7, FS_CardinalityType
  <2> QED
    BY <1>5, <2>1, <2>2
<1> QED
  BY <1>1, <1>2, <1>3, <1>5, <1>6, <1>7, <1>8

LEMMA LineAppended ==
  ASSUME LogInv, NEW c \in NextClients, NEW line \in Following(c), ReadLine(line)
  PROVE  TypeInv' /\ LinesInv' /\ AllOperations' = AllOperations \cup {line}
<1>1. PICK o \in Objects : o = line.objectname
  BY NextLineIsNew
<1>2. c \in Clients /\ line \in Operations /\ line \notin AllOperations
      /\ line.client_name = c /\ line.startime_ms < line.endtime_ms
      /\ line.opnum \in Nat
  BY NextLineIsNew DEF Operations
<1>3. operations \in [Objects -> Seq(Operations)] /\ maxOpnums \in [Objects -> [Clients -> Nat]]
      /\ passed \subseteq {"P1", "P2", "P3", "liveness"}
  BY DEF LogInv, TypeInv
<1>4. PICK s \in Seq(Operations) : s = operations[o]
  BY <1>3
<1>5. operations' = [operations EXCEPT ![o] = Append(s, line)]
  BY <1>1, <1>4 DEF ReadLine
<1>6. Append(s, line) \in Seq(Operations) /\ Len(Append(s, line)) = Len(s) + 1
      /\ Append(s, line)[Len(s) + 1] = line
      /\ \A i \in 1..Len(s) : Append(s, line)[i] = s[i]
      /\ DOMAIN Append(s, line) = 1..(Len(s) + 1)
      /\ DOMAIN s = 1..Len(s) /\ Len(s) \in Nat
  BY <1>2, <1>4
<1> DEFINE t == Append(s, line)
<1> HIDE DEF t
<1>7. operations' \in [Objects -> Seq(Operations)]
      /\ operations'[o] = t
      /\ \A u \in Objects : u # o => operations'[u] = operations[u]
  BY <1>3, <1>5, <1>6 DEF t
<1>8. TypeInv'
  <2>1. maxOpnums' = [maxOpnums EXCEPT ![o][c] = line.opnum] /\ passed' = passed
    BY <1>1, <1>2 DEF ReadLine, NewMaxOpnum
  <2>2. maxOpnums' \in [Objects -> [Clients -> Nat]]
    BY <1>2, <1>3, <2>1
  <2> QED
    BY <1>3, <1>7, <2>1, <2>2 DEF TypeInv
<1>9. \A op : op \in AllOperations <=>
        \E u \in Objects : \E i \in 1..Len(operations[u]) : op = operations[u][i]
  BY <1>3, ListedIn DEF AllOperations
<1>10. \A op : op \in AllOperations' <=>
        \E u \in Objects : \E i \in 1..Len(operations'[u]) : op = operations'[u][i]
  <2>1. operations' \in [Objects -> Seq(Operations)]
    BY <1>7
  <2>2. \A op : op \in UNION {Range(operations'[u]) : u \in Objects} <=>
          \E u \in Objects : \E i \in 1..Len(operations'[u]) : op = operations'[u][i]
    BY <2>1, ListedIn
  <2>3. UNION {Range(operations'[u]) : u \in Objects} = AllOperations'
    BY DEF AllOperations
  <2>4. ASSUME NEW S, S = AllOperations',
               \A op : op \in S <=>
          \E u \in Objects : \E i \in 1..Len(operations'[u]) : op = operations'[u][i]
        PROVE \A op : op \in AllOperations' <=>
          \E u \in Objects : \E i \in 1..Len(operations'[u]) : op = operations'[u][i]
    BY <2>4
  <2> QED
    BY <2>2, <2>3, <2>4
<1>11. AllOperations' = AllOperations \cup {line}
  <2>1. ASSUME NEW op \in AllOperations'
        PROVE  op \in AllOperations \cup {line}
    <3>1. PICK u \in Objects : \E i \in 1..Len(operations'[u]) : op = operations'[u][i]
      BY <1>10
    <3>2. CASE u # o
      BY <1>7, <1>9, <3>1, <3>2
    <3>3. CASE u = o
      <4>1. PICK i \in 1..(Len(s) + 1) : op = t[i]
        BY <1>6, <1>7, <3>1, <3>3 DEF t
      <4>2. CASE i = Len(s) + 1
        BY <1>6, <4>1, <4>2 DEF t
      <4>3. CASE i # Len(s) + 1
        <5>1. i \in 1..Len(s)
          BY <1>6, <4>3
        <5>2. op = operations[o][i]
          BY <1>4, <1>6, <4>1, <5>1 DEF t
        <5> QED
          BY <1>4, <1>9, <5>1, <5>2
      <4> QED
        BY <4>2, <4>3
    <3> QED
      BY <3>2, <3>3
  <2>2. ASSUME NEW op \in AllOperations
        PROVE  op \in AllOperations'
    <3>1. PICK u \in Objects : \E i \in 1..Len(operations[u]) : op = operations[u][i]
      BY <1>9
    <3>2. CASE u # o
      BY <1>7, <1>10, <3>1, <3>2
    <3>3. CASE u = o
      <4>1. PICK i \in 1..Len(s) : op = s[i]
        BY <1>4, <3>1, <3>3
      <4>2. i \in 1..Len(t) /\ t[i] = op
        BY <1>6, <4>1 DEF t
      <4> QED
        BY <1>7, <1>10, <4>2
    <3> QED
      BY <3>2, <3>3
  <2>3. line \in AllOperations'
    <3>1. Len(s) + 1 \in 1..Len(t) /\ t[Len(s) + 1] = line
      BY <1>6 DEF t
    <3> QED
      BY <1>7, <1>10, <3>1
  <2> QED
    BY <2>1, <2>2, <2>3
<1>12. LinesInv'
  <2>1. ASSUME NEW u \in Objects, u # o
        PROVE  /\ \A i \in DOMAIN operations'[u] :
                    operations'[u][i].objectname = u
                    /\ operations'[u][i].startime_ms < operations'[u][i].endtime_ms
               /\ IsInjective(operations'[u])
    <3>1. operations'[u] = operations[u]
      BY <1>7, <2>1
    <3> QED
      BY <3>1 DEF LogInv, LinesInv
  <2>2. /\ \A i \in DOMAIN t : t[i].objectname = o /\ t[i].startime_ms < t[i].endtime_ms
        /\ IsInjective(t)
    <3>1. /\ \A i \in 1..Len(s) : s[i].objectname = o /\ s[i].startime_ms < s[i].endtime_ms
          /\ \A i, j \in 1..Len(s) : s[i] = s[j] => i = j
          /\ \A i \in 1..Len(s) : s[i] # line
      <4>1. IsInjective(s) /\ \A i \in DOMAIN s : s[i].objectname = o /\ s[i].startime_ms < s[i].endtime_ms
        BY <1>4 DEF LogInv, LinesInv
      <4>2. \A i \in 1..Len(s) : s[i] \in AllOperations
        BY <1>4, <1>9
      <4> QED
        BY <1>2, <1>6, <4>1, <4>2 DEF IsInjective
    <3>2. \A i \in 1..(Len(s) + 1) : i \in 1..Len(s) \/ i = Len(s) + 1
      BY <1>6
    <3>3. \A i \in 1..(Len(s) + 1) : t[i].objectname = o /\ t[i].startime_ms < t[i].endtime_ms
      BY <1>1, <1>2, <1>6, <3>1, <3>2 DEF t
    <3>4. \A i, j \in 1..(Len(s) + 1) : t[i] = t[j] => i = j
      BY <1>6, <3>1, <3>2 DEF t
    <3> QED
      BY <1>6, <3>3, <3>4 DEF t, IsInjective
  <2> QED
    BY <1>7, <2>1, <2>2 DEF LinesInv
<1> QED
  BY <1>8, <1>11, <1>12

LEMMA LineCounted ==
  ASSUME LogInv, NEW c \in NextClients, NEW line \in Following(c), ReadLine(line)
  PROVE  CountInv'
<1>1. PICK o \in Objects : o = line.objectname
  BY NextLineIsNew
<1>2. /\ c \in Clients /\ line.client_name = c /\ line \notin AllOperations
      /\ IsFiniteSet(LinesOn(c, o)) /\ line.opnum = 1 + Cardinality(LinesOn(c, o))
  BY <1>1, NextLineIsNew
<1>3. AllOperations' = AllOperations \cup {line}
  BY LineAppended
<1>4. IsFiniteSet(AllOperations) /\ Cardinality(AllOperations) < MaxLines
  BY DEF LogInv, CountInv, ReadLine
<1>5. IsFiniteSet(AllOperations') /\ Cardinality(AllOperations') = Cardinality(AllOperations) + 1
  BY <1>2, <1>3, <1>4, FS_AddElement
<1>6. Cardinality(AllOperations') <= MaxLines
  <2>1. Cardinality(AllOperations) \in Nat /\ MaxLines \in Nat
    BY <1>4, FS_CardinalityType, DataAssumption
  <2> QED
    BY <1>4, <1>5, <2>1
<1>7. \A d, u : ~ (d = c /\ u = o) => LinesOn(d, u)' = LinesOn(d, u)
  BY <1>1, <1>2, <1>3 DEF LinesOn
<1>8. LinesOn(c, o)' = LinesOn(c, o) \cup {line} /\ line \notin LinesOn(c, o)
  BY <1>1, <1>2, <1>3 DEF LinesOn
<1>9. Cardinality(LinesOn(c, o)') = Cardinality(LinesOn(c, o)) + 1
      /\ Cardinality(LinesOn(c, o)) \in Nat
  BY <1>2, <1>8, FS_AddElement, FS_CardinalityType
<1>10. ASSUME NEW op \in AllOperations'
       PROVE  op.opnum <= Cardinality(LinesOn(op.client_name, op.objectname)')
  <2>1. CASE op = line
    BY <1>1, <1>2, <1>9, <2>1
  <2>2. CASE op \in AllOperations /\ ~ (op.client_name = c /\ op.objectname = o)
    BY <1>7, <2>2 DEF LogInv, CountInv
  <2>3. CASE op \in AllOperations /\ op.client_name = c /\ op.objectname = o
    <3>1. op.opnum <= Cardinality(LinesOn(c, o))
      BY <2>3 DEF LogInv, CountInv
    <3>2. op.opnum \in Nat
      BY <2>3, LinesAreListed DEF LogInv, Operations
    <3> QED
      BY <1>9, <2>3, <3>1, <3>2
  <2> QED
    BY <1>3, <2>1, <2>2, <2>3
<1>11. ASSUME NEW u \in Objects, NEW d \in Clients
       PROVE  maxOpnums'[u][d] = Cardinality(LinesOn(d, u)')
  <2>1. maxOpnums \in [Objects -> [Clients -> Nat]]
        /\ maxOpnums' = [maxOpnums EXCEPT ![o][c] = line.opnum]
    BY <1>1, <1>2 DEF ReadLine, NewMaxOpnum, LogInv, TypeInv
  <2>2. maxOpnums[u][d] = Cardinality(LinesOn(d, u))
    BY DEF LogInv, CountInv
  <2>3. CASE d = c /\ u = o
    <3>1. maxOpnums'[o][c] = line.opnum
      BY <1>2, <2>1
    <3>2. line.opnum = Cardinality(LinesOn(c, o)')
      BY <1>2, <1>9
    <3> QED
      BY <2>3, <3>1, <3>2
  <2>4. CASE ~ (d = c /\ u = o)
    <3>1. maxOpnums'[u][d] = maxOpnums[u][d]
      BY <2>1, <2>4
    <3> QED
      BY <1>7, <2>2, <2>4, <3>1
  <2> QED
    BY <2>3, <2>4
<1> QED
  BY <1>5, <1>6, <1>10, <1>11 DEF CountInv

LEMMA NextLog == LogInv /\ [Next]_vars => LogInv'
<1> SUFFICES ASSUME LogInv, [Next]_vars PROVE LogInv'
  OBVIOUS
<1>1. ASSUME NEW c \in NextClients, NEW line \in Following(c), ReadLine(line)
      PROVE  LogInv'
  BY <1>1, LineAppended, LineCounted DEF LogInv
<1>2. ASSUME UNCHANGED <<operations, maxOpnums>>, passed' \subseteq {"P1", "P2", "P3", "liveness"}
      PROVE  LogInv'
  <2>1. TypeInv'
    BY <1>2 DEF LogInv, TypeInv
  <2>2. LinesInv'
    BY <1>2 DEF LogInv, LinesInv
  <2>3. AllOperations' = AllOperations
    BY <1>2 DEF AllOperations
  <2>4. \A c, o : LinesOn(c, o)' = LinesOn(c, o)
    BY <2>3 DEF LinesOn
  <2>5. CountInv'
    BY <1>2, <2>3, <2>4 DEF LogInv, CountInv
  <2> QED
    BY <2>1, <2>2, <2>5 DEF LogInv
<1>3. passed \subseteq {"P1", "P2", "P3", "liveness"}
  BY DEF LogInv, TypeInv
<1>4. CASE EndOfFile
  BY <1>2, <1>3, <1>4 DEF EndOfFile
<1>5. CASE CheckP1
  BY <1>2, <1>3, <1>5 DEF CheckP1, Check
<1>6. CASE CheckP2
  BY <1>2, <1>3, <1>6 DEF CheckP2, Check
<1>7. CASE CheckP3
  BY <1>2, <1>3, <1>7 DEF CheckP3, Check
<1>8. CASE CheckLiveness
  BY <1>2, <1>3, <1>8 DEF CheckLiveness, Check
<1>9. CASE Done \/ UNCHANGED vars
  BY <1>2, <1>3, <1>9 DEF Done, vars
<1> QED
  BY <1>1, <1>4, <1>5, <1>6, <1>7, <1>8, <1>9 DEF Next

-----------------------------------------------------------------------------
(* The sums of the liveness check *)

\* f adds up h over the subsets of S, an element at a time.
IsSum(f, h, S) ==
  f = [s \in SUBSET S |-> IF s = {} THEN 0
                          ELSE h[CHOOSE x \in s : TRUE] + f[s \ {CHOOSE x \in s : TRUE}]]

LEMMA SumIs ==
  ASSUME NEW S, IsFiniteSet(S), NEW h \in [S -> Nat], NEW G \in [SUBSET S -> Nat],
         G[{}] = 0, \A s \in SUBSET S : \A x \in s : G[s] = h[x] + G[s \ {x}]
  PROVE  /\ \E f : IsSum(f, h, S)
         /\ \A f : IsSum(f, h, S) => f[S] = G[S]
<1>1. IsSum(G, h, S)
  <2>1. \A s \in SUBSET S : s # {} => (CHOOSE x \in s : TRUE) \in s
    OBVIOUS
  <2>2. \A s \in SUBSET S :
          G[s] = IF s = {} THEN 0 ELSE h[CHOOSE x \in s : TRUE] + G[s \ {CHOOSE x \in s : TRUE}]
    BY <2>1
  <2> QED
    BY <2>2 DEF IsSum
<1>2. ASSUME NEW f, IsSum(f, h, S)
      PROVE  f[S] = G[S]
  <2> DEFINE T == {n \in Nat : \A s \in SUBSET S : Cardinality(s) = n => f[s] = G[s]}
  <2>1. \A s \in SUBSET S : IsFiniteSet(s) /\ Cardinality(s) \in Nat
    BY FS_Subset, FS_CardinalityType
  <2>2. 0 \in T
    <3>1. \A s \in SUBSET S : Cardinality(s) = 0 => s = {}
      BY <2>1, FS_EmptySet
    <3>2. f[{}] = 0
      BY <1>2 DEF IsSum
    <3> QED
      BY <3>1, <3>2
  <2>3. ASSUME NEW n \in Nat, n \in T
        PROVE  n + 1 \in T
    <3>1. ASSUME NEW s \in SUBSET S, Cardinality(s) = n + 1
          PROVE  f[s] = G[s]
      <4>1. s # {}
        <5> SUFFICES ASSUME s = {} PROVE FALSE
          OBVIOUS
        <5>1. Cardinality(s) = 0
          BY FS_EmptySet
        <5> QED
          BY <3>1, <5>1
      <4>2. PICK x \in s : x = CHOOSE y \in s : TRUE
        BY <4>1
      <4>3. s \ {x} \in SUBSET S /\ Cardinality(s \ {x}) = n
        <5>1. IsFiniteSet(s)
          BY <2>1
        <5>2. Cardinality(s \ {x}) = Cardinality(s) - 1
          BY <4>2, <5>1, FS_RemoveElement
        <5> QED
          BY <3>1, <5>2
      <4>4. f[s \ {x}] = G[s \ {x}]
        BY <2>3, <4>3
      <4>5. f[s] = h[x] + f[s \ {x}]
        BY <1>2, <4>1, <4>2 DEF IsSum
      <4> QED
        BY <4>4, <4>5
    <3> QED
      BY <3>1
  <2>4. Nat \subseteq T
    <3> HIDE DEF T
    <3> QED
      BY <2>2, <2>3, InductionOverSet
  <2> QED
    BY <2>1, <2>4
<1> QED
  BY <1>1, <1>2

LEMMA TotalIsSum ==
  ASSUME NEW c, NEW h, h = [o \in LoggedObjects |-> maxOpnums[o][c]]
  PROVE  TotalOpnum(c) = (CHOOSE f : IsSum(f, h, LoggedObjects))[LoggedObjects]
<1> DEFINE S == LoggedObjects
           IsFold(f) == f = [s \in SUBSET S |-> IF s = {} THEN 0
                               ELSE maxOpnums[CHOOSE x \in s : TRUE][c]
                                    + f[s \ {CHOOSE x \in s : TRUE}]]
<1>1. TotalOpnum(c) = (CHOOSE f : IsFold(f))[S]
  BY DEF TotalOpnum, MapThenSumSet, MapThenFoldSet
<1>2. \A s \in SUBSET S : s # {} => h[CHOOSE x \in s : TRUE] = maxOpnums[CHOOSE x \in s : TRUE][c]
  OBVIOUS
<1>3. \A f : IsFold(f) <=> IsSum(f, h, S)
  BY <1>2 DEF IsSum
<1> HIDE DEF IsFold
<1> QED
  BY <1>1, <1>3

LEMMA LinesAreSum ==
  ASSUME NEW C, NEW h, h = [c \in C |-> Cardinality(LinesOf(c))]
  PROVE  MapThenSumSet(LAMBDA c : Cardinality(LinesOf(c)), C) = (CHOOSE f : IsSum(f, h, C))[C]
<1> DEFINE IsFold(f) == f = [s \in SUBSET C |-> IF s = {} THEN 0
                               ELSE Cardinality(LinesOf(CHOOSE x \in s : TRUE))
                                    + f[s \ {CHOOSE x \in s : TRUE}]]
<1>1. MapThenSumSet(LAMBDA c : Cardinality(LinesOf(c)), C) = (CHOOSE f : IsFold(f))[C]
  BY DEF MapThenSumSet, MapThenFoldSet
<1>2. \A s \in SUBSET C : s # {} =>
        h[CHOOSE x \in s : TRUE] = Cardinality(LinesOf(CHOOSE x \in s : TRUE))
  OBVIOUS
<1>3. \A f : IsFold(f) <=> IsSum(f, h, C)
  BY <1>2 DEF IsSum
<1> HIDE DEF IsFold
<1> QED
  BY <1>1, <1>3

\* As many lines of each client of C, times the clients.
LEMMA SumOfEqual ==
  ASSUME NEW C, IsFiniteSet(C), NEW m \in Nat, \A c \in C : Cardinality(LinesOf(c)) = m
  PROVE  MapThenSumSet(LAMBDA c : Cardinality(LinesOf(c)), C) = m * Cardinality(C)
<1> DEFINE h == [c \in C |-> Cardinality(LinesOf(c))]
           G == [s \in SUBSET C |-> m * Cardinality(s)]
<1>1. \A s \in SUBSET C : IsFiniteSet(s) /\ Cardinality(s) \in Nat
  BY FS_Subset, FS_CardinalityType
<1>2. h \in [C -> Nat]
  OBVIOUS
<1>3. G \in [SUBSET C -> Nat]
  BY <1>1
<1>4. G[{}] = 0
  BY FS_EmptySet
<1>5. ASSUME NEW s \in SUBSET C, NEW x \in s
      PROVE  G[s] = h[x] + G[s \ {x}]
  <2>1. IsFiniteSet(s) /\ Cardinality(s) \in Nat
    BY <1>1
  <2>2. Cardinality(s \ {x}) = Cardinality(s) - 1
    BY <2>1, FS_RemoveElement
  <2>3. Cardinality(s \ {x}) \in Nat
    BY <1>1
  <2>4. G[s] = m * Cardinality(s) /\ G[s \ {x}] = m * Cardinality(s \ {x}) /\ h[x] = m
    OBVIOUS
  <2>5. \A a, b \in Nat : b = a - 1 => m * a = m + m * b
    OBVIOUS
  <2> HIDE DEF G, h
  <2> QED
    BY <2>1, <2>2, <2>3, <2>4, <2>5
<1>6. G[C] = m * Cardinality(C)
  OBVIOUS
<1>7. h = [c \in C |-> Cardinality(LinesOf(c))]
  OBVIOUS
<1> HIDE DEF G, h
<1>8. (\E f : IsSum(f, h, C)) /\ \A f : IsSum(f, h, C) => f[C] = G[C]
  BY <1>2, <1>3, <1>4, <1>5, SumIs
<1>9. MapThenSumSet(LAMBDA c : Cardinality(LinesOf(c)), C) = (CHOOSE f : IsSum(f, h, C))[C]
  BY <1>7, LinesAreSum
<1> QED
  BY <1>6, <1>8, <1>9

LEMMA LoggedObjectsFinite ==
  ASSUME LogInv
  PROVE  IsFiniteSet(LoggedObjects)
<1> DEFINE f == [op \in AllOperations |-> op.objectname]
<1>1. f \in [AllOperations -> LoggedObjects]
  BY PlaceOfLine
<1>2. ASSUME NEW o \in LoggedObjects
      PROVE  \E op \in AllOperations : f[op] = o
  <2>1. o \in Objects /\ operations[o] # <<>>
    BY DEF LoggedObjects
  <2>2. PICK n \in Nat :
           /\ n = Len(operations[o])
           /\ n = 0 <=> operations[o] = <<>>
           /\ \A i \in 1..n : operations[o][i].objectname = o
    BY <2>1, ObjectOfLog
  <2>3. 1 \in 1..n
    BY <2>1, <2>2
  <2>4. operations[o][1] \in AllOperations
    BY <2>1, <2>2, <2>3, LinesAreListed DEF LogInv
  <2> QED
    BY <2>2, <2>3, <2>4
<1>3. f \in Surjection(AllOperations, LoggedObjects)
  BY <1>1, <1>2 DEF Surjection
<1> QED
  BY <1>3, FS_Surjection DEF LogInv, CountInv

\* The numbers that the clients gave their operations add up to their lines.
LEMMA TotalIsLines ==
  ASSUME LogInv, NEW c \in Clients
  PROVE  TotalOpnum(c) = Cardinality(LinesOf(c))
<1> DEFINE S == LoggedObjects
           On(s) == {op \in LinesOf(c) : op.objectname \in s}
           h == [o \in S |-> maxOpnums[o][c]]
           G == [s \in SUBSET S |-> Cardinality(On(s))]
<1>1. IsFiniteSet(S) /\ S \subseteq Objects
  BY LoggedObjectsFinite DEF LoggedObjects
<1>2. IsFiniteSet(LinesOf(c))
  BY FS_Subset DEF LogInv, CountInv, LinesOf
<1>3. \A s : IsFiniteSet(On(s)) /\ Cardinality(On(s)) \in Nat
  BY <1>2, FS_Subset, FS_CardinalityType
<1>4. h \in [S -> Nat]
  BY <1>1 DEF LogInv, TypeInv
<1>5. G \in [SUBSET S -> Nat]
  BY <1>3
<1>6. G[{}] = 0
  <2>1. On({}) = {}
    OBVIOUS
  <2> QED
    BY <2>1, FS_EmptySet
<1>7. ASSUME NEW s \in SUBSET S, NEW x \in s
      PROVE  G[s] = h[x] + G[s \ {x}]
  <2>1. LinesOn(c, x) = On({x})
    BY DEF LinesOn, LinesOf
  <2>2. h[x] = Cardinality(On({x}))
    BY <1>1, <2>1 DEF LogInv, CountInv
  <2>3. On(s) = On({x}) \cup On(s \ {x}) /\ On({x}) \cap On(s \ {x}) = {}
    OBVIOUS
  <2>4. G[s] = Cardinality(On(s)) /\ G[s \ {x}] = Cardinality(On(s \ {x}))
    OBVIOUS
  <2>5. /\ IsFiniteSet(On({x})) /\ Cardinality(On({x})) \in Nat
        /\ IsFiniteSet(On(s \ {x})) /\ Cardinality(On(s \ {x})) \in Nat
    BY <1>3
  <2>6. Cardinality({}) = 0
    BY FS_EmptySet
  <2> HIDE DEF G, h, On
  <2>7. Cardinality(On({x}) \cup On(s \ {x})) =
          Cardinality(On({x})) + Cardinality(On(s \ {x})) - Cardinality(On({x}) \cap On(s \ {x}))
    BY <2>5, FS_Union
  <2>8. Cardinality(On({x}) \cap On(s \ {x})) = 0
    BY <2>3, <2>6, Zenon
  <2>9. G[s] = Cardinality(On({x}) \cup On(s \ {x}))
    BY <2>3, <2>4, Zenon
  <2> QED
    BY <2>2, <2>4, <2>5, <2>7, <2>8, <2>9
<1>8. G[S] = Cardinality(LinesOf(c))
  <2>1. On(S) = LinesOf(c)
    BY PlaceOfLine DEF LinesOf
  <2> QED
    BY <2>1
<1>9. h = [o \in LoggedObjects |-> maxOpnums[o][c]]
  OBVIOUS
<1> HIDE DEF G, h
<1>10. (\E f : IsSum(f, h, S)) /\ \A f : IsSum(f, h, S) => f[S] = G[S]
  BY <1>1, <1>4, <1>5, <1>6, <1>7, SumIs
<1>11. TotalOpnum(c) = (CHOOSE f : IsSum(f, h, S))[S]
  BY <1>9, TotalIsSum
<1> QED
  BY <1>8, <1>10, <1>11

LEMMA ClientsFinite == IsFiniteSet(Writers) /\ IsFiniteSet(Readers)
<1>1. Logs \in Surjection(1..Len(Logs), Clients) /\ Len(Logs) \in Nat
  <2>1. Logs \in Seq(Clients)
    BY LogsAssumption
  <2>2. DOMAIN Logs = 1..Len(Logs) /\ Logs \in [1..Len(Logs) -> Clients] /\ Len(Logs) \in Nat
    BY <2>1
  <2> QED
    BY <2>2 DEF Surjection, Clients, Range
<1>2. IsFiniteSet(1..Len(Logs))
  BY <1>1, FS_Interval
<1>3. IsFiniteSet(Clients)
  BY <1>1, <1>2, FS_Surjection
<1>4. Writers \in SUBSET Clients /\ Readers \in SUBSET Clients
  BY LogsAssumption DEF Readers
<1> QED
  BY <1>3, <1>4, FS_Subset

\* Every client logged as many operations as it was asked for.
AllExecuted ==
  \A c \in Clients : Cardinality(LinesOf(c)) = IF c \in Writers THEN numWrites ELSE numReads

LEMMA LivenessOfLog ==
  ASSUME LogInv
  PROVE  livenessCheck <=> AllExecuted
<1>1. Writers \subseteq Clients /\ Readers = Clients \ Writers
      /\ numWrites \in Nat /\ numReads \in Nat
  BY LogsAssumption, DataAssumption DEF Readers
<1>2. \A c \in Clients : TotalOpnum(c) = Cardinality(LinesOf(c))
  BY TotalIsLines
<1>3. (\A w \in Writers : TotalOpnum(w) = numWrites) /\ (\A r \in Readers : TotalOpnum(r) = numReads)
        <=> AllExecuted
  BY <1>1, <1>2 DEF AllExecuted
<1>4. ASSUME AllExecuted
      PROVE  /\ numWrites * Cardinality(Writers) =
                  MapThenSumSet(LAMBDA w : Cardinality(LinesOf(w)), Writers)
             /\ numReads * Cardinality(Readers) =
                  MapThenSumSet(LAMBDA r : Cardinality(LinesOf(r)), Readers)
  <2>1. \A w \in Writers : Cardinality(LinesOf(w)) = numWrites
    BY <1>1, <1>4 DEF AllExecuted
  <2>2. \A r \in Readers : Cardinality(LinesOf(r)) = numReads
    BY <1>1, <1>4 DEF AllExecuted
  <2> QED
    BY <1>1, <2>1, <2>2, ClientsFinite, SumOfEqual
<1> QED
  BY <1>3, <1>4 DEF livenessCheck

-----------------------------------------------------------------------------
(* What the checks have answered *)

AfterP1 == {"P2", "P3", "liveness", "done"}
AfterP2 == {"P3", "liveness", "done"}
AfterP3 == {"liveness", "done"}

\* A check has not passed before it ran, and the answers are the right ones.
AnswersInv ==
  /\ stage \in {"reading", "P1"} \cup AfterP1
  /\ "P1" \in passed => stage \in AfterP1
  /\ "P2" \in passed => stage \in AfterP2
  /\ "P3" \in passed => stage \in AfterP3
  /\ "liveness" \in passed => stage = "done"
  /\ P1RaisesNoFalseAlarm
  /\ P1FindsEveryInversion
  /\ stage \in AfterP2 => ("P2" \in passed <=> TagsTellWrites)
  /\ stage \in AfterP3 => ("P3" \in passed <=> TagsTellWrites /\ ReadsReturnWrites)
  /\ stage = "done" => ("liveness" \in passed <=> AllExecuted)

\* The log is complete once it has been read.
LEMMA AnswersStay ==
  ASSUME AnswersInv, UNCHANGED <<operations, maxOpnums>>
  PROVE  /\ AllOperations' = AllOperations
         /\ TagsTellWrites' <=> TagsTellWrites
         /\ ReadsReturnWrites' <=> ReadsReturnWrites
         /\ \A f : EndTimesTie(f)' <=> EndTimesTie(f)
         /\ AllExecuted' <=> AllExecuted
<1>1. AllOperations' = AllOperations
  BY DEF AllOperations
<1>2. TagsTellWrites' <=> TagsTellWrites
  BY <1>1 DEF TagsTellWrites, IsWrite
<1>3. ReadsReturnWrites' <=> ReadsReturnWrites
  BY <1>1 DEF ReadsReturnWrites, IsWrite
<1>4. \A f : EndTimesTie(f)' <=> EndTimesTie(f)
  BY DEF EndTimesTie
<1>5. AllExecuted' <=> AllExecuted
  BY <1>1 DEF AllExecuted, LinesOf
<1> QED
  BY <1>1, <1>2, <1>3, <1>4, <1>5

LEMMA InitAnswers == Init => AnswersInv
BY DEF Init, AnswersInv, AfterP1, AfterP2, AfterP3, P1RaisesNoFalseAlarm, P1FindsEveryInversion

LEMMA CheckP1Answers ==
  ASSUME LogInv, AnswersInv, CheckP1
  PROVE  AnswersInv'
<1>1. PICK p \in Orders("endtime_ms") :
        Check("P1", "P2", \A o \in LoggedObjects : safetyCheckP1(operations[o], p[o]))
  BY DEF CheckP1
<1>2. UNCHANGED <<operations, maxOpnums>> /\ stage = "P1" /\ stage' = "P2"
  BY <1>1 DEF Check
<1>3. /\ AllOperations' = AllOperations
      /\ \A f : EndTimesTie(f)' <=> EndTimesTie(f)
  BY <1>2, AnswersStay
<1>4. "P1" \notin passed /\ "P2" \notin passed /\ "P3" \notin passed
  BY <1>2 DEF AnswersInv, AfterP1, AfterP2, AfterP3
<1>5. CASE \A o \in LoggedObjects : safetyCheckP1(operations[o], p[o])
  <2>1. passed' = passed \cup {"P1"}
    BY <1>1, <1>5, ZenonT(40) DEF Check
  <2>2. \A e, f \in AllOperations : Inversion(e, f) => EndTimesTie(f)
    BY <1>5, P1OfLog
  <2>3. P1FindsEveryInversion' /\ P1RaisesNoFalseAlarm'
    BY <1>3, <2>1, <2>2 DEF P1FindsEveryInversion, P1RaisesNoFalseAlarm
  <2> QED
    BY <1>2, <1>4, <2>1, <2>3 DEF AnswersInv, AfterP1, AfterP2, AfterP3
<1>6. CASE ~ \A o \in LoggedObjects : safetyCheckP1(operations[o], p[o])
  <2>1. passed' = passed
    BY <1>1, <1>6, ZenonT(40) DEF Check
  <2>2. \E e, f \in AllOperations : Inversion(e, f)
    BY <1>6, P1OfLog
  <2>3. P1FindsEveryInversion' /\ P1RaisesNoFalseAlarm'
    BY <1>3, <1>4, <2>1, <2>2 DEF P1FindsEveryInversion, P1RaisesNoFalseAlarm
  <2> QED
    BY <1>2, <1>4, <2>1, <2>3 DEF AnswersInv, AfterP1, AfterP2, AfterP3
<1> QED
  BY <1>5, <1>6

\* The answers of P1 stay what they are.
LEMMA P1Stays ==
  ASSUME AnswersInv, UNCHANGED <<operations, maxOpnums>>, stage \in AfterP1,
         stage' \in AfterP1, "P1" \in passed' <=> "P1" \in passed
  PROVE  P1FindsEveryInversion' /\ P1RaisesNoFalseAlarm'
<1>1. /\ AllOperations' = AllOperations
      /\ \A f : EndTimesTie(f)' <=> EndTimesTie(f)
  BY AnswersStay
<1>2. P1FindsEveryInversion /\ P1RaisesNoFalseAlarm
  BY DEF AnswersInv
<1> QED
  BY <1>1, <1>2 DEF P1FindsEveryInversion, P1RaisesNoFalseAlarm, AfterP1

LEMMA CheckP2Answers ==
  ASSUME LogInv, AnswersInv, CheckP2
  PROVE  AnswersInv'
<1>1. PICK p \in Orders("Tag_var") :
        Check("P2", "P3", \A o \in LoggedObjects : safetyCheckP2(operations[o], p[o]))
  BY DEF CheckP2
<1>2. UNCHANGED <<operations, maxOpnums>> /\ stage = "P2" /\ stage' = "P3"
      /\ "P2" \notin passed /\ "P3" \notin passed /\ "liveness" \notin passed
  BY <1>1 DEF Check, AnswersInv, AfterP2, AfterP3
<1>3. TagsTellWrites' <=> TagsTellWrites
  BY <1>2, AnswersStay
<1>4. (\A o \in LoggedObjects : safetyCheckP2(operations[o], p[o])) <=> TagsTellWrites
  BY P2OfLog
<1>5. ("P2" \in passed' <=> TagsTellWrites) /\ ("P1" \in passed' <=> "P1" \in passed)
      /\ "P3" \notin passed' /\ "liveness" \notin passed'
  <2>1. CASE TagsTellWrites
    <3>1. passed' = passed \cup {"P2"}
      BY <1>1, <1>4, <2>1, ZenonT(40) DEF Check
    <3> QED
      BY <1>2, <2>1, <3>1
  <2>2. CASE ~ TagsTellWrites
    <3>1. passed' = passed
      BY <1>1, <1>4, <2>2, ZenonT(40) DEF Check
    <3> QED
      BY <1>2, <2>2, <3>1
  <2> QED
    BY <2>1, <2>2
<1>6. P1FindsEveryInversion' /\ P1RaisesNoFalseAlarm'
  BY <1>2, <1>5, P1Stays DEF AfterP1
<1> QED
  BY <1>2, <1>3, <1>5, <1>6 DEF AnswersInv, AfterP1, AfterP2, AfterP3

LEMMA CheckP3Answers ==
  ASSUME LogInv, AnswersInv, CheckP3
  PROVE  AnswersInv'
<1>1. PICK p \in Orders("Tag_var") :
        Check("P3", "liveness", \A o \in LoggedObjects : safetyCheckP3(operations[o], p[o]))
  BY DEF CheckP3
<1>2. UNCHANGED <<operations, maxOpnums>> /\ stage = "P3" /\ stage' = "liveness"
      /\ "P3" \notin passed /\ "liveness" \notin passed
  BY <1>1 DEF Check, AnswersInv, AfterP3
<1>3. (TagsTellWrites' <=> TagsTellWrites) /\ (ReadsReturnWrites' <=> ReadsReturnWrites)
  BY <1>2, AnswersStay
<1>4. (\A o \in LoggedObjects : safetyCheckP3(operations[o], p[o])) <=>
         TagsTellWrites /\ ReadsReturnWrites
  BY P3OfLog
<1>5. ("P3" \in passed' <=> TagsTellWrites /\ ReadsReturnWrites)
      /\ ("P1" \in passed' <=> "P1" \in passed) /\ ("P2" \in passed' <=> "P2" \in passed)
      /\ "liveness" \notin passed'
  <2>1. CASE TagsTellWrites /\ ReadsReturnWrites
    <3>1. passed' = passed \cup {"P3"}
      BY <1>1, <1>4, <2>1, ZenonT(40) DEF Check
    <3> QED
      BY <1>2, <2>1, <3>1
  <2>2. CASE ~ (TagsTellWrites /\ ReadsReturnWrites)
    <3>1. passed' = passed
      BY <1>1, <1>4, <2>2, ZenonT(40) DEF Check
    <3> QED
      BY <1>2, <2>2, <3>1
  <2> QED
    BY <2>1, <2>2
<1>6. P1FindsEveryInversion' /\ P1RaisesNoFalseAlarm'
  BY <1>2, <1>5, P1Stays DEF AfterP1
<1> QED
  BY <1>2, <1>3, <1>5, <1>6 DEF AnswersInv, AfterP1, AfterP2, AfterP3

LEMMA NextAnswers == LogInv /\ AnswersInv /\ [Next]_vars => AnswersInv'
<1> SUFFICES ASSUME LogInv, AnswersInv, [Next]_vars PROVE AnswersInv'
  OBVIOUS
<1>1. ASSUME NEW line, ReadLine(line)
      PROVE  AnswersInv'
  BY <1>1 DEF ReadLine, AnswersInv, AfterP1, AfterP2, AfterP3, P1RaisesNoFalseAlarm,
     P1FindsEveryInversion
<1>2. CASE EndOfFile
  BY <1>2 DEF EndOfFile, AnswersInv, AfterP1, AfterP2, AfterP3, P1RaisesNoFalseAlarm,
     P1FindsEveryInversion
<1>3. CASE CheckP1
  BY <1>3, CheckP1Answers
<1>4. CASE CheckP2
  BY <1>4, CheckP2Answers
<1>5. CASE CheckP3
  BY <1>5, CheckP3Answers
<1>6. CASE CheckLiveness
  <2>1. Check("liveness", "done", livenessCheck) /\ (livenessCheck <=> AllExecuted)
    BY <1>6, LivenessOfLog DEF CheckLiveness
  <2>2. UNCHANGED <<operations, maxOpnums>> /\ stage = "liveness" /\ stage' = "done"
        /\ "liveness" \notin passed
    BY <2>1 DEF Check, AnswersInv
  <2>3. /\ passed' = passed \/ passed' = passed \cup {"liveness"}
        /\ "liveness" \in passed' <=> AllExecuted
    <3>1. CASE AllExecuted
      <4>1. passed' = passed \cup {"liveness"}
        BY <2>1, <3>1, ZenonT(40) DEF Check
      <4> QED
        BY <3>1, <4>1
    <3>2. CASE ~ AllExecuted
      <4>1. passed' = passed
        BY <2>1, <3>2, ZenonT(40) DEF Check
      <4> QED
        BY <2>2, <3>2, <4>1
    <3> QED
      BY <3>1, <3>2
  <2>4. /\ TagsTellWrites' <=> TagsTellWrites
        /\ ReadsReturnWrites' <=> ReadsReturnWrites
        /\ AllExecuted' <=> AllExecuted
    BY <2>2, AnswersStay
  <2>5. P1FindsEveryInversion' /\ P1RaisesNoFalseAlarm'
    BY <2>2, <2>3, P1Stays DEF AfterP1
  <2> QED
    BY <2>2, <2>3, <2>4, <2>5 DEF AnswersInv, AfterP1, AfterP2, AfterP3
<1>7. CASE Done \/ UNCHANGED vars
  <2>1. UNCHANGED <<operations, maxOpnums>> /\ stage' = stage /\ passed' = passed
    BY <1>7 DEF Done, vars
  <2>2. AllOperations' = AllOperations
        /\ (TagsTellWrites' <=> TagsTellWrites) /\ (ReadsReturnWrites' <=> ReadsReturnWrites)
        /\ (\A f : EndTimesTie(f)' <=> EndTimesTie(f)) /\ (AllExecuted' <=> AllExecuted)
    BY <2>1, AnswersStay
  <2>3. P1FindsEveryInversion' /\ P1RaisesNoFalseAlarm'
    BY <2>1, <2>2 DEF AnswersInv, P1FindsEveryInversion, P1RaisesNoFalseAlarm
  <2> QED
    BY <2>1, <2>2, <2>3 DEF AnswersInv, AfterP1, AfterP2, AfterP3
<1> QED
  BY <1>1, <1>2, <1>3, <1>4, <1>5, <1>6, <1>7 DEF Next

LEMMA Inductive == Spec => [](LogInv /\ AnswersInv)
<1>1. Init => LogInv /\ AnswersInv
  BY InitLog, InitAnswers
<1>2. (LogInv /\ AnswersInv) /\ [Next]_vars => (LogInv /\ AnswersInv)'
  BY NextLog, NextAnswers
<1> QED
  BY <1>1, <1>2, PTL DEF Spec

-----------------------------------------------------------------------------
(* The theorems *)

\* P1 raises no false alarm: when it fails, some operation started after another had
\* ended and has the smaller tag. For every log, and for every order that sort.Sort
\* gives to operations that ended together (safetyAnalyzer.go 144-196, 352-385).
THEOREM AlarmsAreInversions == Spec => []P1RaisesNoFalseAlarm
<1>1. AnswersInv => P1RaisesNoFalseAlarm
  BY DEF AnswersInv
<1> QED
  BY <1>1, Inductive, PTL

\* P1 passes a log with an inversion only when two operations ended in the very
\* microsecond in which a third started (safetyAnalyzer.go 144-196, 352-385).
THEOREM InversionsAreFound == Spec => []P1FindsEveryInversion
<1>1. AnswersInv => P1FindsEveryInversion
  BY DEF AnswersInv
<1> QED
  BY <1>1, Inductive, PTL

\* P2 passes exactly the logs in which no two writes of an object have one tag
\* (safetyAnalyzer.go 210-250).
THEOREM EqualTagsAreFound == Spec => []P2IsExact
<1>1. AnswersInv => P2IsExact
  BY ZenonT(40) DEF AnswersInv, P2IsExact, TagsTellWrites, AfterP2
<1> QED
  BY <1>1, Inductive, PTL

\* P3 passes exactly the logs that pass P2 and whose reads return, unharmed, the
\* initial value or what a write of the object wrote (safetyAnalyzer.go 263-350).
THEOREM StrayReadsAreFound == Spec => []P3IsExact
<1>1. AnswersInv => P3IsExact
  <2> SUFFICES ASSUME AnswersInv, stage \in AfterP3
               PROVE  "P3" \in passed <=> "P2" \in passed /\ ReadsReturnWrites
    BY DEF P3IsExact, ReadsReturnWrites, AfterP3
  <2> QED
    BY DEF AnswersInv, AfterP2, AfterP3
<1> QED
  BY <1>1, Inductive, PTL

\* The liveness check passes exactly the logs in which every client has as many lines
\* as it was asked for operations, though it looks at the numbers that the lines bear
\* and overwrites them in any case (safetyAnalyzer.go 387-449, 526-535).
THEOREM MissingOperationsAreFound == Spec => []LivenessIsExact
<1>1. AnswersInv => LivenessIsExact
  BY DEF AnswersInv, LivenessIsExact, AllExecuted
<1> QED
  BY <1>1, Inductive, PTL

=============================================================================
