-------------------------- MODULE CpswSharesProofs --------------------------
(***************************************************************************)
(* Proofs about CpswShares, for any number of ports, queues and            *)
(* descriptors, and any rates.                                             *)
(*                                                                         *)
(* That the shapers match the rates is inductive together with the fact    *)
(* that the channels are changed only while the engine is stopped, and     *)
(* that a queue without a channel has no rate (ShaperInv).                 *)
(*                                                                         *)
(* That the channels share out the pool rests on what the operators of     *)
(* cpdma_chan_split_pool return (TxTotal, RxTotal): shares rounded down do *)
(* not exceed what is shared, and the remainder makes up for the rest.     *)
(*                                                                         *)
(* That the budgets add up is the invariant of a loop whose steps          *)
(* interleave with the other threads: as long as nothing has interfered,   *)
(* one thread is in the loop, and what is left is what the queues before   *)
(* its own have not got (Progress).                                        *)
(***************************************************************************)
EXTENDS CpswShares, FiniteSetTheorems, TLAPS

-----------------------------------------------------------------------------
(* Sums.                                                                   *)

\* Induction over the natural numbers, for membership of a set: a least number
\* that is not in it would have a predecessor that is.
LEMMA Induction ==
  ASSUME NEW S, 0 \in S, \A k \in Nat : k \in S => k + 1 \in S
  PROVE  \A k \in Nat : k \in S
<1> SUFFICES ASSUME NEW n \in Nat, n \notin S PROVE FALSE
  OBVIOUS
<1> DEFINE Out == (0..n) \ S
           Part(k) == Out \cap 0..k
           Parts == {Part(k) : k \in Out}
<1>1. IsFiniteSet(0..n)
  BY FS_Interval
<1>2. Parts \subseteq FiniteSubsetsOf(0..n)
  BY <1>1, FS_FiniteSubsetsOfFinite
<1>3. Parts # {}
  <2>1. n \in Out
    OBVIOUS
  <2>2. QED
    BY <2>1
<1>4. PICK X \in Parts : \A Y \in Parts : ~(<<Y, X>> \in StrictSubsetOrdering(0..n))
  <2> HIDE DEF Parts
  <2>1. QED
    BY <1>2, <1>3, FS_StrictSubsetOrderingWellFounded, WFMin
<1>5. PICK k \in Out : X = Part(k)
  BY <1>4
<1>6. k # 0 /\ k \in Nat /\ k - 1 \in Nat /\ (k - 1) + 1 = k
  OBVIOUS
<1>7. k - 1 \in Out
  BY <1>6
<1>8. Part(k - 1) \subseteq Part(k) /\ k \notin Part(k - 1) /\ k \in Part(k)
  BY <1>6
<1>9. <<Part(k - 1), Part(k)>> \in StrictSubsetOrdering(0..n)
  BY <1>8 DEF StrictSubsetOrdering
<1>10. QED
  BY <1>4, <1>5, <1>7, <1>9

\* The recursive function of Total exists: it is built term by term.
LEMMA SumDef ==
  ASSUME NEW f, NEW n \in Nat
  PROVE  \E g : /\ g = [k \in 0..n |-> IF k = 0 THEN 0 ELSE g[k - 1] + f[k - 1]]
                /\ Total(f, n) = g[n]
<1> DEFINE Ex(m) == \E g : g = [k \in 0..m |-> IF k = 0 THEN 0 ELSE g[k - 1] + f[k - 1]]
           S == {m \in Nat : Ex(m)}
<1>1. Ex(0)
  <2>1. [k \in 0..0 |-> 0]
          = [k \in 0..0 |-> IF k = 0 THEN 0 ELSE [j \in 0..0 |-> 0][k - 1] + f[k - 1]]
    OBVIOUS
  <2>2. QED
    BY <2>1
<1>2. ASSUME NEW m \in Nat, Ex(m) PROVE Ex(m + 1)
  <2>1. PICK g : g = [k \in 0..m |-> IF k = 0 THEN 0 ELSE g[k - 1] + f[k - 1]]
    BY <1>2
  <2> DEFINE h == [k \in 0..(m + 1) |-> IF k = m + 1 THEN g[m] + f[m] ELSE g[k]]
  <2>2. ASSUME NEW k \in 0..(m + 1)
        PROVE  h[k] = IF k = 0 THEN 0 ELSE h[k - 1] + f[k - 1]
    <3>1. CASE k = m + 1
      BY <3>1
    <3>2. CASE k \in 0..m
      <4>1. g[k] = IF k = 0 THEN 0 ELSE g[k - 1] + f[k - 1]
        BY <2>1, <3>2
      <4>2. QED
        BY <3>2, <4>1
    <3>3. QED
      BY <3>1, <3>2
  <2>3. h = [k \in 0..(m + 1) |-> IF k = 0 THEN 0 ELSE h[k - 1] + f[k - 1]]
    BY <2>2
  <2>4. QED
    BY <2>3
<1>3. Ex(n)
  <2>1. 0 \in S
    BY <1>1
  <2>2. \A m \in Nat : m \in S => m + 1 \in S
    BY <1>2
  <2>3. n \in S
    <3> HIDE DEF S
    <3>1. QED
      BY <2>1, <2>2, Induction
  <2>4. QED
    BY <2>3
<1> DEFINE sum == CHOOSE g : g = [k \in 0..n |-> IF k = 0 THEN 0 ELSE g[k - 1] + f[k - 1]]
<1>4. sum = [k \in 0..n |-> IF k = 0 THEN 0 ELSE sum[k - 1] + f[k - 1]]
  BY <1>3
<1>5. Total(f, n) = sum[n]
  BY DEF Total
<1>6. QED
  BY <1>4, <1>5

\* The sum of nothing, and of one term more.
LEMMA TotalDef ==
  ASSUME NEW f
  PROVE  /\ Total(f, 0) = 0
         /\ \A n \in Nat : Total(f, n + 1) = Total(f, n) + f[n]
<1>1. Total(f, 0) = 0
  <2>1. PICK g : /\ g = [k \in 0..0 |-> IF k = 0 THEN 0 ELSE g[k - 1] + f[k - 1]]
                 /\ Total(f, 0) = g[0]
    BY SumDef
  <2>2. g[0] = 0
    BY <2>1
  <2>3. QED
    BY <2>1, <2>2
<1>2. ASSUME NEW n \in Nat PROVE Total(f, n + 1) = Total(f, n) + f[n]
  <2>1. PICK g : /\ g = [k \in 0..n |-> IF k = 0 THEN 0 ELSE g[k - 1] + f[k - 1]]
                 /\ Total(f, n) = g[n]
    BY SumDef
  <2>2. PICK h : /\ h = [k \in 0..(n + 1) |-> IF k = 0 THEN 0 ELSE h[k - 1] + f[k - 1]]
                 /\ Total(f, n + 1) = h[n + 1]
    BY SumDef, n + 1 \in Nat
  <2> DEFINE S == {k \in Nat : k <= n => g[k] = h[k]}
  <2>3. 0 \in S
    BY <2>1, <2>2
  <2>4. ASSUME NEW k \in Nat, k \in S PROVE k + 1 \in S
    <3>1. SUFFICES ASSUME k + 1 <= n PROVE g[k + 1] = h[k + 1]
      OBVIOUS
    <3>2. g[k] = h[k] /\ k + 1 \in 0..n /\ k + 1 \in 0..(n + 1) /\ (k + 1) - 1 = k /\ k + 1 # 0
      BY <2>4, <3>1
    <3>3. g[k + 1] = g[k] + f[k]
      BY <2>1, <3>2
    <3>4. h[k + 1] = h[k] + f[k]
      BY <2>2, <3>2
    <3>5. QED
      BY <3>2, <3>3, <3>4
  <2>5. n \in S
    <3> HIDE DEF S
    <3>1. QED
      BY <2>3, <2>4, Induction
  <2>6. h[n + 1] = h[n] + f[n]
    BY <2>2, n + 1 \in 0..(n + 1), (n + 1) - 1 = n, n + 1 # 0
  <2>7. QED
    BY <2>1, <2>2, <2>5, <2>6
<1>3. QED
  BY <1>1, <1>2

\* Equal terms, equal sums.
LEMMA TotalSame ==
  ASSUME NEW f, NEW g, NEW n \in Nat, \A k \in 0..(n - 1) : f[k] = g[k]
  PROVE  Total(f, n) = Total(g, n)
<1> DEFINE S == {k \in Nat : k <= n => Total(f, k) = Total(g, k)}
<1>1. 0 \in S
  BY TotalDef
<1>2. ASSUME NEW k \in Nat, k \in S PROVE k + 1 \in S
  <2>1. SUFFICES ASSUME k + 1 <= n PROVE Total(f, k + 1) = Total(g, k + 1)
    OBVIOUS
  <2>2. Total(f, k) = Total(g, k) /\ f[k] = g[k]
    BY <1>2, <2>1
  <2>3. QED
    BY <2>2, TotalDef
<1>3. n \in S
  <2> HIDE DEF S
  <2>1. QED
    BY <1>1, <1>2, Induction
<1>4. QED
  BY <1>3

\* A sum of numbers is one, and of natural numbers a natural one.
LEMMA TotalType ==
  ASSUME NEW f, NEW n \in Nat, \A k \in 0..(n - 1) : f[k] \in Int
  PROVE  /\ Total(f, n) \in Int
         /\ (\A k \in 0..(n - 1) : f[k] >= 0) => Total(f, n) >= 0
<1> DEFINE S == {k \in Nat : k <= n =>
                   /\ Total(f, k) \in Int
                   /\ (\A j \in 0..(n - 1) : f[j] >= 0) => Total(f, k) >= 0}
<1>1. 0 \in S
  BY TotalDef
<1>2. ASSUME NEW k \in Nat, k \in S PROVE k + 1 \in S
  <2>1. SUFFICES ASSUME k + 1 <= n
                 PROVE  /\ Total(f, k + 1) \in Int
                        /\ (\A j \in 0..(n - 1) : f[j] >= 0) => Total(f, k + 1) >= 0
    OBVIOUS
  <2>2. f[k] \in Int /\ k \in 0..(n - 1) /\ Total(f, k + 1) = Total(f, k) + f[k]
    BY <2>1, TotalDef
  <2>3. QED
    BY <1>2, <2>1, <2>2
<1>3. n \in S
  <2> HIDE DEF S
  <2>1. QED
    BY <1>1, <1>2, Induction
<1>4. QED
  BY <1>3

\* One term changes.
LEMMA TotalChanged ==
  ASSUME NEW f, NEW g, NEW n \in Nat, NEW i \in 0..(n - 1),
         \A k \in 0..(n - 1) : f[k] \in Int /\ g[k] \in Int,
         \A k \in 0..(n - 1) : k # i => g[k] = f[k]
  PROVE  Total(g, n) = Total(f, n) + (g[i] - f[i])
<1> DEFINE d == g[i] - f[i]
           S == {k \in Nat : k <= n =>
                   Total(g, k) = IF k <= i THEN Total(f, k) ELSE Total(f, k) + d}
<1>1. ASSUME NEW k \in Nat, k <= n PROVE Total(f, k) \in Int
  BY <1>1, TotalType
<1>2. 0 \in S
  BY TotalDef
<1>3. ASSUME NEW k \in Nat, k \in S PROVE k + 1 \in S
  <2> DEFINE Goal == Total(g, k + 1) = IF k + 1 <= i THEN Total(f, k + 1) ELSE Total(f, k + 1) + d
  <2>1. SUFFICES ASSUME k + 1 <= n PROVE Goal
    OBVIOUS
  <2>2. /\ Total(f, k + 1) = Total(f, k) + f[k] /\ Total(g, k + 1) = Total(g, k) + g[k]
        /\ k \in 0..(n - 1) /\ f[k] \in Int /\ Total(f, k) \in Int
    BY <1>1, <2>1, TotalDef
  <2>3. g[k] = IF k = i THEN f[k] + d ELSE f[k]
    BY <2>2
  <2>4. Total(g, k) = IF k <= i THEN Total(f, k) ELSE Total(f, k) + d
    BY <1>3, <2>1
  <2>5. d \in Int
    OBVIOUS
  <2> HIDE DEF d
  <2>6. QED
    BY <2>2, <2>3, <2>4, <2>5
<1>4. n \in S
  <2> HIDE DEF S
  <2>1. QED
    BY <1>2, <1>3, Induction
<1>5. QED
  BY <1>4

\* All terms are the same.
LEMMA TotalConst ==
  ASSUME NEW f, NEW n \in Nat, NEW c \in Int, \A k \in 0..(n - 1) : f[k] = c
  PROVE  Total(f, n) = n * c
<1> DEFINE S == {k \in Nat : k <= n => Total(f, k) = k * c}
<1>1. 0 \in S
  BY TotalDef
<1>2. ASSUME NEW k \in Nat, k \in S PROVE k + 1 \in S
  <2>1. SUFFICES ASSUME k + 1 <= n PROVE Total(f, k + 1) = (k + 1) * c
    OBVIOUS
  <2>2. Total(f, k + 1) = Total(f, k) + f[k] /\ f[k] = c /\ Total(f, k) = k * c
    BY <1>2, <2>1, TotalDef
  <2>3. (k + 1) * c = k * c + c
    OBVIOUS
  <2>4. QED
    BY <2>2, <2>3
<1>3. n \in S
  <2> HIDE DEF S
  <2>1. QED
    BY <1>1, <1>2, Induction
<1>4. QED
  BY <1>3

\* Division with remainder.
LEMMA DivMod ==
  ASSUME NEW a \in Nat, NEW n \in Nat, n > 0
  PROVE  a \div n \in Nat /\ a % n \in 0..(n - 1) /\ a = n * (a \div n) + (a % n)
  OBVIOUS

\* A sum of percentages, each rounded down.
LEMMA DivHundred ==
  ASSUME NEW a \in Nat, NEW b \in Nat
  PROVE  /\ a \div 100 \in Nat
         /\ (a \div 100) + (b \div 100) <= (a + b) \div 100
  OBVIOUS

\* No term is less, nor is the sum.
LEMMA TotalLess ==
  ASSUME NEW f, NEW g, NEW n \in Nat,
         \A k \in 0..(n - 1) : f[k] \in Int /\ g[k] \in Int /\ f[k] <= g[k]
  PROVE  Total(f, n) <= Total(g, n)
<1> DEFINE S == {k \in Nat : k <= n => Total(f, k) <= Total(g, k)}
<1>1. 0 \in S
  BY TotalDef
<1>2. ASSUME NEW k \in Nat, k \in S PROVE k + 1 \in S
  <2>1. SUFFICES ASSUME k + 1 <= n PROVE Total(f, k + 1) <= Total(g, k + 1)
    OBVIOUS
  <2>2. Total(f, k) \in Int /\ Total(g, k) \in Int
    BY <2>1, TotalType
  <2>3. /\ Total(f, k) <= Total(g, k) /\ f[k] \in Int /\ g[k] \in Int /\ f[k] <= g[k]
        /\ Total(f, k + 1) = Total(f, k) + f[k] /\ Total(g, k + 1) = Total(g, k) + g[k]
    BY <1>2, <2>1, TotalDef
  <2>4. QED
    BY <2>2, <2>3
<1>3. n \in S
  <2> HIDE DEF S
  <2>1. QED
    BY <1>1, <1>2, Induction
<1>4. QED
  BY <1>3

\* Terms that are 0 add nothing.
LEMMA TotalTail ==
  ASSUME NEW f, NEW m \in Nat, NEW n \in Nat, m <= n,
         \A k \in 0..(m - 1) : f[k] \in Int, \A k \in m..(n - 1) : f[k] = 0
  PROVE  Total(f, n) = Total(f, m)
<1> DEFINE S == {k \in Nat : m <= k /\ k <= n => Total(f, k) = Total(f, m)}
<1>0. Total(f, m) \in Int
  BY TotalType
<1>1. 0 \in S
  OBVIOUS
<1>2. ASSUME NEW k \in Nat, k \in S PROVE k + 1 \in S
  <2>1. SUFFICES ASSUME k + 1 <= n, m <= k PROVE Total(f, k + 1) = Total(f, m)
    OBVIOUS
  <2>2. Total(f, k + 1) = Total(f, k) + f[k] /\ f[k] = 0 /\ Total(f, k) = Total(f, m)
    BY <1>2, <2>1, TotalDef
  <2>3. QED
    BY <1>0, <2>2
<1>3. n \in S
  <2> HIDE DEF S
  <2>1. QED
    BY <1>1, <1>2, Induction
<1>4. QED
  BY <1>3

\* A product of natural numbers.
LEMMA NatTimes ==
  ASSUME NEW a \in Nat, NEW b \in Nat
  PROVE  a * b \in Nat
  OBVIOUS

\* The floors of shares, and c for each that has no weight.
LEMMA TotalFloors ==
  ASSUME NEW f, NEW w, NEW n \in Nat, NEW a \in Nat, NEW c \in Nat,
         \A k \in 0..(n - 1) : w[k] \in Nat,
         \A k \in 0..(n - 1) : f[k] = IF w[k] = 0 THEN c ELSE (w[k] * a) \div 100
  PROVE  LET free == Cardinality({k \in 0..(n - 1) : w[k] = 0})
         IN  /\ free \in Nat /\ Total(w, n) \in Nat
             /\ Total(f, n) <= (Total(w, n) * a) \div 100 + free * c
<1> DEFINE Free(k) == {j \in 0..(k - 1) : w[j] = 0}
           S == {k \in Nat : k <= n =>
                   Total(f, k) <= (Total(w, k) * a) \div 100 + Cardinality(Free(k)) * c}
<1>0. ASSUME NEW k \in Nat PROVE IsFiniteSet(Free(k)) /\ Cardinality(Free(k)) \in Nat
  <2>1. IsFiniteSet(0..(k - 1))
    BY FS_Interval
  <2>2. QED
    BY <2>1, FS_Subset, FS_CardinalityType
<1>1. 0 \in S
  <2>1. Total(f, 0) = 0 /\ Total(w, 0) = 0
    BY TotalDef
  <2>2. Cardinality(Free(0)) \in Nat
    BY <1>0
  <2>3. Cardinality(Free(0)) * c \in Nat /\ 0 * a = 0
    BY <2>2, NatTimes
  <2> HIDE DEF Free
  <2>4. QED
    BY <2>1, <2>3
<1>t. ASSUME NEW k \in Nat, k <= n PROVE Total(w, k) \in Nat /\ Total(f, k) \in Int
  <2>1. ASSUME NEW j \in 0..(k - 1) PROVE w[j] \in Nat /\ f[j] \in Int
    <3>1. w[j] \in Nat /\ f[j] = IF w[j] = 0 THEN c ELSE (w[j] * a) \div 100
      BY <1>t
    <3>2. w[j] * a \in Nat
      BY <3>1
    <3>3. QED
      BY <3>1, <3>2
  <2>2. QED
    BY <2>1, TotalType
<1>2. ASSUME NEW k \in Nat, k \in S PROVE k + 1 \in S
  <2> DEFINE A == Total(w, k) * a
             C == Cardinality(Free(k))
  <2>1. SUFFICES ASSUME k + 1 <= n
                 PROVE  Total(f, k + 1) <= (Total(w, k + 1) * a) \div 100
                                            + Cardinality(Free(k + 1)) * c
    OBVIOUS
  <2>2. /\ Total(f, k + 1) = Total(f, k) + f[k] /\ Total(w, k + 1) = Total(w, k) + w[k]
        /\ w[k] \in Nat /\ f[k] = IF w[k] = 0 THEN c ELSE (w[k] * a) \div 100
        /\ Total(f, k) \in Int /\ Total(w, k) \in Nat
        /\ Total(f, k) <= A \div 100 + C * c
    BY <1>2, <1>t, <2>1, TotalDef
  <2>3. A \in Nat /\ w[k] * a \in Nat /\ C \in Nat /\ C * c \in Nat
    <3>1. C \in Nat
      BY <1>0
    <3>2. QED
      BY <2>2, <3>1, NatTimes
  <2>4. Total(w, k + 1) * a = A + w[k] * a
    BY <2>2
  <2>5. CASE w[k] = 0
    <3>1. Free(k + 1) = Free(k) \cup {k} /\ k \notin Free(k)
      BY <2>5
    <3>2. Cardinality(Free(k + 1)) = C + 1
      BY <1>0, <3>1, FS_AddElement
    <3>3. (C + 1) * c = C * c + c
      BY <2>3
    <3>4. w[k] * a = 0
      BY <2>5
    <3> HIDE DEF Free, A, C
    <3>5. QED
      BY <2>2, <2>3, <2>4, <2>5, <3>2, <3>3, <3>4
  <2>6. CASE w[k] # 0
    <3>1. Free(k + 1) = Free(k)
      BY <2>6
    <3>2. Cardinality(Free(k + 1)) = C
      BY <3>1
    <3>3. (A \div 100) + ((w[k] * a) \div 100) <= (A + w[k] * a) \div 100
      BY <2>3, DivHundred
    <3> HIDE DEF Free, A, C
    <3>4. QED
      BY <2>2, <2>3, <2>4, <2>6, <3>2, <3>3
  <2>7. QED
    BY <2>5, <2>6
<1>3. n \in S
  <2> HIDE DEF S
  <2>1. QED
    BY <1>1, <1>2, Induction
<1>4. Cardinality(Free(n)) \in Nat /\ Total(w, n) \in Nat
  <2>1. n <= n
    OBVIOUS
  <2> HIDE DEF Free
  <2>2. QED
    BY <1>0, <1>t, <2>1
<1>5. Total(f, n) <= (Total(w, n) * a) \div 100 + Cardinality(Free(n)) * c
  BY <1>3
<1>6. QED
  BY <1>4, <1>5

\* Some numbers, not none, have a greatest, and this one a last place.
LEMMA LastGreatest ==
  ASSUME NEW f, NEW n \in Nat \ {0}, \A k \in 0..(n - 1) : f[k] \in Int
  PROVE  \E q \in 0..(n - 1) : \A p \in 0..(n - 1) : f[p] <= f[q] /\ (f[p] = f[q] => p <= q)
<1> DEFINE Last(k, q) == \A p \in 0..k : f[p] <= f[q] /\ (f[p] = f[q] => p <= q)
           S == {k \in Nat : k < n => \E q \in 0..k : Last(k, q)}
<1>1. 0 \in S
  <2>1. f[0] \in Int
    OBVIOUS
  <2>2. Last(0, 0)
    BY <2>1
  <2>3. QED
    BY <2>2
<1>2. ASSUME NEW k \in Nat, k \in S PROVE k + 1 \in S
  <2>1. SUFFICES ASSUME k + 1 < n PROVE \E q \in 0..(k + 1) : Last(k + 1, q)
    OBVIOUS
  <2>2. PICK q \in 0..k : Last(k, q)
    BY <1>2, <2>1
  <2>3. f[q] \in Int /\ f[k + 1] \in Int /\ \A p \in 0..k : f[p] \in Int
    BY <2>1
  <2>4. \A p \in 0..(k + 1) : p \in 0..k \/ p = k + 1
    OBVIOUS
  <2>5. CASE f[k + 1] >= f[q]
    <3>1. Last(k + 1, k + 1)
      BY <2>2, <2>3, <2>4, <2>5
    <3>2. QED
      BY <3>1
  <2>6. CASE f[k + 1] < f[q]
    <3>1. Last(k + 1, q)
      BY <2>2, <2>3, <2>4, <2>6
    <3>2. QED
      BY <3>1
  <2>7. QED
    BY <2>3, <2>5, <2>6
<1>3. n - 1 \in S
  <2> HIDE DEF S
  <2>1. QED
    BY <1>1, <1>2, Induction
<1>4. QED
  BY <1>3

-----------------------------------------------------------------------------
(* What cpdma_chan_split_pool and cpsw_split_res share out.                *)

\* The shares that are rounded down do not exceed what is shared.
LEMMA RoundedTotal ==
  ASSUME NEW w, NEW n \in 1..MaxQueues, NEW a \in Nat,
         \A k \in 0..(n - 1) : w[k] \in Nat, Fits(w, n)
  PROVE  /\ RoundedShares(w, n, a) \in [Queue -> Nat]
         /\ \A q \in Queue : q >= n => RoundedShares(w, n, a)[q] = 0
         /\ Total(RoundedShares(w, n, a), n) <= a
<1> DEFINE free == {q \in 0..(n - 1) : w[q] = 0}
           size == Cardinality(free)
           all == Total(w, n)
           rest == a - (all * a) \div 100
           c == IF size = 0 THEN 0 ELSE rest \div size
           s == RoundedShares(w, n, a)
<1>1. n \in Nat /\ 0..(n - 1) \subseteq Queue /\ MaxQueues \in Nat
  BY NumAssumption DEF Queue
<1>2. IsFiniteSet(free) /\ size \in Nat /\ (free # {} => size # 0)
  <2>1. IsFiniteSet(0..(n - 1))
    BY <1>1, FS_Interval
  <2>2. IsFiniteSet(free)
    BY <2>1, FS_Subset
  <2> HIDE DEF free
  <2>3. QED
    BY <2>2, FS_CardinalityType, FS_EmptySet
<1>3. all \in Nat /\ all <= 100
  BY <1>1, TotalType DEF Fits
<1>4. all * a \in Nat /\ (all * a) \div 100 \in 0..a /\ rest \in Nat
  <2>1. all * a \in Nat /\ all * a <= 100 * a
    BY <1>3
  <2> HIDE DEF all
  <2>2. (all * a) \div 100 \in 0..a
    BY <2>1
  <2>3. QED
    BY <2>1, <2>2
<1>5. c \in Nat /\ size * c \in Nat /\ size * c <= rest
  <2> HIDE DEF size, rest
  <2>1. CASE size = 0
    BY <1>2, <1>4, <2>1
  <2>2. CASE size # 0
    <3>1. /\ rest \div size \in Nat /\ rest % size \in Nat
          /\ rest = size * (rest \div size) + (rest % size)
      BY <1>2, <1>4, <2>2, DivMod
    <3>2. size * (rest \div size) \in Nat
      BY <1>2, <3>1, NatTimes
    <3> DEFINE e == rest \div size
    <3>3. c = e
      BY <2>2
    <3>4. QED
      BY <1>4, <3>1, <3>2, <3>3
  <2>3. QED
    BY <2>1, <2>2
<1>6. ASSUME NEW q \in Queue
      PROVE  s[q] = IF q >= n THEN 0
                    ELSE IF w[q] = 0 THEN c ELSE (w[q] * a) \div 100
  <2>1. s[q] = IF q >= n THEN 0
               ELSE IF q \in free THEN rest \div size ELSE (w[q] * a) \div 100
    BY DEF RoundedShares
  <2>2. q < n => q \in 0..(n - 1)
    BY <1>1 DEF Queue
  <2>3. q < n => (q \in free <=> w[q] = 0)
    BY <2>2
  <2>4. q \in free => size # 0
    BY <1>2
  <2> HIDE DEF s, free, size, rest
  <2>5. QED
    BY <1>1, <2>1, <2>3, <2>4 DEF Queue
<1>7. s \in [Queue -> Nat]
  <2>1. s = [q \in Queue |-> s[q]]
    BY DEF RoundedShares
  <2> HIDE DEF s, c
  <2>2. ASSUME NEW q \in Queue PROVE s[q] \in Nat
    <3>1. CASE q >= n
      BY <1>6, <3>1
    <3>2. CASE ~(q >= n) /\ w[q] = 0
      BY <1>5, <1>6, <3>2
    <3>3. CASE ~(q >= n) /\ w[q] # 0
      <4>1. w[q] \in Nat /\ s[q] = (w[q] * a) \div 100
        BY <1>1, <1>6, <3>3 DEF Queue
      <4>2. w[q] * a \in Nat
        BY <4>1, NatTimes
      <4>3. QED
        BY <4>1, <4>2
    <3>4. QED
      BY <3>1, <3>2, <3>3
  <2>3. QED
    BY <2>1, <2>2
<1>8. Total(s, n) <= (all * a) \div 100 + size * c
  <2>1. \A k \in 0..(n - 1) : s[k] = IF w[k] = 0 THEN c ELSE (w[k] * a) \div 100
    BY <1>1, <1>6
  <2> HIDE DEF s, c
  <2>2. QED
    BY <1>1, <1>5, <2>1, TotalFloors
<1>9. Total(s, n) <= a
  <2>1. Total(s, n) \in Int
    BY <1>1, <1>7, TotalType
  <2> HIDE DEF s, c, size, all
  <2>2. QED
    BY <1>4, <1>5, <1>8, <2>1
<1>10. QED
  BY <1>6, <1>7, <1>9

\* The transmit channels share out all, or each share rounds to nothing.
LEMMA TxTotal ==
  ASSUME NEW w, NEW n \in 1..MaxQueues, NEW a \in Nat,
         \A k \in 0..(n - 1) : w[k] \in Nat, Fits(w, n)
  PROVE  /\ TxShares(w, n, a) \in [Queue -> Nat]
         /\ \A q \in Queue : q >= n => TxShares(w, n, a)[q] = 0
         /\ Total(TxShares(w, n, a), n) \in {0, a}
<1> DEFINE s == RoundedShares(w, n, a)
           largest == {q \in 0..(n - 1) : s[q] > 0 /\ \A p \in 0..(n - 1) : s[p] <= s[q]}
           d == a - Total(s, n)
           x == TxShares(w, n, a)
<1>1. n \in Nat \ {0} /\ 0..(n - 1) \subseteq Queue /\ Queue \subseteq Nat
  BY NumAssumption DEF Queue
<1>2. s \in [Queue -> Nat] /\ (\A q \in Queue : q >= n => s[q] = 0) /\ Total(s, n) <= a
  BY RoundedTotal
<1>3. Total(s, n) \in Nat /\ d \in Nat
  <2>1. \A k \in 0..(n - 1) : s[k] \in Int /\ s[k] >= 0
    BY <1>1, <1>2
  <2> HIDE DEF s
  <2>2. Total(s, n) \in Int /\ Total(s, n) >= 0
    BY <1>1, <2>1, TotalType
  <2>3. QED
    BY <1>2, <2>2
<1>4. x = [q \in Queue |-> IF q \in largest /\ \A p \in largest : p <= q
                             THEN s[q] + a - Total(s, n) ELSE s[q]]
  BY DEF TxShares
<1> HIDE DEF s, x
<1>5. ASSUME NEW q \in Queue
      PROVE  x[q] = IF q \in largest /\ \A p \in largest : p <= q THEN s[q] + d ELSE s[q]
  BY <1>1, <1>2, <1>3, <1>4
<1>6. x \in [Queue -> Nat]
  BY <1>2, <1>3, <1>4, <1>5
<1>7. \A q \in Queue : q >= n => x[q] = 0
  <2>1. \A q \in Queue : q >= n => q \notin largest
    BY <1>1
  <2>2. QED
    BY <1>2, <1>5, <2>1
<1>8. \A k \in 0..(n - 1) : s[k] \in Nat /\ s[k] \in Int
  BY <1>1, <1>2
<1>9. PICK q \in 0..(n - 1) : \A p \in 0..(n - 1) : s[p] <= s[q] /\ (s[p] = s[q] => p <= q)
  <2>1. \A k \in 0..(n - 1) : s[k] \in Int
    BY <1>8
  <2>2. QED
    BY <1>1, <2>1, LastGreatest
<1>10. CASE s[q] = 0
  <2>1. \A k \in 0..(n - 1) : s[k] = 0
    BY <1>8, <1>9, <1>10
  <2>2. \A k \in 0..(n - 1) : x[k] = 0
    BY <1>1, <1>5, <2>1
  <2>3. Total(x, n) = n * 0
    BY <1>1, <2>2, TotalConst
  <2>4. QED
    BY <1>1, <1>6, <1>7, <2>3 DEF x
<1>11. CASE s[q] # 0
  <2>1. q \in largest
    BY <1>8, <1>9, <1>11
  <2>2. \A p \in largest : s[p] = s[q] /\ p <= q
    BY <1>1, <1>8, <1>9, <2>1
  <2>3. \A k \in 0..(n - 1) : x[k] = IF k = q THEN s[k] + d ELSE s[k]
    BY <1>1, <1>5, <2>1, <2>2
  <2>4. Total(x, n) = Total(s, n) + d
    <3>1. \A k \in 0..(n - 1) : s[k] \in Int /\ x[k] \in Int
      BY <1>1, <1>6, <1>8
    <3>2. x[q] = s[q] + d
      BY <2>3
    <3>3. \A k \in 0..(n - 1) : k # q => x[k] = s[k]
      BY <2>3
    <3>4. Total(x, n) = Total(s, n) + (x[q] - s[q])
      BY <1>1, <3>1, <3>3, TotalChanged
    <3>5. QED
      BY <1>3, <1>8, <3>2, <3>4
  <2>5. Total(x, n) = a
    BY <1>3, <2>4
  <2>6. QED
    BY <1>6, <1>7, <2>5 DEF x
<1>12. QED
  BY <1>10, <1>11

\* Equal parts, and the remainder with the first.
LEMMA EvenTotal ==
  ASSUME NEW f, NEW n \in Nat, NEW a \in Nat, n > 0,
         \A k \in 0..(n - 1) : f[k] = (a \div n) + IF k = 0 THEN a % n ELSE 0
  PROVE  /\ \A k \in 0..(n - 1) : f[k] \in Nat
         /\ Total(f, n) = a
<1> DEFINE e == a \div n
           r == a % n
           g == [k \in 0..(n - 1) |-> e]
<1>1. e \in Nat /\ r \in Nat /\ a = n * e + r
  BY DivMod
<1>2. \A k \in 0..(n - 1) : f[k] = e + IF k = 0 THEN r ELSE 0
  OBVIOUS
<1> HIDE DEF e, r
<1>3. Total(g, n) = n * e
  BY <1>1, TotalConst
<1>4. Total(f, n) = Total(g, n) + r
  <2>1. \A k \in 0..(n - 1) : k # 0 => f[k] = g[k]
    BY <1>1, <1>2
  <2>2. \A k \in 0..(n - 1) : g[k] \in Int /\ f[k] \in Int
    BY <1>1, <1>2
  <2>3. 0 \in 0..(n - 1) /\ f[0] - g[0] = r
    BY <1>1, <1>2
  <2> HIDE DEF g
  <2>4. Total(f, n) = Total(g, n) + (f[0] - g[0])
    BY <2>1, <2>2, <2>3, TotalChanged
  <2>5. QED
    BY <2>3, <2>4
<1>5. \A k \in 0..(n - 1) : f[k] \in Nat
  BY <1>1, <1>2
<1>6. Total(f, n) = a
  BY <1>1, <1>3, <1>4
<1>7. QED
  BY <1>5, <1>6

\* The receive channels share out all, when there is at least one for each.
LEMMA RxTotal ==
  ASSUME NEW n \in 1..MaxQueues, NEW a \in Nat, a >= n
  PROVE  /\ RxShares(n, a) \in [Queue -> Nat]
         /\ \A c \in Queue : c >= n => RxShares(n, a)[c] = 0
         /\ Total(RxShares(n, a), n) = a
<1> DEFINE x == RxShares(n, a)
<1>1. n \in Nat /\ n > 0 /\ 0..(n - 1) \subseteq Queue /\ Queue \subseteq Nat
  BY NumAssumption DEF Queue
<1>2. x = [c \in Queue |-> IF c >= n THEN 0
                           ELSE (a \div n) + IF c = 0 THEN a % n ELSE 0]
  BY DEF RxShares
<1> HIDE DEF x
<1>3. \A k \in 0..(n - 1) : x[k] = (a \div n) + IF k = 0 THEN a % n ELSE 0
  BY <1>1, <1>2
<1>4. (\A k \in 0..(n - 1) : x[k] \in Nat) /\ Total(x, n) = a
  BY <1>1, <1>3, EvenTotal
<1>5. \A c \in Queue : c >= n => x[c] = 0
  BY <1>2
<1>6. x \in [Queue -> Nat]
  <2>1. \A c \in Queue : x[c] \in Nat
    <3>1. \A c \in Queue : c >= n \/ c \in 0..(n - 1)
      BY <1>1
    <3>2. QED
      BY <1>4, <1>5, <3>1
  <2>2. QED
    BY <1>2, <2>1
<1>7. QED
  BY <1>4, <1>5, <1>6 DEF x

-----------------------------------------------------------------------------
(* The shapers.                                                            *)

\* The part of the types that the argument needs.
ChanOK ==
  /\ txnum \in 1..MaxQueues
  /\ rate \in [Queue -> Nat]
  /\ \A q \in Queue : q >= txnum => rate[q] = 0
  /\ op = "channels" => wantTx \in 1..MaxQueues

\* cpsw_set_channels_common works on a stopped engine.
Suspended == op = "channels" => ~active

ShaperInv == ChanOK /\ Suspended /\ ShapersMatch

\* At first no queue is limited.
LEMMA ShaperInit == Init => ShaperInv
<1> SUFFICES ASSUME Init PROVE ShaperInv
  OBVIOUS
<1>1. ChanOK
  BY NumAssumption DEF Init, ChanOK, Zero, Queue
<1>2. Suspended
  BY DEF Init, Suspended
<1>3. ShapersMatch
  BY NumAssumption DEF Init, ShapersMatch, FitRate, TxQueue, Zero, Queue
<1>4. QED
  BY <1>1, <1>2, <1>3 DEF ShaperInv

\* Steps that touch neither channels nor registers.
LEMMA ShaperFrame ==
  ASSUME ShaperInv, UNCHANGED <<txnum, rate, regVars>>,
         op' = "channels" => op = "channels" /\ wantTx' = wantTx
  PROVE  ShaperInv'
<1>1. /\ txnum' = txnum /\ rate' = rate /\ active' = active /\ rlim' = rlim
  BY DEF regVars
<1>2. ChanOK'
  BY <1>1 DEF ShaperInv, ChanOK, Queue
<1>3. Suspended'
  BY <1>1 DEF ShaperInv, Suspended
<1>4. ShapersMatch'
  BY <1>1 DEF ShaperInv, ShapersMatch, FitRate, TxQueue, Limited
<1>5. QED
  BY <1>2, <1>3, <1>4 DEF ShaperInv

\* Steps that leave the engine stopped, or start it, and touch no channel.
LEMMA ShaperEngine ==
  ASSUME ShaperInv, UNCHANGED <<txnum, rate>>,
         op' = "channels" => ~active' /\ wantTx' \in 1..MaxQueues,
         ~active' \/ CtlrStart \/ Started
  PROVE  ShaperInv'
<1>1. ChanOK'
  BY DEF ShaperInv, ChanOK, Queue
<1>2. Suspended'
  BY DEF Suspended
<1>3. FitRate(rate)'
  BY DEF ShaperInv, ShapersMatch, FitRate, TxQueue
<1>4. active' => rlim' = Limited(rate')
  BY DEF ShaperInv, ShapersMatch, CtlrStart, Started, regVars, Limited
<1>5. QED
  BY <1>1, <1>2, <1>3, <1>4 DEF ShaperInv, ShapersMatch, Limited

\* A rate is set.
LEMMA ShaperRate ==
  ASSUME ShaperInv, NEW n \in Port, NEW q \in Queue, NEW r \in Rates \cup {0},
         SetMaxrate(n, q, r)
  PROVE  ShaperInv'
<1>1. /\ txnum' = txnum /\ active' = active /\ op' = op /\ wantTx' = wantTx
      /\ q \in TxQueue /\ SetRate(q, r) /\ op = "none"
  BY DEF SetMaxrate, opVars, RtnlFree
<1>2. CASE UNCHANGED <<rate, rlim, prio>>
  BY <1>1, <1>2, ShaperFrame DEF regVars
<1>3. CASE ~UNCHANGED <<rate, rlim, prio>>
  <2> DEFINE new == [rate EXCEPT ![q] = IF r = 0 THEN 0 ELSE Granted[r]]
  <2>1. /\ FitRate(new) /\ rate' = new
        /\ rlim' = IF active THEN Limited(new) ELSE rlim
    BY <1>1, <1>3 DEF SetRate
  <2>2. (IF r = 0 THEN 0 ELSE Granted[r]) \in Nat
    BY GrantAssumption
  <2>3. ChanOK'
    BY <1>1, <2>1, <2>2, NumAssumption DEF ShaperInv, ChanOK, TxQueue, Queue
  <2>4. Suspended'
    BY <1>1 DEF Suspended
  <2>5. ShapersMatch'
    BY <1>1, <2>1 DEF ShaperInv, ShapersMatch, FitRate, TxQueue, Limited
  <2>6. QED
    BY <2>3, <2>4, <2>5 DEF ShaperInv
<1>4. QED
  BY <1>2, <1>3

\* A transmit channel is created or destroyed.
LEMMA ShaperChange ==
  ASSUME ShaperInv, NEW n \in Port, ChangeTx(n)
  PROVE  ShaperInv'
<1>1. /\ op = "channels" /\ op' = op /\ wantTx' = wantTx /\ active' = active /\ ~active
      /\ txnum' = (IF txnum < wantTx THEN txnum + 1 ELSE txnum - 1) /\ txnum # wantTx
      /\ rate' = [p \in Queue |-> IF p < txnum' THEN rate[p] ELSE 0]
  BY DEF ChangeTx, opVars, regVars, ShaperInv, Suspended
<1>2. txnum \in 1..MaxQueues /\ wantTx \in 1..MaxQueues /\ txnum' \in 1..MaxQueues
  BY <1>1, NumAssumption DEF ShaperInv, ChanOK
<1>3. ChanOK'
  BY <1>1, <1>2, NumAssumption DEF ShaperInv, ChanOK, Queue
<1>4. Suspended'
  BY <1>1 DEF Suspended
<1>5. FitRate(rate)'
  <2> SUFFICES ASSUME NEW q \in 0..(txnum' - 1), rate'[q] > 0, NEW p \in 0..q
               PROVE  rate'[p] > 0
    BY DEF FitRate, TxQueue
  <2>1. q \in Queue /\ p \in Queue /\ p < txnum' /\ rate'[p] = rate[p] /\ rate'[q] = rate[q]
    BY <1>1, <1>2, NumAssumption DEF Queue
  <2>2. q < txnum
    BY <2>1 DEF ShaperInv, ChanOK
  <2>3. q \in TxQueue
    BY <2>2, <1>2 DEF TxQueue
  <2>4. QED
    BY <2>1, <2>3 DEF ShaperInv, ShapersMatch, FitRate
<1>6. QED
  BY <1>1, <1>3, <1>4, <1>5 DEF ShaperInv, ShapersMatch

\* Every step keeps the shapers and the rates together.
LEMMA ShaperStep == ShaperInv /\ [Next]_vars => ShaperInv'
<1> SUFFICES ASSUME ShaperInv, [Next]_vars PROVE ShaperInv'
  OBVIOUS
<1> USE DEF chanVars, regVars, budgetVars, linkVars, opVars
<1>1. ASSUME NEW t \in Thread, SplitRes(t) PROVE ShaperInv'
  BY <1>1, ShaperFrame DEF SplitRes, Measure, Share, Weigh, Rest
<1>2. ASSUME NEW n \in Port, NEW q \in Queue, NEW r \in Rates \cup {0}, SetMaxrate(n, q, r)
      PROVE  ShaperInv'
  BY <1>2, ShaperRate
<1>3. ASSUME NEW tx \in 1..MaxQueues, NEW rx \in 1..MaxQueues, SetChannels(tx, rx)
      PROVE  ShaperInv'
  BY <1>3, ShaperEngine DEF SetChannels, CtlrStop
<1>4. ASSUME NEW n \in Port, ChangeRx(n) PROVE ShaperInv'
  BY <1>4, ShaperFrame DEF ChangeRx
<1>5. ASSUME NEW n \in Port, ChangeTx(n) PROVE ShaperInv'
  BY <1>5, ShaperChange
<1>6. ASSUME NEW n \in Port, ChannelsFail(n) PROVE ShaperInv'
  BY <1>6, ShaperFrame DEF ChannelsFail, Fail
<1>7. CASE ChannelsSet
  BY <1>7, ShaperFrame DEF ChannelsSet
<1>8. CASE Resume
  <2>1. CASE up # {}
    BY <1>8, <2>1, ShaperEngine DEF Resume
  <2>2. CASE up = {}
    BY <1>8, <2>2, ShaperFrame DEF Resume
  <2>3. QED
    BY <2>1, <2>2
<1>9. CASE RingFails
  BY <1>9, ShaperEngine DEF RingFails, CtlrStop, Fail
<1>10. ASSUME NEW k \in Rings, SetRing(k) PROVE ShaperInv'
  <2>1. UNCHANGED <<txnum, rate>> /\ op' # "channels"
    BY <1>10 DEF SetRing, RtnlFree
  <2>2. CASE up # {}
    BY <1>10, <2>1, <2>2, ShaperEngine DEF SetRing
  <2>3. CASE up = {}
    BY <1>10, <2>1, <2>3, ShaperFrame DEF SetRing
  <2>4. QED
    BY <2>2, <2>3
<1>11. ASSUME NEW n \in Port, Open(n) PROVE ShaperInv'
  BY <1>11, ShaperEngine DEF Open, RtnlFree
<1>12. ASSUME NEW n \in Port, Close(n) PROVE ShaperInv'
  BY <1>12, ShaperFrame DEF Close
<1>13. ASSUME NEW n \in Port, NdoStop(n) PROVE ShaperInv'
  <2>1. UNCHANGED <<txnum, rate>> /\ op' # "channels"
    BY <1>13 DEF NdoStop
  <2>2. CASE up' = {}
    BY <1>13, <2>1, <2>2, ShaperEngine DEF NdoStop, CtlrStop
  <2>3. CASE up' # {}
    BY <1>13, <2>1, <2>3, ShaperFrame DEF NdoStop
  <2>4. QED
    BY <2>2, <2>3
<1>14. ASSUME NEW n \in Port, NEW s \in LinkSpeeds \cup {0}, AdjustLink(n, s) PROVE ShaperInv'
  BY <1>14, ShaperFrame DEF AdjustLink
<1>15. CASE UNCHANGED vars
  BY <1>15, ShaperFrame DEF vars
<1>16. QED
  BY <1>1, <1>2, <1>3, <1>4, <1>5, <1>6, <1>7, <1>8, <1>9, <1>10, <1>11, <1>12, <1>13, <1>14,
     <1>15 DEF Next

\* In an ACTIVE engine the shapers that are on are those of the limited queues,
\* which are the first ones, however rates, channels, rings and interfaces are
\* changed.
THEOREM ShapersAlwaysMatch == Spec => []ShapersMatch
<1>1. ShaperInv => ShapersMatch
  BY DEF ShaperInv
<1>2. QED
  BY <1>1, ShaperInit, ShaperStep, PTL DEF Spec

-----------------------------------------------------------------------------
(* The threads in cpsw_split_res.                                          *)

\* A thread in cpsw_split_res: at its begin, in the loop over the channels
\* before one of them, or in cpdma_chan_set_weight.
SplitState ==
  [pc : {"idle", "measure"}]
    \cup [pc : {"share"}, q : Nat, max : Nat, each : Int, big : Int, bigQ : Queue, left : Int]
    \cup [pc : {"weigh"}, q : Nat, max : Nat, each : Int, big : Int, bigQ : Queue, left : Int,
          w : Nat]

SplitOK ==
  /\ split \in [Thread -> SplitState]
  /\ speed \in Nat /\ link \in [Port -> Nat]
  /\ budget \in [Queue -> Int] /\ rxbudget \in [Queue -> Int]
  /\ weight \in [Queue -> Nat]

\* The receive side of ChanOK, and what the channels have of the pool.
PoolOK ==
  /\ rxnum \in 1..MaxQueues
  /\ op = "channels" => wantRx \in 1..MaxQueues
  /\ numRx \in MaxQueues..(Pool - MaxQueues)
  /\ desc \in [Queue -> Nat] /\ rxdesc \in [Queue -> Nat]
  /\ \A q \in Queue : /\ q >= txnum => desc[q] = 0
                      /\ q >= rxnum => rxdesc[q] = 0

Sharing(t) == split[t].pc \in {"share", "weigh"}

\* The queues whose budget the thread has set.
Shared(t) == IF split[t].pc = "weigh" THEN split[t].q + 1 ELSE split[t].q

Follows(q) == (weight[q] > 0) = (rate[q] > 0)

\* How far an undisturbed thread has come.
Progress(t) ==
  LET s == split[t]
  IN  /\ Shared(t) <= txnum /\ s.bigQ < txnum
      /\ s.left = NapiWeight - Total(budget, Shared(t))
      /\ \A q \in 0..(s.q - 1) : Follows(q)
      /\ s.pc = "weigh" => (s.w > 0) = (rate[s.q] > 0)

Undisturbed ==
  ~disturbed =>
    /\ \A t, u \in Thread : Sharing(t) /\ Sharing(u) => t = u
    /\ \A t \in Thread : Sharing(t) => Progress(t)
    /\ (\A t \in Thread : ~Sharing(t)) =>
         /\ Total(budget, txnum) = NapiWeight /\ Total(rxbudget, rxnum) = NapiWeight
         /\ \A q \in TxQueue : Follows(q)

\* What C's division gives.
LEMMA QuotientType ==
  ASSUME NEW a \in Int, NEW b \in Nat
  PROVE  Quotient(a, b) \in Int /\ (a >= 0 => Quotient(a, b) \in Nat)
<1>1. CASE b = 0
  BY <1>1 DEF Quotient
<1>2. CASE b # 0 /\ a < 0
  <2>1. -a \in Nat /\ b > 0
    BY <1>2
  <2>2. (-a) \div b \in Nat
    BY <2>1, DivMod
  <2>3. QED
    BY <1>2, <2>2 DEF Quotient
<1>3. CASE b # 0 /\ a >= 0
  <2>1. a \div b \in Nat
    BY <1>3, DivMod
  <2>2. QED
    BY <1>3, <2>1 DEF Quotient
<1>4. QED
  BY <1>1, <1>2, <1>3

\* A limited queue gets something.
LEMMA AtLeastOneType ==
  ASSUME NEW x \in Nat
  PROVE  AtLeastOne(x) \in Nat /\ AtLeastOne(x) > 0
BY DEF AtLeastOne

\* The speeds of the links add up to a natural number.
LEMMA SpeedType ==
  ASSUME NEW l \in [Port -> Nat]
  PROVE  CommonSpeed(l) \in Nat
<1> DEFINE f == [i \in 0..(N - 1) |-> l[i + 1]]
<1>1. N \in Nat /\ \A k \in 0..(N - 1) : f[k] \in Int /\ f[k] >= 0
  BY NumAssumption DEF Port
<1> HIDE DEF f
<1>2. Total(f, N) \in Int /\ Total(f, N) >= 0
  BY <1>1, TotalType
<1>3. QED
  BY <1>2 DEF CommonSpeed, f

\* At first no thread is in cpsw_split_res.
LEMMA SplitInit == Init => SplitOK
<1> SUFFICES ASSUME Init PROVE SplitOK
  OBVIOUS
<1>1. split \in [Thread -> SplitState]
  BY DEF Init, SplitState
<1>2. speed \in Nat /\ link \in [Port -> Nat] /\ weight \in [Queue -> Nat]
  BY DEF Init, Zero
<1>3. budget \in [Queue -> Int] /\ rxbudget \in [Queue -> Int]
  BY DEF Init, NapiWeight
<1>4. QED
  BY <1>1, <1>2, <1>3 DEF SplitOK

\* Where a thread goes next.
LEMMA SplitMove ==
  ASSUME SplitOK, NEW t \in Thread, NEW s \in SplitState, split' = [split EXCEPT ![t] = s]
  PROVE  split' \in [Thread -> SplitState]
BY DEF SplitOK

\* What a step of cpsw_split_res does to the thread's own variables, the budgets and
\* the weights.
LEMMA MeasureOK ==
  ASSUME SplitOK, ChanOK, NEW t \in Thread, Measure(t)
  PROVE  /\ SplitOK'
         /\ split'[t].pc = "share" /\ split'[t].q = 0 /\ split'[t].bigQ = 0
         /\ split'[t].left = NapiWeight
<1> DEFINE limited == Limited(rate)
           free == txnum - Cardinality(limited)
           consumed == Total(rate, txnum)
           mixed == free > 0 /\ limited # {}
           max == IF mixed THEN Potential(consumed) ELSE consumed
           each == IF mixed THEN Quotient(NapiWeight - Quotient(consumed * NapiWeight, max), free)
                   ELSE IF free > 0 THEN NapiWeight \div txnum ELSE 0
           big == IF ~mixed THEN 0 ELSE IF max < consumed THEN Huge ELSE (max - consumed) \div free
           s == [pc |-> "share", q |-> 0, max |-> max, each |-> each, big |-> big, bigQ |-> 0,
                 left |-> NapiWeight]
<1>1. split' = [split EXCEPT ![t] = s]
  BY DEF Measure
<1>2. txnum \in Nat /\ txnum > 0 /\ speed \in Nat
  BY NumAssumption DEF ChanOK, SplitOK
<1>3. free \in Int
  <2>1. IsFiniteSet(Queue)
    BY NumAssumption, FS_Interval DEF Queue
  <2>2. Cardinality(limited) \in Nat
    BY <2>1, FS_Subset, FS_CardinalityType DEF Limited
  <2>3. QED
    BY <1>2, <2>2
<1>4. consumed \in Nat
  <2>1. \A k \in 0..(txnum - 1) : rate[k] \in Int /\ rate[k] >= 0
    BY NumAssumption DEF ChanOK, Queue
  <2>2. Total(rate, txnum) \in Int /\ Total(rate, txnum) >= 0
    BY <1>2, <2>1, TotalType
  <2>3. QED
    BY <2>2
<1> HIDE DEF limited, free, consumed
<1>5. max \in Nat
  BY <1>2, <1>4 DEF Potential
<1> HIDE DEF max
<1>6. each \in Int
  <2>1. CASE mixed
    <3>1. consumed * NapiWeight \in Int
      BY <1>4 DEF NapiWeight
    <3>2. Quotient(consumed * NapiWeight, max) \in Int
      BY <1>5, <3>1, QuotientType
    <3>3. NapiWeight - Quotient(consumed * NapiWeight, max) \in Int /\ free \in Nat
      BY <1>3, <2>1, <3>2 DEF NapiWeight
    <3>4. Quotient(NapiWeight - Quotient(consumed * NapiWeight, max), free) \in Int
      BY <3>3, QuotientType
    <3>5. QED
      BY <2>1, <3>4
  <2>2. CASE ~mixed
    <3>1. NapiWeight \div txnum \in Int
      BY <1>2, DivMod DEF NapiWeight
    <3>2. QED
      BY <2>2, <3>1
  <2>3. QED
    BY <2>1, <2>2
<1>7. big \in Int
  <2>1. CASE mixed /\ ~(max < consumed)
    <3>1. max - consumed \in Nat /\ free \in Nat /\ free > 0
      BY <1>3, <1>4, <1>5, <2>1
    <3>2. (max - consumed) \div free \in Int
      BY <3>1, DivMod
    <3>3. QED
      BY <2>1, <3>2
  <2>2. CASE ~(mixed /\ ~(max < consumed))
    BY <2>2 DEF Huge
  <2>3. QED
    BY <2>1, <2>2
<1> HIDE DEF each, big
<1>8. s \in SplitState
  BY <1>5, <1>6, <1>7, NumAssumption DEF SplitState, NapiWeight, Queue
<1>9. split' \in [Thread -> SplitState]
  BY <1>1, <1>8, SplitMove
<1>10. SplitOK'
  BY <1>9 DEF Measure, SplitOK, chanVars, budgetVars, linkVars
<1>11. split'[t] = s
  BY <1>1 DEF SplitOK
<1>12. QED
  BY <1>10, <1>11

\* The thread's own variables have values in the loop.
LEMMA SplitKinds ==
  ASSUME SplitOK, NEW t \in Thread
  PROVE  LET s == split[t]
         IN  /\ s.pc \in {"idle", "measure", "share", "weigh"}
             /\ Sharing(t) => /\ s.q \in Nat /\ s.max \in Nat /\ s.each \in Int /\ s.big \in Int
                              /\ s.bigQ \in Queue /\ s.left \in Int
             /\ s.pc = "weigh" => s.w \in Nat
BY DEF SplitOK, SplitState, Sharing

\* The budget of one queue.
LEMMA ShareOK ==
  ASSUME SplitOK, ChanOK, NEW t \in Thread, Share(t)
  PROVE  /\ SplitOK'
         /\ split[t].q \in TxQueue /\ split[t].q \in Queue
         /\ split'[t].pc = "weigh" /\ split'[t].q = split[t].q
         /\ split'[t].bigQ \in {split[t].q, split[t].bigQ}
         /\ (split'[t].w > 0) = (rate[split[t].q] > 0)
         /\ \E b \in Int : /\ budget' = [budget EXCEPT ![split[t].q] = b]
                           /\ split'[t].left = split[t].left - b
<1> DEFINE s == split[t]
           r == rate[s.q]
           b == IF r > 0 THEN AtLeastOne(Quotient(r * NapiWeight, s.max)) ELSE s.each
           w == IF r > 0 THEN AtLeastOne(Quotient(r * 100, s.max)) ELSE 0
           larger == IF r > 0 THEN r > s.big ELSE s.bigQ = 0
           new == [pc |-> "weigh", q |-> s.q, max |-> s.max, each |-> s.each,
                   big |-> IF r > s.big THEN r ELSE s.big,
                   bigQ |-> IF larger THEN s.q ELSE s.bigQ,
                   left |-> s.left - b, w |-> w]
<1>1. /\ s.pc = "share" /\ s.q < txnum /\ split' = [split EXCEPT ![t] = new]
      /\ budget' = [budget EXCEPT ![s.q] = b]
  BY DEF Share
<1>2. /\ s.q \in Nat /\ s.max \in Nat /\ s.each \in Int /\ s.big \in Int
      /\ s.bigQ \in Queue /\ s.left \in Int
  BY <1>1, SplitKinds DEF Sharing
<1>3. s.q \in TxQueue /\ s.q \in Queue /\ r \in Nat
  BY <1>1, <1>2, NumAssumption DEF TxQueue, Queue, ChanOK
<1> HIDE DEF s, r
<1>4. b \in Int /\ w \in Nat /\ (w > 0) = (r > 0)
  <2>1. /\ r * NapiWeight \in Int /\ r * NapiWeight >= 0
        /\ r * 100 \in Int /\ r * 100 >= 0
    BY <1>3 DEF NapiWeight
  <2>2. Quotient(r * NapiWeight, s.max) \in Nat /\ Quotient(r * 100, s.max) \in Nat
    BY <1>2, <2>1, QuotientType
  <2>3. /\ AtLeastOne(Quotient(r * NapiWeight, s.max)) \in Nat
        /\ AtLeastOne(Quotient(r * 100, s.max)) \in Nat
        /\ AtLeastOne(Quotient(r * 100, s.max)) > 0
    BY <2>2, AtLeastOneType
  <2>4. QED
    BY <1>2, <1>3, <2>3
<1> HIDE DEF b, w
<1>5. new \in SplitState
  BY <1>2, <1>3, <1>4 DEF SplitState
<1>6. split' \in [Thread -> SplitState]
  BY <1>1, <1>5, SplitMove
<1>7. budget' \in [Queue -> Int]
  BY <1>1, <1>4 DEF SplitOK
<1>8. SplitOK'
  BY <1>6, <1>7 DEF Share, SplitOK, chanVars, linkVars
<1>9. split'[t] = new
  BY <1>1 DEF SplitOK
<1>10. /\ split'[t].pc = "weigh" /\ split'[t].q = s.q /\ split'[t].bigQ \in {s.q, s.bigQ}
       /\ split'[t].left = s.left - b /\ split'[t].w = w
  BY <1>9
<1> HIDE DEF new, larger
<1>11. (split'[t].w > 0) = (rate[s.q] > 0)
  BY <1>4, <1>10 DEF r
<1>12. \E d \in Int : /\ budget' = [budget EXCEPT ![s.q] = d]
                     /\ split'[t].left = s.left - d
  BY <1>1, <1>4, <1>10
<1>13. QED
  BY <1>3, <1>8, <1>10, <1>11, <1>12 DEF s

\* The weight of one queue.
LEMMA WeighOK ==
  ASSUME SplitOK, ChanOK, NEW t \in Thread, Weigh(t)
  PROVE  /\ SplitOK'
         /\ split[t].pc = "weigh" /\ split[t].q \in Nat
         /\ split'[t].pc = "share" /\ split'[t].q = split[t].q + 1
         /\ split'[t].bigQ = split[t].bigQ /\ split'[t].left = split[t].left
         /\ weight' = IF split[t].q < txnum THEN [weight EXCEPT ![split[t].q] = split[t].w]
                                            ELSE weight
<1> DEFINE s == split[t]
           new == [pc |-> "share", q |-> s.q + 1, max |-> s.max, each |-> s.each,
                   big |-> s.big, bigQ |-> s.bigQ, left |-> s.left]
<1>1. s.pc = "weigh" /\ split' = [split EXCEPT ![t] = new]
  BY DEF Weigh
<1>2. /\ s.q \in Nat /\ s.max \in Nat /\ s.each \in Int /\ s.big \in Int
      /\ s.bigQ \in Queue /\ s.left \in Int /\ s.w \in Nat
  BY <1>1, SplitKinds DEF Sharing
<1>3. weight' = IF s.q < txnum THEN [weight EXCEPT ![s.q] = s.w] ELSE weight
  BY DEF Weigh, SplitOK
<1> HIDE DEF s
<1>4. weight' \in [Queue -> Nat]
  BY <1>2, <1>3 DEF SplitOK
<1>5. new \in SplitState
  BY <1>2 DEF SplitState
<1>6. split' \in [Thread -> SplitState]
  BY <1>1, <1>5, SplitMove
<1>7. SplitOK'
  BY <1>4, <1>6 DEF Weigh, SplitOK, budgetVars, linkVars
<1>8. split'[t] = new
  BY <1>1 DEF SplitOK
<1>9. QED
  BY <1>1, <1>2, <1>3, <1>7, <1>8 DEF s

\* The receive channels share out the NAPI weight.
LEMMA RxBudgetsTotal ==
  ASSUME SplitOK, rxnum \in 1..MaxQueues
  PROVE  RxBudgets \in [Queue -> Int] /\ Total(RxBudgets, rxnum) = NapiWeight
<1> DEFINE x == RxBudgets
<1>1. rxnum \in Nat /\ rxnum > 0 /\ 0..(rxnum - 1) \subseteq Queue /\ Queue \subseteq Nat
  BY NumAssumption DEF Queue
<1>2. x = [c \in Queue |-> IF c >= rxnum THEN rxbudget[c]
                           ELSE (NapiWeight \div rxnum) + IF c = 0 THEN NapiWeight % rxnum ELSE 0]
  BY DEF RxBudgets
<1> HIDE DEF x
<1>3. \A k \in 0..(rxnum - 1) :
        x[k] = (NapiWeight \div rxnum) + IF k = 0 THEN NapiWeight % rxnum ELSE 0
  BY <1>1, <1>2
<1>4. NapiWeight \in Nat
  BY DEF NapiWeight
<1>5. (\A k \in 0..(rxnum - 1) : x[k] \in Nat) /\ Total(x, rxnum) = NapiWeight
  BY <1>1, <1>3, <1>4, EvenTotal
<1>6. \A c \in Queue : c >= rxnum => x[c] = rxbudget[c]
  BY <1>2
<1>7. x \in [Queue -> Int]
  <2>1. ASSUME NEW c \in Queue PROVE x[c] \in Int
    <3>1. c >= rxnum \/ c \in 0..(rxnum - 1)
      BY <1>1
    <3>2. QED
      BY <1>5, <1>6, <3>1 DEF SplitOK
  <2>2. QED
    BY <1>2, <2>1
<1>8. QED
  BY <1>5, <1>7 DEF x

\* What is left goes to one queue.
LEMMA RestOK ==
  ASSUME SplitOK, ChanOK, rxnum \in 1..MaxQueues, NEW t \in Thread, Rest(t)
  PROVE  /\ SplitOK'
         /\ split[t].pc = "share" /\ split[t].q >= txnum
         /\ split'[t].pc = "idle"
         /\ budget' = [budget EXCEPT ![split[t].bigQ] = @ + split[t].left]
         /\ split[t].bigQ \in Queue /\ split[t].left \in Int
         /\ rxbudget' = RxBudgets
<1>1. /\ split[t].pc = "share" /\ split[t].q >= txnum
      /\ split' = [split EXCEPT ![t] = [pc |-> "idle"]]
      /\ budget' = [budget EXCEPT ![split[t].bigQ] = @ + split[t].left]
      /\ rxbudget' = RxBudgets
  BY DEF Rest
<1>2. split[t].bigQ \in Queue /\ split[t].left \in Int
  BY <1>1, SplitKinds DEF Sharing
<1>3. [pc |-> "idle"] \in SplitState
  BY DEF SplitState
<1>4. split' \in [Thread -> SplitState]
  BY <1>1, <1>3, SplitMove
<1>5. budget' \in [Queue -> Int]
  BY <1>1, <1>2 DEF SplitOK
<1>6. rxbudget' \in [Queue -> Int]
  BY <1>1, RxBudgetsTotal
<1>7. SplitOK'
  BY <1>4, <1>5, <1>6 DEF Rest, SplitOK, chanVars, linkVars
<1>8. split'[t].pc = "idle"
  BY <1>1 DEF SplitOK
<1>9. QED
  BY <1>1, <1>2, <1>7, <1>8

\* The operation that changes the channels waits for cpsw_split_res.
RtnlIdle == op = "channels" => split[0].pc = "idle"

\* Only a thread that is idle starts it, and SetChannels waits for thread 0.
LEMMA RtnlStep ==
  ASSUME SplitOK, RtnlIdle, [Next]_vars
  PROVE  RtnlIdle'
<1> USE DEF opVars, RtnlFree
<1>1. 0 \in Thread /\ \A n \in Port : n \in Thread /\ n # 0
  BY NumAssumption DEF Thread, Port
<1>2. ASSUME NEW t \in Thread, SplitRes(t) PROVE RtnlIdle'
  <2>1. op' = op /\ split[t].pc # "idle" /\ \A u \in Thread : u # t => split'[u] = split[u]
    BY <1>2 DEF SplitRes, Measure, Share, Weigh, Rest, SplitOK
  <2>2. QED
    BY <1>1, <2>1 DEF RtnlIdle
<1>3. ASSUME op' = op, UNCHANGED split PROVE RtnlIdle'
  BY <1>3 DEF RtnlIdle
<1>4. ASSUME op' # "channels" PROVE RtnlIdle'
  BY <1>4 DEF RtnlIdle
<1>5. ASSUME NEW n \in Port, NEW q \in Queue, NEW r \in Rates \cup {0}, SetMaxrate(n, q, r)
      PROVE  RtnlIdle'
  BY <1>4, <1>5 DEF SetMaxrate
<1>6. ASSUME NEW tx \in 1..MaxQueues, NEW rx \in 1..MaxQueues, SetChannels(tx, rx)
      PROVE  RtnlIdle'
  BY <1>6 DEF SetChannels, RtnlIdle
<1>7. ASSUME NEW n \in Port, ChangeRx(n) \/ ChangeTx(n) PROVE RtnlIdle'
  BY <1>3, <1>7 DEF ChangeRx, ChangeTx
<1>8. ASSUME NEW n \in Port, ChannelsFail(n) PROVE RtnlIdle'
  BY <1>4, <1>8 DEF ChannelsFail, Fail
<1>9. CASE ChannelsSet \/ Resume \/ RingFails
  BY <1>4, <1>9 DEF ChannelsSet, Resume, RingFails, Fail
<1>10. ASSUME NEW k \in Rings, SetRing(k) PROVE RtnlIdle'
  BY <1>4, <1>10 DEF SetRing
<1>11. ASSUME NEW n \in Port, Open(n) \/ Close(n) PROVE RtnlIdle'
  BY <1>4, <1>11 DEF Open, Close
<1>12. ASSUME NEW n \in Port, NdoStop(n) PROVE RtnlIdle'
  BY <1>4, <1>12 DEF NdoStop
<1>13. ASSUME NEW n \in Port, NEW s \in LinkSpeeds \cup {0}, AdjustLink(n, s) PROVE RtnlIdle'
  <2>1. op' = op /\ \A u \in Thread : u # n => split'[u] = split[u]
    BY <1>13 DEF AdjustLink, Resplit, Start, SplitOK
  <2>2. QED
    BY <1>1, <2>1 DEF RtnlIdle
<1>14. CASE UNCHANGED vars
  BY <1>3, <1>14 DEF vars
<1>15. QED
  BY <1>2, <1>5, <1>6, <1>7, <1>8, <1>9, <1>10, <1>11, <1>12, <1>13, <1>14 DEF Next

\* Steps that at most start cpsw_split_res in a thread.
LEMMA SplitFrame ==
  ASSUME SplitOK, UNCHANGED <<weight, budgetVars>>,
         UNCHANGED split \/ \E t \in Thread : Start(t),
         speed' \in Nat, link' \in [Port -> Nat]
  PROVE  SplitOK'
<1>1. budget' \in [Queue -> Int] /\ rxbudget' \in [Queue -> Int] /\ weight' \in [Queue -> Nat]
  BY DEF SplitOK, budgetVars
<1>2. split' \in [Thread -> SplitState]
  <2>1. [pc |-> "measure"] \in SplitState
    BY DEF SplitState
  <2>2. ASSUME NEW t \in Thread, Start(t) PROVE split' \in [Thread -> SplitState]
    BY <2>1, <2>2, SplitMove DEF Start
  <2>3. QED
    BY <2>2 DEF SplitOK
<1>3. QED
  BY <1>1, <1>2 DEF SplitOK

\* A change of the common speed.
LEMMA ResplitOK ==
  ASSUME SplitOK, NEW t \in Thread, NEW l \in [Port -> Nat], Resplit(t, l)
  PROVE  speed' \in Nat /\ (UNCHANGED split \/ Start(t))
<1>1. CommonSpeed(l) \in Nat
  BY SpeedType
<1>2. QED
  BY <1>1 DEF Resplit, SplitOK

\* Every step keeps the types.
LEMMA SplitStep ==
  ASSUME SplitOK, ChanOK, PoolOK, [Next]_vars
  PROVE  SplitOK'
<1> USE DEF chanVars, linkVars
<1>1. 0 \in Thread /\ \A n \in Port : n \in Thread
  BY NumAssumption DEF Thread, Port
<1>2. speed \in Nat /\ link \in [Port -> Nat]
  BY DEF SplitOK
<1>3. ASSUME NEW t \in Thread, SplitRes(t) PROVE SplitOK'
  <2>1. rxnum \in 1..MaxQueues
    BY DEF PoolOK
  <2>2. QED
    BY <1>3, <2>1, MeasureOK, ShareOK, WeighOK, RestOK DEF SplitRes
<1>4. ASSUME UNCHANGED <<weight, budgetVars, speed, link>>, UNCHANGED split \/ Start(0)
      PROVE  SplitOK'
  BY <1>1, <1>2, <1>4, SplitFrame
<1>5. ASSUME NEW n \in Port, NEW q \in Queue, NEW r \in Rates \cup {0}, SetMaxrate(n, q, r)
      PROVE  SplitOK'
  BY <1>4, <1>5 DEF SetMaxrate
<1>6. ASSUME NEW tx \in 1..MaxQueues, NEW rx \in 1..MaxQueues, SetChannels(tx, rx)
      PROVE  SplitOK'
  BY <1>4, <1>6 DEF SetChannels
<1>7. ASSUME NEW n \in Port, ChangeRx(n) PROVE SplitOK'
  BY <1>4, <1>7 DEF ChangeRx
<1>8. ASSUME NEW n \in Port, ChangeTx(n) PROVE SplitOK'
  BY <1>8 DEF ChangeTx, SplitOK, budgetVars
<1>9. ASSUME NEW n \in Port, ChannelsFail(n) PROVE SplitOK'
  BY <1>4, <1>9 DEF ChannelsFail
<1>10. CASE ChannelsSet
  BY <1>4, <1>10 DEF ChannelsSet
<1>11. CASE Resume \/ RingFails
  BY <1>4, <1>11 DEF Resume, RingFails
<1>12. ASSUME NEW k \in Rings, SetRing(k) PROVE SplitOK'
  BY <1>4, <1>12 DEF SetRing
<1>13. ASSUME NEW n \in Port, Open(n) \/ Close(n) PROVE SplitOK'
  BY <1>4, <1>13 DEF Open, Close
<1>14. ASSUME NEW n \in Port, NdoStop(n) PROVE SplitOK'
  <2>1. link' \in [Port -> Nat] /\ Resplit(0, link') /\ UNCHANGED <<weight, budgetVars>>
    BY <1>2, <1>14 DEF NdoStop
  <2>2. speed' \in Nat /\ (UNCHANGED split \/ Start(0))
    BY <1>1, <2>1, ResplitOK
  <2>3. QED
    BY <1>1, <2>1, <2>2, SplitFrame
<1>15. ASSUME NEW n \in Port, NEW s \in LinkSpeeds \cup {0}, AdjustLink(n, s) PROVE SplitOK'
  <2>1. link' \in [Port -> Nat] /\ UNCHANGED <<weight, budgetVars>>
    BY <1>2, <1>15, NumAssumption DEF AdjustLink
  <2>2. speed' \in Nat /\ (UNCHANGED split \/ Start(n))
    BY <1>1, <1>2, <1>15, <2>1, ResplitOK DEF AdjustLink
  <2>3. QED
    BY <1>1, <2>1, <2>2, SplitFrame
<1>16. CASE UNCHANGED vars
  BY <1>4, <1>16 DEF vars
<1>17. QED
  BY <1>3, <1>5, <1>6, <1>7, <1>8, <1>9, <1>10, <1>11, <1>12, <1>13, <1>14, <1>15, <1>16 DEF Next

-----------------------------------------------------------------------------
(* The pool.                                                               *)

\* cpdma_chan_split_pool, also when it refuses.
LEMMA SplitPoolOK ==
  ASSUME ChanOK, PoolOK, PoolShared, NEW w \in [Queue -> Nat],
         NEW n \in 1..MaxQueues, NEW m \in 1..MaxQueues,
         NEW r \in MaxQueues..(Pool - MaxQueues), Fits(w, n) \/ r = numRx,
         SplitPool(w, n, m, r)
  PROVE  /\ desc' \in [Queue -> Nat] /\ rxdesc' \in [Queue -> Nat]
         /\ \A q \in Queue : (q >= n => desc'[q] = 0) /\ (q >= m => rxdesc'[q] = 0)
         /\ Total(desc', n) <= Pool - r /\ Total(rxdesc', m) <= r
         /\ Fits(w, n) => Total(desc', n) \in {0, Pool - r} /\ Total(rxdesc', m) = r
<1>1. /\ Pool \in Nat /\ MaxQueues \in Nat /\ r \in Nat /\ Pool - r \in Nat /\ r >= m
      /\ n \in Nat /\ m \in Nat /\ 0..(n - 1) \subseteq Queue /\ 0..(m - 1) \subseteq Queue
  BY NumAssumption DEF Queue
<1>2. CASE Fits(w, n)
  <2>1. desc' = TxShares(w, n, Pool - r) /\ rxdesc' = RxShares(m, r)
    BY <1>2 DEF SplitPool
  <2>2. \A k \in 0..(n - 1) : w[k] \in Nat
    BY <1>1
  <2>3. /\ TxShares(w, n, Pool - r) \in [Queue -> Nat]
        /\ \A q \in Queue : q >= n => TxShares(w, n, Pool - r)[q] = 0
        /\ Total(TxShares(w, n, Pool - r), n) \in {0, Pool - r}
    BY <1>1, <1>2, <2>2, TxTotal
  <2>4. /\ RxShares(m, r) \in [Queue -> Nat]
        /\ \A c \in Queue : c >= m => RxShares(m, r)[c] = 0
        /\ Total(RxShares(m, r), m) = r
    BY <1>1, RxTotal
  <2>5. QED
    BY <1>1, <2>1, <2>3, <2>4
<1>3. CASE ~Fits(w, n)
  <2>1. ASSUME NEW f \in [Queue -> Nat], NEW g, NEW k \in 1..MaxQueues, NEW l \in 1..MaxQueues,
               \A q \in Queue : q >= k => f[q] = 0,
               g = [q \in Queue |-> IF q < l THEN f[q] ELSE 0]
        PROVE  Total(g, l) <= Total(f, k)
    <3>1. /\ k \in Nat /\ l \in Nat /\ k <= MaxQueues /\ l <= MaxQueues
          /\ 0..(MaxQueues - 1) \subseteq Queue /\ Queue \subseteq Nat
      BY NumAssumption DEF Queue
    <3>2. \A q \in 0..(MaxQueues - 1) : f[q] \in Int /\ g[q] \in Int /\ g[q] <= f[q]
      BY <2>1, <3>1
    <3>3. Total(g, MaxQueues) <= Total(f, MaxQueues)
      BY <1>1, <3>2, TotalLess
    <3>4. Total(f, MaxQueues) = Total(f, k)
      <4>1. \A q \in 0..(k - 1) : f[q] \in Int
        BY <1>1, <3>1, <3>2
      <4>2. \A q \in k..(MaxQueues - 1) : f[q] = 0
        BY <2>1, <3>1
      <4>3. QED
        BY <1>1, <3>1, <4>1, <4>2, TotalTail
    <3>5. Total(g, MaxQueues) = Total(g, l)
      <4>1. \A q \in 0..(l - 1) : g[q] \in Int
        BY <1>1, <3>1, <3>2
      <4>2. \A q \in l..(MaxQueues - 1) : g[q] = 0
        BY <2>1, <3>1
      <4>3. QED
        BY <1>1, <3>1, <4>1, <4>2, TotalTail
    <3>6. QED
      BY <3>3, <3>4, <3>5
  <2>2. /\ desc' = [q \in Queue |-> IF q < n THEN desc[q] ELSE 0]
        /\ rxdesc' = [c \in Queue |-> IF c < m THEN rxdesc[c] ELSE 0]
    BY <1>3 DEF SplitPool
  <2>3. /\ desc \in [Queue -> Nat] /\ rxdesc \in [Queue -> Nat]
        /\ \A q \in Queue : (q >= txnum => desc[q] = 0) /\ (q >= rxnum => rxdesc[q] = 0)
        /\ txnum \in 1..MaxQueues /\ rxnum \in 1..MaxQueues /\ r = numRx
    BY <1>3 DEF PoolOK, ChanOK
  <2>4. Total(desc', n) <= Total(desc, txnum) /\ Total(rxdesc', m) <= Total(rxdesc, rxnum)
    BY <2>1, <2>2, <2>3
  <2>5. Total(desc, txnum) <= Pool - r /\ Total(rxdesc, rxnum) <= r
    BY <2>3 DEF PoolShared
  <2>6. /\ desc' \in [Queue -> Nat] /\ rxdesc' \in [Queue -> Nat]
        /\ \A q \in Queue : (q >= n => desc'[q] = 0) /\ (q >= m => rxdesc'[q] = 0)
    BY <1>1, <2>2, <2>3 DEF Queue
  <2>7. /\ Total(desc', n) \in Int /\ Total(rxdesc', m) \in Int
        /\ Total(desc, txnum) \in Int /\ Total(rxdesc, rxnum) \in Int
    <3>1. /\ \A k \in 0..(n - 1) : desc'[k] \in Int
          /\ \A k \in 0..(m - 1) : rxdesc'[k] \in Int
          /\ \A k \in 0..(txnum - 1) : desc[k] \in Int
          /\ \A k \in 0..(rxnum - 1) : rxdesc[k] \in Int
      BY <1>1, <2>3, <2>6 DEF Queue
    <3>2. txnum \in Nat /\ rxnum \in Nat
      BY <2>3, <1>1
    <3>3. QED
      BY <1>1, <3>1, <3>2, TotalType
  <2>8. QED
    BY <1>1, <1>3, <2>4, <2>5, <2>6, <2>7
<1>4. QED
  BY <1>2, <1>3

\* Steps that leave the shares alone.
LEMMA PoolFrame ==
  ASSUME PoolOK, PoolShared, UNCHANGED <<txnum, rxnum, weight, desc, rxdesc, numRx>>,
         op' = "channels" => wantRx' \in 1..MaxQueues
  PROVE  PoolOK' /\ PoolShared'
<1>1. PoolOK'
  BY DEF PoolOK
<1>2. Total(desc', txnum') = Total(desc, txnum) /\ Total(rxdesc', rxnum') = Total(rxdesc, rxnum)
  OBVIOUS
<1>3. Fits(weight', txnum') = Fits(weight, txnum)
  OBVIOUS
<1>4. PoolShared'
  BY <1>2, <1>3 DEF PoolShared
<1>5. QED
  BY <1>1, <1>4

\* Steps that share it out anew.
LEMMA PoolSplit ==
  ASSUME ChanOK, PoolOK, PoolShared, SplitPool(weight', txnum', rxnum', numRx'),
         weight' \in [Queue -> Nat], txnum' \in 1..MaxQueues, rxnum' \in 1..MaxQueues,
         numRx' \in MaxQueues..(Pool - MaxQueues), Fits(weight', txnum') \/ numRx' = numRx,
         op' = "channels" => wantRx' \in 1..MaxQueues
  PROVE  PoolOK' /\ PoolShared'
<1>1. /\ desc' \in [Queue -> Nat] /\ rxdesc' \in [Queue -> Nat]
      /\ \A q \in Queue : (q >= txnum' => desc'[q] = 0) /\ (q >= rxnum' => rxdesc'[q] = 0)
      /\ Total(desc', txnum') <= Pool - numRx' /\ Total(rxdesc', rxnum') <= numRx'
      /\ Fits(weight', txnum') => /\ Total(desc', txnum') \in {0, Pool - numRx'}
                                 /\ Total(rxdesc', rxnum') = numRx'
  BY SplitPoolOK
<1>2. PoolOK'
  BY <1>1 DEF PoolOK
<1>3. PoolShared'
  BY <1>1 DEF PoolShared, Fits
<1>4. QED
  BY <1>2, <1>3

\* The first channels take a half of the pool each.
LEMMA PoolInit == Init => PoolOK /\ PoolShared
<1> SUFFICES ASSUME Init PROVE PoolOK /\ PoolShared
  OBVIOUS
<1> DEFINE half == Pool \div 2
<1>1. /\ txnum = 1 /\ rxnum = 1 /\ op = "none" /\ numRx = Pool - half /\ weight = Zero
      /\ desc = TxShares(Zero, 1, half) /\ rxdesc = RxShares(1, numRx)
  BY DEF Init
<1>2. /\ 1 \in 1..MaxQueues /\ half \in Nat /\ numRx \in MaxQueues..(Pool - MaxQueues)
      /\ numRx \in Nat /\ numRx >= 1 /\ Pool - numRx = half
  BY <1>1, NumAssumption
<1>3. Fits(Zero, 1) /\ \A k \in 0..(1 - 1) : Zero[k] \in Nat
  <2>1. \A k \in 0..(1 - 1) : Zero[k] = 0
    BY NumAssumption DEF Zero, Queue
  <2>2. Total(Zero, 1) = 1 * 0
    BY <2>1, TotalConst
  <2>3. QED
    BY <2>1, <2>2 DEF Fits
<1> HIDE DEF half
<1>4. /\ TxShares(Zero, 1, half) \in [Queue -> Nat]
      /\ \A q \in Queue : q >= 1 => TxShares(Zero, 1, half)[q] = 0
      /\ Total(TxShares(Zero, 1, half), 1) \in {0, half}
  BY <1>2, <1>3, TxTotal
<1>5. /\ RxShares(1, numRx) \in [Queue -> Nat]
      /\ \A c \in Queue : c >= 1 => RxShares(1, numRx)[c] = 0
      /\ Total(RxShares(1, numRx), 1) = numRx
  BY <1>2, RxTotal
<1>6. PoolOK
  BY <1>1, <1>2, <1>4, <1>5 DEF PoolOK
<1>7. PoolShared
  <2>1. Total(desc, txnum) \in {0, half} /\ Total(rxdesc, rxnum) = numRx
    BY <1>1, <1>4, <1>5
  <2>2. QED
    BY <1>2, <2>1 DEF PoolShared
<1>8. QED
  BY <1>6, <1>7

\* Every step keeps the pool shared.
LEMMA PoolStep ==
  ASSUME ChanOK, ChanOK', SplitOK, SplitOK', PoolOK, PoolShared, [Next]_vars
  PROVE  PoolOK' /\ PoolShared'
<1> USE DEF chanVars, opVars
<1>1. weight' \in [Queue -> Nat] /\ txnum' \in 1..MaxQueues
  BY DEF SplitOK, ChanOK
<1>2. rxnum \in 1..MaxQueues /\ numRx \in MaxQueues..(Pool - MaxQueues)
  BY DEF PoolOK
<1>3. op = "channels" => wantRx \in 1..MaxQueues
  BY DEF PoolOK
<1>4. ASSUME UNCHANGED <<txnum, rxnum, weight, desc, rxdesc, numRx>>,
             op' = "channels" => wantRx' \in 1..MaxQueues
      PROVE  PoolOK' /\ PoolShared'
  BY <1>4, PoolFrame
<1>5. ASSUME NEW t \in Thread, Measure(t) \/ Share(t) \/ Rest(t)
      PROVE  PoolOK' /\ PoolShared'
  BY <1>3, <1>4, <1>5 DEF Measure, Share, Rest
<1>6. ASSUME NEW t \in Thread, Weigh(t) PROVE PoolOK' /\ PoolShared'
  <2>1. UNCHANGED <<txnum, rxnum, numRx, op, wantRx>>
    BY <1>6 DEF Weigh
  <2>2. CASE split[t].q < txnum /\ weight[split[t].q] # split[t].w
    <3>1. SplitPool(weight', txnum', rxnum', numRx')
      BY <1>6, <2>1, <2>2 DEF Weigh
    <3>2. QED
      BY <1>1, <1>2, <1>3, <2>1, <3>1, PoolSplit
  <2>3. CASE ~(split[t].q < txnum /\ weight[split[t].q] # split[t].w)
    <3>1. UNCHANGED <<weight, desc, rxdesc>>
      BY <1>6, <2>3 DEF Weigh
    <3>2. QED
      BY <1>3, <1>4, <2>1, <3>1
  <2>4. QED
    BY <2>2, <2>3
<1>7. ASSUME NEW n \in Port, NEW q \in Queue, NEW r \in Rates \cup {0}, SetMaxrate(n, q, r)
      PROVE  PoolOK' /\ PoolShared'
  BY <1>3, <1>4, <1>7 DEF SetMaxrate
<1>8. ASSUME NEW tx \in 1..MaxQueues, NEW rx \in 1..MaxQueues, SetChannels(tx, rx)
      PROVE  PoolOK' /\ PoolShared'
  BY <1>4, <1>8 DEF SetChannels
<1>9. ASSUME NEW n \in Port, ChangeRx(n) PROVE PoolOK' /\ PoolShared'
  <2>1. /\ op = "channels" /\ rxnum # wantRx /\ UNCHANGED <<txnum, weight, numRx, op, wantRx>>
        /\ rxnum' = IF rxnum < wantRx THEN rxnum + 1 ELSE rxnum - 1
        /\ SplitPool(weight, txnum, rxnum', numRx)
    BY <1>9 DEF ChangeRx
  <2>2. rxnum' \in 1..MaxQueues
    BY <1>2, <1>3, <2>1, NumAssumption
  <2>3. SplitPool(weight', txnum', rxnum', numRx')
    BY <2>1
  <2>4. QED
    BY <1>1, <1>2, <1>3, <2>1, <2>2, <2>3, PoolSplit
<1>10. ASSUME NEW n \in Port, ChangeTx(n) PROVE PoolOK' /\ PoolShared'
  <2>1. /\ UNCHANGED <<rxnum, numRx, op, wantRx>>
        /\ SplitPool(weight', txnum', rxnum, numRx)
    BY <1>10 DEF ChangeTx
  <2>2. SplitPool(weight', txnum', rxnum', numRx')
    BY <2>1
  <2>3. QED
    BY <1>1, <1>2, <1>3, <2>1, <2>2, PoolSplit
<1>11. ASSUME NEW n \in Port, ChannelsFail(n) PROVE PoolOK' /\ PoolShared'
  BY <1>4, <1>11 DEF ChannelsFail, Fail
<1>12. CASE ChannelsSet \/ Resume \/ RingFails
  BY <1>4, <1>12 DEF ChannelsSet, Resume, RingFails, Fail
<1>13. ASSUME NEW k \in Rings, SetRing(k) PROVE PoolOK' /\ PoolShared'
  <2>1. /\ UNCHANGED <<txnum, rxnum, weight, op, wantRx>> /\ op = "none"
        /\ numRx' = IF Fits(weight, txnum) THEN k ELSE numRx
        /\ SplitPool(weight, txnum, rxnum, numRx')
    BY <1>13 DEF SetRing, RtnlFree
  <2>2. SplitPool(weight', txnum', rxnum', numRx')
    BY <2>1
  <2>3. numRx' \in MaxQueues..(Pool - MaxQueues)
    BY <1>2, <2>1, NumAssumption
  <2>4. Fits(weight', txnum') \/ numRx' = numRx
    BY <2>1
  <2>5. QED
    BY <1>1, <1>2, <2>1, <2>2, <2>3, <2>4, PoolSplit
<1>14. ASSUME NEW n \in Port, Open(n) \/ Close(n) PROVE PoolOK' /\ PoolShared'
  BY <1>4, <1>14 DEF Open, Close, RtnlFree
<1>15. ASSUME NEW n \in Port, NdoStop(n) PROVE PoolOK' /\ PoolShared'
  BY <1>3, <1>4, <1>15 DEF NdoStop
<1>16. ASSUME NEW n \in Port, NEW s \in LinkSpeeds \cup {0}, AdjustLink(n, s)
       PROVE  PoolOK' /\ PoolShared'
  BY <1>3, <1>4, <1>16 DEF AdjustLink
<1>17. CASE UNCHANGED vars
  BY <1>3, <1>4, <1>17 DEF vars
<1>18. QED
  BY <1>5, <1>6, <1>7, <1>8, <1>9, <1>10, <1>11, <1>12, <1>13, <1>14, <1>15, <1>16, <1>17
     DEF Next, SplitRes

-----------------------------------------------------------------------------
(* The budgets.                                                            *)

\* The budgets and weights are those that a completed cpsw_split_res has set.
AddedUp ==
  /\ Total(budget, txnum) = NapiWeight /\ Total(rxbudget, rxnum) = NapiWeight
  /\ \A q \in TxQueue : Follows(q)

\* Steps that leave rates, weights and budgets alone, and start no second split
\* in a thread.
LEMMA Aside ==
  ASSUME SplitOK, Undisturbed,
         UNCHANGED <<txnum, rxnum, rate, weight, budgetVars>>, disturbed' = disturbed,
         UNCHANGED split \/ \E t \in Thread : split[t].pc = "idle" /\ Start(t)
  PROVE  Undisturbed'
<1> SUFFICES ASSUME ~disturbed PROVE Undisturbed'
  BY DEF Undisturbed
<1>1. /\ \A t, u \in Thread : Sharing(t) /\ Sharing(u) => t = u
      /\ \A t \in Thread : Sharing(t) => Progress(t)
      /\ (\A t \in Thread : ~Sharing(t)) => AddedUp
  BY DEF Undisturbed, AddedUp
<1>2. \A t \in Thread : /\ Sharing(t)' = Sharing(t)
                        /\ Sharing(t) => split'[t] = split[t]
  BY DEF Start, Sharing, SplitOK
<1>3. /\ txnum' = txnum /\ rxnum' = rxnum /\ rate' = rate /\ weight' = weight
      /\ budget' = budget /\ rxbudget' = rxbudget
  BY DEF budgetVars
<1>4. ASSUME NEW t \in Thread, Sharing(t)' PROVE Progress(t)'
  <2>1. Sharing(t) /\ split'[t] = split[t]
    BY <1>2, <1>4
  <2>2. Progress(t)
    BY <1>1, <2>1
  <2>3. Shared(t)' = Shared(t)
    BY <2>1 DEF Shared
  <2>4. QED
    BY <1>3, <2>1, <2>2, <2>3 DEF Progress, Follows
<1>5. (\A t \in Thread : ~Sharing(t)') => AddedUp'
  <2>1. AddedUp' = AddedUp
    BY <1>3 DEF AddedUp, Follows, TxQueue
  <2>2. QED
    BY <1>1, <1>2, <2>1
<1>6. \A t, u \in Thread : Sharing(t)' /\ Sharing(u)' => t = u
  BY <1>1, <1>2
<1>7. QED
  BY <1>4, <1>5, <1>6 DEF Undisturbed, AddedUp

\* Any step of the loop over the channels of the one thread that is in it.
LEMMA OneThread ==
  ASSUME NEW t \in Thread, \A u \in Thread : Sharing(u)' => u = t,
         Sharing(t)' => Progress(t)', ~Sharing(t)' => AddedUp'
  PROVE  Undisturbed'
BY DEF Undisturbed, AddedUp

\* The loop begins.
LEMMA MeasureStep ==
  ASSUME SplitOK, ChanOK, NEW t \in Thread, Measure(t)
  PROVE  Undisturbed'
<1>1. /\ split'[t].pc = "share" /\ split'[t].q = 0 /\ split'[t].bigQ = 0
      /\ split'[t].left = NapiWeight
  BY MeasureOK
<1>2. /\ disturbed' = (Busy # {t}) /\ txnum' = txnum
      /\ \A u \in Thread : u # t => split'[u] = split[u]
  BY DEF Measure, SplitOK, chanVars
<1>3. CASE Busy # {t}
  BY <1>2, <1>3 DEF Undisturbed
<1>4. CASE Busy = {t}
  <2>1. \A u \in Thread : Sharing(u)' => u = t
    BY <1>2, <1>4 DEF Busy, Sharing
  <2>2. Total(budget', 0) = 0
    BY TotalDef
  <2>3. Shared(t)' = 0
    BY <1>1 DEF Shared
  <2>4. txnum' \in Nat /\ txnum' > 0
    BY <1>2, NumAssumption DEF ChanOK
  <2>5. Progress(t)'
    BY <1>1, <2>2, <2>3, <2>4 DEF Progress, NapiWeight
  <2>6. Sharing(t)'
    BY <1>1 DEF Sharing
  <2>7. QED
    BY <2>1, <2>5, <2>6, OneThread
<1>5. QED
  BY <1>3, <1>4

\* A budget is set, and what is left shrinks by as much.
LEMMA ShareStep ==
  ASSUME SplitOK, ChanOK, Undisturbed, NEW t \in Thread, Share(t)
  PROVE  Undisturbed'
<1> DEFINE q == split[t].q
<1>1. /\ q \in TxQueue /\ q \in Queue /\ split[t].pc = "share"
      /\ split'[t].pc = "weigh" /\ split'[t].q = q
      /\ split'[t].bigQ \in {q, split[t].bigQ}
      /\ (split'[t].w > 0) = (rate[q] > 0)
  BY ShareOK DEF Share
<1>2. PICK b \in Int : budget' = [budget EXCEPT ![q] = b] /\ split'[t].left = split[t].left - b
  BY ShareOK
<1>3. /\ txnum' = txnum /\ rate' = rate /\ weight' = weight /\ disturbed' = disturbed
      /\ \A u \in Thread : u # t => split'[u] = split[u]
  BY DEF Share, SplitOK, chanVars
<1> HIDE DEF q
<1> SUFFICES ASSUME ~disturbed PROVE Undisturbed'
  BY <1>3 DEF Undisturbed
<1>4. Progress(t) /\ \A u \in Thread : Sharing(u) => u = t
  BY <1>1 DEF Undisturbed, Sharing
<1>5. \A u \in Thread : Sharing(u)' => u = t
  BY <1>3, <1>4 DEF Sharing
<1>6. txnum \in Nat /\ q \in Nat /\ q < txnum
  BY <1>1, NumAssumption DEF ChanOK, TxQueue
<1>7. Shared(t) = q /\ Shared(t)' = q + 1
  BY <1>1 DEF Shared, q
<1>8. Total(budget', q + 1) = Total(budget, q) + b
  <2>1. Total(budget', q + 1) = Total(budget', q) + budget'[q]
    BY <1>6, TotalDef
  <2>2. budget'[q] = b /\ \A k \in 0..(q - 1) : budget'[k] = budget[k]
    BY <1>1, <1>2, <1>6, NumAssumption DEF SplitOK, Queue
  <2>3. Total(budget', q) = Total(budget, q)
    BY <1>6, <2>2, TotalSame
  <2>4. QED
    BY <2>1, <2>2, <2>3
<1>9. Total(budget, q) \in Int
  <2>1. \A k \in 0..(q - 1) : budget[k] \in Int
    <3>1. 0..(q - 1) \subseteq Queue
      BY <1>1, <1>6, NumAssumption DEF Queue
    <3>2. QED
      BY <3>1 DEF SplitOK
  <2>2. QED
    BY <1>6, <2>1, TotalType
<1>10. Progress(t)'
  <2>1. Shared(t)' <= txnum' /\ split'[t].bigQ < txnum'
    BY <1>1, <1>3, <1>4, <1>6, <1>7 DEF Progress
  <2>2. split'[t].left = NapiWeight - Total(budget', Shared(t)')
    BY <1>2, <1>4, <1>7, <1>8, <1>9 DEF Progress, NapiWeight
  <2>3. \A p \in 0..(split'[t].q - 1) : Follows(p)'
    BY <1>1, <1>3, <1>4 DEF Progress, Follows, q
  <2>4. QED
    BY <1>1, <1>3, <2>1, <2>2, <2>3 DEF Progress
<1>11. Sharing(t)'
  BY <1>1 DEF Sharing
<1>12. QED
  BY <1>5, <1>10, <1>11, OneThread

\* A weight is set, and follows the rate.
LEMMA WeighStep ==
  ASSUME SplitOK, ChanOK, Undisturbed, NEW t \in Thread, Weigh(t)
  PROVE  Undisturbed'
<1> DEFINE q == split[t].q
<1>1. /\ split[t].pc = "weigh" /\ q \in Nat
      /\ split'[t].pc = "share" /\ split'[t].q = q + 1
      /\ split'[t].bigQ = split[t].bigQ /\ split'[t].left = split[t].left
      /\ weight' = IF q < txnum THEN [weight EXCEPT ![q] = split[t].w] ELSE weight
  BY WeighOK
<1>2. /\ txnum' = txnum /\ rate' = rate /\ budget' = budget /\ disturbed' = disturbed
      /\ \A u \in Thread : u # t => split'[u] = split[u]
  BY DEF Weigh, SplitOK, budgetVars
<1> HIDE DEF q
<1> SUFFICES ASSUME ~disturbed PROVE Undisturbed'
  BY <1>2 DEF Undisturbed
<1>3. Progress(t) /\ \A u \in Thread : Sharing(u) => u = t
  BY <1>1 DEF Undisturbed, Sharing
<1>4. \A u \in Thread : Sharing(u)' => u = t
  BY <1>2, <1>3 DEF Sharing
<1>5. Shared(t) = q + 1 /\ Shared(t)' = q + 1
  BY <1>1 DEF Shared, q
<1>6. txnum \in Nat /\ q < txnum /\ q \in Queue /\ Queue \subseteq Nat /\ 0..(q - 1) \subseteq Queue
  BY <1>1, <1>3, <1>5, NumAssumption DEF Progress, ChanOK, Queue
<1>7. ASSUME NEW p \in 0..q PROVE Follows(p)'
  <2>1. CASE p = q
    <3>1. (split[t].w > 0) = (rate[q] > 0)
      BY <1>1, <1>3 DEF Progress, q
    <3>2. weight'[q] = split[t].w
      BY <1>1, <1>6 DEF SplitOK
    <3>3. QED
      BY <1>2, <2>1, <3>1, <3>2 DEF Follows
  <2>2. CASE p # q
    <3>1. p \in 0..(q - 1) /\ p \in Queue
      BY <1>6, <2>2
    <3>2. Follows(p)
      BY <1>3, <3>1 DEF Progress, q
    <3>3. weight'[p] = weight[p]
      BY <1>1, <2>2, <3>1 DEF SplitOK
    <3>4. QED
      BY <1>2, <3>2, <3>3 DEF Follows
  <2>3. QED
    BY <2>1, <2>2
<1>8. Progress(t)'
  <2>1. \A p \in 0..(split'[t].q - 1) : Follows(p)'
    BY <1>1, <1>6, <1>7
  <2>2. Shared(t)' <= txnum' /\ split'[t].bigQ < txnum'
    BY <1>1, <1>2, <1>3, <1>5, <1>6 DEF Progress
  <2>3. split'[t].left = NapiWeight - Total(budget', Shared(t)')
    BY <1>1, <1>2, <1>3, <1>5 DEF Progress
  <2>4. QED
    BY <1>1, <2>1, <2>2, <2>3 DEF Progress
<1>9. Sharing(t)'
  BY <1>1 DEF Sharing
<1>10. QED
  BY <1>4, <1>8, <1>9, OneThread

\* The loop ends, and the largest queue gets what is left.
LEMMA RestStep ==
  ASSUME SplitOK, ChanOK, PoolOK, Undisturbed, NEW t \in Thread, Rest(t)
  PROVE  Undisturbed'
<1> DEFINE q == split[t].bigQ
           left == split[t].left
<1>1. /\ rxnum \in 1..MaxQueues
      /\ split[t].pc = "share" /\ split[t].q >= txnum /\ split'[t].pc = "idle"
      /\ budget' = [budget EXCEPT ![q] = @ + left]
      /\ q \in Queue /\ left \in Int /\ rxbudget' = RxBudgets
  BY RestOK DEF PoolOK
<1>2. /\ txnum' = txnum /\ rxnum' = rxnum /\ rate' = rate /\ weight' = weight
      /\ disturbed' = disturbed /\ \A u \in Thread : u # t => split'[u] = split[u]
  BY DEF Rest, SplitOK, chanVars
<1>3. split[t].q \in Nat
  BY <1>1, SplitKinds DEF Sharing
<1> HIDE DEF q, left
<1> SUFFICES ASSUME ~disturbed PROVE Undisturbed'
  BY <1>2 DEF Undisturbed
<1>4. Progress(t) /\ \A u \in Thread : Sharing(u) => u = t
  BY <1>1 DEF Undisturbed, Sharing
<1>5. \A u \in Thread : Sharing(u)' => u = t
  BY <1>2, <1>4 DEF Sharing
<1>6. txnum \in Nat /\ split[t].q = txnum /\ Shared(t) = txnum
  BY <1>1, <1>3, <1>4, NumAssumption DEF Progress, Shared, ChanOK
<1>7. q \in 0..(txnum - 1) /\ left = NapiWeight - Total(budget, txnum)
  BY <1>1, <1>4, <1>6 DEF Progress, q, left, Queue
<1>8. 0..(txnum - 1) \subseteq Queue
  BY NumAssumption DEF ChanOK, Queue
<1>9. \A k \in 0..(txnum - 1) : budget[k] \in Int /\ budget'[k] \in Int
  BY <1>1, <1>8 DEF SplitOK
<1>10. Total(budget, txnum) \in Int
  BY <1>6, <1>9, TotalType
<1>11. Total(budget', txnum) = Total(budget, txnum) + (budget'[q] - budget[q])
  <2>1. \A k \in 0..(txnum - 1) : k # q => budget'[k] = budget[k]
    BY <1>1, <1>8 DEF SplitOK
  <2>2. QED
    BY <1>6, <1>7, <1>9, <2>1, TotalChanged
<1>12. budget'[q] - budget[q] = left
  <2>1. budget'[q] = budget[q] + left /\ budget[q] \in Int
    BY <1>1 DEF SplitOK
  <2>2. QED
    BY <1>1, <2>1
<1>13. Total(budget', txnum') = NapiWeight
  BY <1>2, <1>7, <1>10, <1>11, <1>12 DEF NapiWeight
<1>14. Total(rxbudget', rxnum') = NapiWeight
  BY <1>1, <1>2, RxBudgetsTotal
<1>15. \A p \in TxQueue' : Follows(p)'
  BY <1>2, <1>4, <1>6 DEF Progress, Follows, TxQueue
<1>16. AddedUp'
  BY <1>13, <1>14, <1>15 DEF AddedUp
<1>17. ~Sharing(t)'
  BY <1>1 DEF Sharing
<1>18. QED
  BY <1>5, <1>16, <1>17, OneThread

\* The first channels have the whole budget.
LEMMA UndisturbedInit == Init => Undisturbed
<1> SUFFICES ASSUME Init PROVE AddedUp /\ \A t \in Thread : ~Sharing(t)
  BY DEF Undisturbed, AddedUp
<1>1. \A t \in Thread : ~Sharing(t)
  BY DEF Init, Sharing
<1>2. /\ txnum = 1 /\ rxnum = 1 /\ rate = Zero /\ weight = Zero /\ 0 \in Queue /\ rxbudget = budget
      /\ budget = [q \in Queue |-> IF q = 0 THEN NapiWeight ELSE 0]
  BY NumAssumption DEF Init, Queue
<1>3. Total(budget, 1) = NapiWeight
  <2>1. \A k \in 0..(1 - 1) : budget[k] = NapiWeight
    BY <1>2
  <2>2. Total(budget, 1) = 1 * NapiWeight
    BY <2>1, TotalConst DEF NapiWeight
  <2>3. QED
    BY <2>2 DEF NapiWeight
<1>4. \A q \in TxQueue : Follows(q)
  BY <1>2, NumAssumption DEF TxQueue, Follows, Zero, Queue
<1>5. QED
  BY <1>1, <1>2, <1>3, <1>4 DEF AddedUp

\* Every step keeps the promise.
LEMMA UndisturbedStep ==
  ASSUME SplitOK, RtnlIdle, ChanOK, PoolOK, Undisturbed, [Next]_vars
  PROVE  Undisturbed'
<1> USE DEF chanVars, RtnlFree
<1>1. 0 \in Thread /\ \A n \in Port : n \in Thread
  BY NumAssumption DEF Thread, Port
<1>2. ASSUME NEW t \in Thread, SplitRes(t) PROVE Undisturbed'
  BY <1>2, MeasureStep, ShareStep, WeighStep, RestStep DEF SplitRes
<1>3. ASSUME UNCHANGED <<txnum, rxnum, rate, weight, budgetVars>>, disturbed' = disturbed,
             UNCHANGED split \/ (split[0].pc = "idle" /\ Start(0))
      PROVE  Undisturbed'
  BY <1>1, <1>3, Aside
<1>4. ASSUME disturbed' PROVE Undisturbed'
  BY <1>4 DEF Undisturbed
<1>5. ASSUME NEW n \in Port, NEW q \in Queue, NEW r \in Rates \cup {0}, SetMaxrate(n, q, r)
      PROVE  Undisturbed'
  BY <1>4, <1>5 DEF SetMaxrate
<1>6. ASSUME NEW tx \in 1..MaxQueues, NEW rx \in 1..MaxQueues, SetChannels(tx, rx)
      PROVE  Undisturbed'
  BY <1>3, <1>6 DEF SetChannels
<1>7. ASSUME NEW n \in Port, ChangeRx(n) \/ ChangeTx(n) \/ ChannelsFail(n) PROVE Undisturbed'
  BY <1>4, <1>7 DEF ChangeRx, ChangeTx, ChannelsFail
<1>8. CASE ChannelsSet
  BY <1>3, <1>8 DEF ChannelsSet, RtnlIdle
<1>9. CASE Resume \/ RingFails
  BY <1>3, <1>9 DEF Resume, RingFails
<1>10. ASSUME NEW k \in Rings, SetRing(k) PROVE Undisturbed'
  BY <1>3, <1>10 DEF SetRing
<1>11. ASSUME NEW n \in Port, Open(n) \/ Close(n) PROVE Undisturbed'
  BY <1>3, <1>11 DEF Open, Close
<1>12. ASSUME NEW n \in Port, NdoStop(n) PROVE Undisturbed'
  BY <1>3, <1>12 DEF NdoStop, Resplit
<1>13. ASSUME NEW n \in Port, NEW s \in LinkSpeeds \cup {0}, AdjustLink(n, s) PROVE Undisturbed'
  BY <1>1, <1>13, Aside DEF AdjustLink, Resplit
<1>14. CASE UNCHANGED vars
  BY <1>3, <1>14 DEF vars
<1>15. QED
  BY <1>2, <1>5, <1>6, <1>7, <1>8, <1>9, <1>10, <1>11, <1>12, <1>13, <1>14 DEF Next

\* The inductive invariant.
SharesInv == ShaperInv /\ SplitOK /\ RtnlIdle /\ PoolOK /\ PoolShared /\ Undisturbed

\* It holds at first.
LEMMA SharesInit == Init => SharesInv
<1>1. Init => RtnlIdle
  BY DEF Init, RtnlIdle
<1>2. QED
  BY <1>1, ShaperInit, SplitInit, PoolInit, UndisturbedInit DEF SharesInv

\* Every step keeps it.
LEMMA SharesStep == SharesInv /\ [Next]_vars => SharesInv'
<1> SUFFICES ASSUME SharesInv, [Next]_vars PROVE SharesInv'
  OBVIOUS
<1>1. /\ ShaperInv /\ SplitOK /\ RtnlIdle /\ PoolOK /\ PoolShared /\ Undisturbed /\ ChanOK
  BY DEF SharesInv, ShaperInv
<1>2. ShaperInv' /\ ChanOK'
  BY <1>1, ShaperStep DEF ShaperInv
<1>3. SplitOK' /\ RtnlIdle'
  BY <1>1, SplitStep, RtnlStep
<1>4. PoolOK' /\ PoolShared'
  BY <1>1, <1>2, <1>3, PoolStep
<1>5. Undisturbed'
  BY <1>1, UndisturbedStep
<1>6. QED
  BY <1>2, <1>3, <1>4, <1>5 DEF SharesInv

\* Whatever rates, channels and rings are asked for, and however the splits of the
\* threads interleave, the channels never promise more descriptors than the pool has,
\* and share out all of them when their weights can be honoured (or none, when each
\* share rounds to nothing).
THEOREM PoolStaysShared == Spec => []PoolShared
<1>1. SharesInv => PoolShared
  BY DEF SharesInv
<1>2. QED
  BY <1>1, SharesInit, SharesStep, PTL DEF Spec

\* When nothing has interfered with the last cpsw_split_res, the budgets of the
\* transmit and of the receive channels add up to the NAPI weight, and the channels
\* that have a weight are those that have a rate.
THEOREM BudgetsAlwaysAddUp == Spec => []BudgetsAddUp
<1>1. SharesInv => BudgetsAddUp
  <2>1. Busy = {} => \A t \in Thread : ~Sharing(t)
    BY DEF Busy, Sharing
  <2>2. QED
    BY <2>1 DEF SharesInv, Undisturbed, BudgetsAddUp, Follows
<1>2. QED
  BY <1>1, SharesInit, SharesStep, PTL DEF Spec
=============================================================================
