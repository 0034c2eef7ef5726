--------------------------- MODULE XSharedProofs ----------------------------
(***************************************************************************)
(* TLAPS proofs about XShared, for any keys, shards, hashes, sizes and     *)
(* budgets.                                                                *)
(***************************************************************************)
EXTENDS XShared, FiniteSetTheorems, SequenceTheorems, WellFoundedInduction, TLAPS

\* A non-empty set of natural numbers has a least element.
LEMMA LeastNat ==
  ASSUME NEW S \in SUBSET Nat, S # {}
  PROVE  \E n \in S : \A m \in S : n <= m
<1>1. PICK n \in S : \A m \in S : ~(<<m, n>> \in OpToRel(<, Nat))
  BY NatLessThanWellFounded, WFMin
<1>2. \A m \in S : ~(m < n)
  BY <1>1 DEF OpToRel
<1> QED
  BY <1>2
-----------------------------------------------------------------------------
(* Buckets.                                                                 *)

\* A remainder is unique.
LEMMA RemainderUnique ==
  ASSUME NEW n \in Nat \ {0}, NEW x \in Int, NEW y \in Int, NEW r \in 0..(n-1), NEW t \in 0..(n-1), n * x + r = n * y + t
  PROVE  r = t
<1>1. CASE x = y
  BY <1>1
<1>2. CASE x > y
  <2>1. n * (x - y) >= n
    <3> DEFINE d == x - y
    <3>1. d \in Nat /\ d >= 1
      BY <1>2
    <3> HIDE DEF d
    <3>2. n * d >= n
      BY <3>1
    <3> QED
      BY <3>2 DEF d
  <2>2. n * (x - y) = n * x - n * y
    OBVIOUS
  <2> QED
    BY <2>1, <2>2
<1>3. CASE x < y
  <2>1. n * (y - x) >= n
    <3> DEFINE d == y - x
    <3>1. d \in Nat /\ d >= 1
      BY <1>3
    <3> HIDE DEF d
    <3>2. n * d >= n
      BY <3>1
    <3> QED
      BY <3>2 DEF d
  <2>2. n * (y - x) = n * y - n * x
    OBVIOUS
  <2> QED
    BY <2>1, <2>2
<1> QED
  BY <1>1, <1>2, <1>3

LEMMA DivMod ==
  ASSUME NEW n \in Nat \ {0}, NEW a \in Nat
  PROVE  a % n \in 0..(n-1) /\ a \div n \in Int /\ a = n * (a \div n) + (a % n)
  OBVIOUS

\* When the number of buckets doubles, a chain is split between its old bucket
\* and the one as far up again.
LEMMA Half ==
  ASSUME NEW n \in Nat \ {0}, NEW h \in Nat
  PROVE  (h % (2 * n)) % n = h % n
<1> DEFINE b == h % (2 * n)
           q == h \div (2 * n)
<1>1. b \in 0..(2 * n - 1) /\ q \in Int /\ h = (2 * n) * q + b
  BY DivMod, 2 * n \in Nat \ {0}
<1>2. h % n \in 0..(n-1) /\ h \div n \in Int /\ h = n * (h \div n) + (h % n)
  BY DivMod
<1>3. b % n \in 0..(n-1) /\ b \div n \in Int /\ b = n * (b \div n) + (b % n)
  <2>1. b \in Nat
    BY <1>1
  <2> HIDE DEF b
  <2> QED
    BY <2>1, DivMod
<1> HIDE DEF b, q
<1>4. (2 * n) * q = n * (2 * q)
  BY <1>1
<1> DEFINE c == b \div n
           m == b % n
           x == 2 * q + c
<1>5. n * x = n * (2 * q) + n * c
  <2>1. \A u, v \in Int : n * (u + v) = n * u + n * v
    OBVIOUS
  <2>2. c \in Int /\ 2 * q \in Int
    BY <1>1, <1>3
  <2> HIDE DEF c
  <2> QED
    BY <2>1, <2>2
<1>6. h = n * x + m
  <2> HIDE DEF x
  <2>1. n * x \in Int /\ n * (2 * q) \in Int /\ n * c \in Int
     BY <1>1, <1>3 DEF x
  <2> HIDE DEF c, m
  <2> QED
    BY <1>1, <1>3, <1>4, <1>5, <2>1 DEF c, m
<1>7. x \in Int
  BY <1>1, <1>3
<1> HIDE DEF x, m
<1> QED
  BY <1>2, <1>3, <1>6, <1>7, RemainderUnique DEF m, b
-----------------------------------------------------------------------------
(* Lists.                                                                   *)

\* A reversed list has the same keys.
LEMMA ReverseFacts ==
  ASSUME NEW S, NEW s \in Seq(S)
  PROVE  /\ Reverse(s) \in Seq(S) /\ Len(Reverse(s)) = Len(s) /\ DOMAIN Reverse(s) = 1..Len(s)
         /\ \A i \in 1..Len(s) : Reverse(s)[i] = s[Len(s) - i + 1] /\ Len(s) - i + 1 \in 1..Len(s)
         /\ Range(Reverse(s)) = Range(s)
         /\ IsInjective(s) => IsInjective(Reverse(s))
<1> DEFINE L == Len(s)
           r == Reverse(s)
<1>1. L \in Nat /\ s \in [1..L -> S] /\ DOMAIN s = 1..L
  OBVIOUS
<1>2. \A i \in 1..L : L - i + 1 \in 1..L
  BY <1>1
<1>3. r = [i \in 1..L |-> s[L - i + 1]]
  BY DEF Reverse
<1>4. r \in [1..L -> S] /\ DOMAIN r = 1..L
  BY <1>1, <1>2, <1>3
<1>5. r \in Seq(S) /\ Len(r) = L
  BY <1>1, <1>4
<1>6. \A i \in 1..L : r[i] = s[L - i + 1]
  BY <1>3
<1>7. Range(r) = Range(s)
  <2>1. \A i \in 1..L : r[L - i + 1] = s[i]
    BY <1>1, <1>2, <1>6
  <2> HIDE DEF r, L
  <2> QED
    BY <1>1, <1>2, <1>4, <1>6, <2>1 DEF Range
<1>8. ASSUME IsInjective(s) PROVE IsInjective(r)
  <2> SUFFICES ASSUME NEW i \in 1..L, NEW j \in 1..L, r[i] = r[j] PROVE i = j
    BY <1>4 DEF IsInjective
  <2>1. L - i + 1 = L - j + 1
    BY <1>1, <1>2, <1>6, <1>8 DEF IsInjective
  <2> QED
    BY <1>1, <2>1
<1> QED
  BY <1>2, <1>4, <1>5, <1>6, <1>7, <1>8

\* n steps on the values in V, and what they make of v one after the other.
Steps(n, V) == [1..n -> [V -> V]]

Iterates(n, V, v, step, g) ==
  g \in [0..n -> V] /\ g[0] = v /\ \A i \in 1..n : g[i] = step[i][g[i - 1]]

\* Steps lead somewhere.
LEMMA Iteration ==
  ASSUME NEW n \in Nat, NEW V, NEW v \in V, NEW step \in Steps(n, V)
  PROVE  \E g : Iterates(n, V, v, step, g)
<1> SUFFICES \E g \in [0..n -> V] : g[0] = v /\ \A i \in 1..n : g[i] = step[i][g[i - 1]]
  BY DEF Iterates
<1> USE DEF Steps
<1> DEFINE Runs(m, g) == g[0] = v /\ \A i \in 1..m : g[i] = step[i][g[i - 1]]
           Bad == {m \in 0..n : \A g \in [0..m -> V] : ~Runs(m, g)}
<1>1. CASE Bad = {}
  <2>1. n \in 0..n
    OBVIOUS
  <2>2. n \notin Bad
    BY <1>1
  <2>3. \E g \in [0..n -> V] : Runs(n, g)
    <3> HIDE DEF Runs
    <3> QED
      BY <2>1, <2>2
  <2> QED
    BY <2>3
<1>2. CASE Bad # {}
  <2>1. Bad \in SUBSET Nat
    OBVIOUS
  <2>2. PICK m \in Bad : \A x \in Bad : m <= x
    <3> HIDE DEF Bad
    <3> QED
      BY <1>2, <2>1, LeastNat
  <2>3. m \in 0..n /\ \A g \in [0..m -> V] : ~Runs(m, g)
    OBVIOUS
  <2>4. CASE m = 0
    <3> DEFINE g == [i \in 0..0 |-> v]
    <3>1. g \in [0..m -> V] /\ Runs(m, g)
      BY <2>4
    <3> QED
      BY <2>3, <3>1
  <2>5. CASE m # 0
    <3>1. m - 1 \in 0..n /\ m - 1 \notin Bad /\ m \in 1..n
      <4>1. m - 1 \in 0..n /\ m \in 1..n /\ ~(m <= m - 1)
        BY <2>3, <2>5
      <4> HIDE DEF Bad
      <4> QED
        BY <2>2, <4>1
    <3>2. PICK h \in [0..(m - 1) -> V] : Runs(m - 1, h)
      BY <3>1
    <3> DEFINE g == [i \in 0..m |-> IF i = m THEN step[m][h[m - 1]] ELSE h[i]]
    <3>3. \A i \in 0..(m - 1) : g[i] = h[i]
      BY <3>1
    <3>4. m - 1 \in 0..(m - 1) /\ h[m - 1] \in V /\ step[m] \in [V -> V]
      BY <3>1
    <3>5. step[m][h[m - 1]] \in V
      BY <3>4
    <3>6. g \in [0..m -> V]
      BY <3>1, <3>5
    <3>7. g[m] = step[m][g[m - 1]] /\ g[0] = v
      BY <2>5, <3>1, <3>2, <3>3, <3>4
    <3>8. \A i \in 1..(m - 1) : g[i] = step[i][g[i - 1]]
      <4> SUFFICES ASSUME NEW i \in 1..(m - 1) PROVE g[i] = step[i][g[i - 1]]
        OBVIOUS
      <4>1. i \in 0..(m - 1) /\ i - 1 \in 0..(m - 1) /\ h[i] = step[i][h[i - 1]]
        BY <3>1, <3>2
      <4> HIDE DEF g
      <4> QED
        BY <3>3, <4>1
    <3>9. Runs(m, g)
      <4> SUFFICES ASSUME NEW i \in 1..m PROVE g[i] = step[i][g[i - 1]]
        BY <3>7
      <4> HIDE DEF g
      <4>1. i = m \/ i \in 1..(m - 1)
        BY <3>1
      <4> QED
        BY <3>7, <3>8, <4>1
    <3> HIDE DEF g, Runs
    <3> QED
      BY <2>3, <3>6, <3>9
  <2> QED
    BY <2>4, <2>5
<1> QED
  BY <1>1, <1>2

\* Unlinking the keys of K leaves the others, in the list once if they were.
LEMMA WithoutFacts ==
  ASSUME NEW q \in Seq(Keys), NEW K
  PROVE  /\ Without(q, K) \in Seq(Keys)
         /\ Range(Without(q, K)) = Range(q) \ K
         /\ IsInjective(q) => IsInjective(Without(q, K))
<1> DEFINE L == Len(q)
           Step(g) == [i \in 0..L |-> IF i = 0 THEN <<>> ELSE IF q[i] \in K THEN g[i - 1]
                                                          ELSE Append(g[i - 1], q[i])]
           kept == CHOOSE g : g = Step(g)
<1>1. L \in Nat /\ q \in [1..L -> Keys] /\ DOMAIN q = 1..L
  OBVIOUS
<1>2. \E g : g = Step(g)
  <2> DEFINE V == Seq(Keys)
             step == [i \in 1..L |-> [s \in V |-> IF q[i] \in K THEN s ELSE Append(s, q[i])]]
  <2>1. step \in [1..L -> [V -> V]]
    BY <1>1
  <2>2. <<>> \in V
    OBVIOUS
  <2>3. PICK g \in [0..L -> V] : g[0] = <<>> /\ \A i \in 1..L : g[i] = step[i][g[i - 1]]
    <3> HIDE DEF step, V, L
    <3>1. L \in Nat /\ step \in Steps(L, V)
      BY <1>1, <2>1 DEF Steps
    <3>2. \E g : Iterates(L, V, <<>>, step, g)
      BY <2>2, <3>1, Iteration
    <3> QED
      BY <3>2 DEF Iterates
  <2>4. \A i \in 1..L : g[i] = IF q[i] \in K THEN g[i - 1] ELSE Append(g[i - 1], q[i])
    <3> SUFFICES ASSUME NEW i \in 1..L
                 PROVE  g[i] = IF q[i] \in K THEN g[i - 1] ELSE Append(g[i - 1], q[i])
      OBVIOUS
    <3>1. i - 1 \in 0..L
      BY <1>1
    <3>2. g[i - 1] \in V
      BY <3>1
    <3>3. step[i] = [s \in V |-> IF q[i] \in K THEN s ELSE Append(s, q[i])]
      OBVIOUS
    <3>4. g[i] = step[i][g[i - 1]]
      BY <2>3
    <3> HIDE DEF step, V
    <3> QED
      BY <3>2, <3>3, <3>4
  <2>5. g = Step(g)
    <3> HIDE DEF step, V
    <3>1. \A i \in 0..L : i # 0 => i \in 1..L
      BY <1>1
    <3>2. \A i \in 0..L : g[i] = Step(g)[i]
      BY <2>3, <2>4, <3>1
    <3>3. g = [i \in 0..L |-> g[i]]
      BY <2>3
    <3> DEFINE h == Step(g)
    <3>4. h = [i \in 0..L |-> h[i]]
      OBVIOUS
    <3>5. \A i \in 0..L : g[i] = h[i]
      BY <3>2
    <3> HIDE DEF h, Step
    <3>6. g = h
      BY <3>3, <3>4, <3>5
    <3> QED
      BY <3>6 DEF h
  <2> QED
    BY <2>5
<1>3. kept = Step(kept)
  <2> HIDE DEF Step
  <2> QED
    BY <1>2
<1>4. Without(q, K) = kept[L]
  BY DEF Without
<1> HIDE DEF kept, L
<1> DEFINE Some(i) == {q[j] : j \in 1..i} \ K
           Fine(i) == /\ kept[i] \in Seq(Keys) /\ Range(kept[i]) = Some(i)
                      /\ IsInjective(q) => IsInjective(kept[i])
           Bad == {i \in 0..L : ~Fine(i)}
<1>5. Bad = {}
  <2> SUFFICES ASSUME Bad # {} PROVE FALSE
    OBVIOUS
  <2>1. Bad \in SUBSET Nat
    BY <1>1
  <2>2. PICK i \in Bad : \A x \in Bad : i <= x
    <3> HIDE DEF Bad
    <3> QED
      BY <2>1, LeastNat
  <2>3. i \in 0..L /\ ~Fine(i)
    BY <2>2
  <2>4. CASE i = 0
    <3>1. kept[0] = <<>>
      BY <1>3, <2>3, <2>4
    <3>2. <<>> \in Seq(Keys) /\ Range(<<>>) = {} /\ IsInjective(<<>>)
      BY DEF Range, IsInjective
    <3>3. Some(0) = {}
      OBVIOUS
    <3> QED
      BY <2>3, <2>4, <3>1, <3>2, <3>3
  <2>5. CASE i # 0
    <3>1. i - 1 \in 0..L /\ i \in 1..L /\ q[i] \in Keys
      BY <1>1, <2>3, <2>5
    <3>2. Fine(i - 1)
      <4>1. ~(i <= i - 1)
        BY <2>3, <3>1
      <4>2. i - 1 \notin Bad
        <5> HIDE DEF Bad
        <5> QED
          BY <2>2, <4>1
      <4> HIDE DEF Fine
      <4> QED
        BY <3>1, <4>2
    <3> DEFINE s == kept[i - 1]
    <3>3. s \in Seq(Keys) /\ Range(s) = Some(i - 1) /\ (IsInjective(q) => IsInjective(s))
      BY <3>2
    <3>4. kept[i] = IF q[i] \in K THEN s ELSE Append(s, q[i])
      BY <1>3, <2>3, <2>5
    <3>5. Some(i) = Some(i - 1) \cup ({q[i]} \ K)
      BY <1>1, <3>1
    <3> HIDE DEF Some, s
    <3>6. CASE q[i] \in K
      BY <2>3, <3>3, <3>4, <3>5, <3>6
    <3>7. CASE q[i] \notin K
      <4>1. Append(s, q[i]) \in Seq(Keys)
        BY <3>1, <3>3
      <4>2. /\ Len(s) \in Nat /\ DOMAIN s = 1..Len(s) /\ DOMAIN Append(s, q[i]) = 1..(Len(s) + 1)
            /\ \A j \in 1..Len(s) : Append(s, q[i])[j] = s[j]
            /\ Append(s, q[i])[Len(s) + 1] = q[i]
        BY <3>1, <3>3
      <4>3. Range(Append(s, q[i])) = Range(s) \cup {q[i]}
        BY <4>2 DEF Range
      <4>4. ASSUME IsInjective(q) PROVE IsInjective(Append(s, q[i]))
        <5>1. q[i] \notin Range(s)
          BY <1>1, <3>1, <3>3, <4>4 DEF Some, IsInjective
        <5>2. \A j \in 1..Len(s) : s[j] # q[i]
          BY <4>2, <5>1 DEF Range
        <5>3. IsInjective(s)
          BY <3>3, <4>4
        <5> SUFFICES ASSUME NEW a \in 1..(Len(s) + 1), NEW b \in 1..(Len(s) + 1),
                            Append(s, q[i])[a] = Append(s, q[i])[b]
                     PROVE  a = b
          BY <4>2 DEF IsInjective
        <5>4. (a \in 1..Len(s) \/ a = Len(s) + 1) /\ (b \in 1..Len(s) \/ b = Len(s) + 1)
          BY <4>2
        <5> QED
          BY <4>2, <5>2, <5>3, <5>4 DEF IsInjective
      <4> QED
        BY <2>3, <3>3, <3>4, <3>5, <3>7, <4>1, <4>3, <4>4
    <3> QED
      BY <3>6, <3>7
  <2> QED
    BY <2>4, <2>5
<1>6. Fine(L)
  <2>1. L \in 0..L
    BY <1>1
  <2> HIDE DEF Fine
  <2> QED
    BY <1>5, <2>1
<1>7. Some(L) = Range(q) \ K
  BY <1>1 DEF Range
<1> QED
  BY <1>4, <1>6, <1>7

\* Two lists in a row hold the keys of both.
LEMMA ConcatKeys ==
  ASSUME NEW x \in Seq(Keys), NEW y \in Seq(Keys)
  PROVE  /\ x \o y \in Seq(Keys)
         /\ Range(x \o y) = Range(x) \cup Range(y)
<1>1. /\ x \o y \in Seq(Keys) /\ Len(x) \in Nat /\ Len(y) \in Nat
      /\ DOMAIN x = 1..Len(x) /\ DOMAIN y = 1..Len(y) /\ DOMAIN (x \o y) = 1..(Len(x) + Len(y))
      /\ \A i \in 1..(Len(x) + Len(y)) : (x \o y)[i] = IF i <= Len(x) THEN x[i] ELSE y[i - Len(x)]
  OBVIOUS
<1>2. ASSUME NEW k \in Range(x \o y) PROVE k \in Range(x) \cup Range(y)
  <2>1. PICK i \in 1..(Len(x) + Len(y)) : k = (x \o y)[i]
    BY <1>1 DEF Range
  <2>2. i <= Len(x) => i \in 1..Len(x)
    BY <1>1
  <2>3. ~(i <= Len(x)) => i - Len(x) \in 1..Len(y)
    BY <1>1
  <2> QED
    BY <1>1, <2>1, <2>2, <2>3 DEF Range
<1>3. ASSUME NEW k \in Range(x) PROVE k \in Range(x \o y)
  <2>1. PICK i \in 1..Len(x) : k = x[i]
    BY <1>1 DEF Range
  <2>2. i \in 1..(Len(x) + Len(y)) /\ i <= Len(x)
    BY <1>1
  <2> QED
    BY <1>1, <2>1, <2>2 DEF Range
<1>4. ASSUME NEW k \in Range(y) PROVE k \in Range(x \o y)
  <2>1. PICK i \in 1..Len(y) : k = y[i]
    BY <1>1 DEF Range
  <2>2. i + Len(x) \in 1..(Len(x) + Len(y)) /\ ~(i + Len(x) <= Len(x)) /\ i + Len(x) - Len(x) = i
    BY <1>1
  <2>3. (x \o y)[i + Len(x)] = y[i]
    BY <1>1, <2>2
  <2> QED
    BY <1>1, <2>1, <2>2, <2>3 DEF Range
<1> QED
  BY <1>1, <1>2, <1>3, <1>4

\* What the sweep scans are keys of the shard's chains.
LEMMA ChainsFacts ==
  ASSUME NEW s, s.nbuckets \in Nat, NEW b \in 0..s.nbuckets,
         s.buckets \in [0..(s.nbuckets - 1) -> Seq(Keys)]
  PROVE  /\ Chains(s, b) \in Seq(Keys)
         /\ \A k \in Range(Chains(s, b)) : \E i \in 0..(s.nbuckets - 1) : k \in Range(s.buckets[i])
<1> DEFINE L == s.nbuckets - b
           B(n) == s.buckets[b + n - 1]
           Step(g) == [n \in 0..L |-> IF n = 0 THEN <<>> ELSE g[n - 1] \o s.buckets[b + n - 1]]
           first == CHOOSE g : g = Step(g)
<1>1. L \in Nat /\ \A n \in 1..L : b + n - 1 \in 0..(s.nbuckets - 1) /\ B(n) \in Seq(Keys)
  <2>1. L \in Nat /\ \A n \in 1..L : b + n - 1 \in 0..(s.nbuckets - 1)
    OBVIOUS
  <2> QED
    BY <2>1
<1>2. \E g : g = Step(g)
  <2> DEFINE V == Seq(Keys)
             step == [n \in 1..L |-> [x \in V |-> x \o B(n)]]
  <2>1. \A n \in 1..L : [x \in V |-> x \o B(n)] \in [V -> V]
    <3> SUFFICES ASSUME NEW n \in 1..L, NEW x \in V PROVE x \o B(n) \in V
      OBVIOUS
    <3>1. B(n) \in Seq(Keys)
      BY <1>1
    <3> HIDE DEF B
    <3> QED
      BY <3>1, ConcatKeys
  <2>2. <<>> \in V
    OBVIOUS
  <2>3. PICK g \in [0..L -> V] : g[0] = <<>> /\ \A n \in 1..L : g[n] = step[n][g[n - 1]]
    <3>1. step \in Steps(L, V)
      <4> HIDE DEF V, L, B
      <4> QED
        BY <2>1 DEF Steps
    <3> HIDE DEF step, V, L
    <3>2. \E g : Iterates(L, V, <<>>, step, g)
      BY <1>1, <2>2, <3>1, Iteration
    <3> QED
      BY <3>2 DEF Iterates
  <2>4. \A n \in 1..L : g[n] = g[n - 1] \o s.buckets[b + n - 1]
    <3> SUFFICES ASSUME NEW n \in 1..L
                 PROVE  g[n] = g[n - 1] \o s.buckets[b + n - 1]
      OBVIOUS
    <3>1. n - 1 \in 0..L
      BY <1>1
    <3>2. g[n - 1] \in V
      BY <3>1
    <3>3. step[n] = [x \in V |-> x \o s.buckets[b + n - 1]]
      OBVIOUS
    <3>4. g[n] = step[n][g[n - 1]]
      BY <2>3
    <3> HIDE DEF step, V
    <3> QED
      BY <3>2, <3>3, <3>4
  <2>5. g = Step(g)
    <3> HIDE DEF step, V, L
    <3>1. \A i \in 0..L : i # 0 => i \in 1..L
      BY <1>1
    <3>2. \A i \in 0..L : g[i] = Step(g)[i]
      BY <2>3, <2>4, <3>1
    <3>3. g = [i \in 0..L |-> g[i]]
      BY <2>3
    <3> DEFINE h == Step(g)
    <3>4. h = [i \in 0..L |-> h[i]]
      OBVIOUS
    <3>5. \A i \in 0..L : g[i] = h[i]
      BY <3>2
    <3> HIDE DEF h, Step
    <3>6. g = h
      BY <3>3, <3>4, <3>5
    <3> QED
      BY <3>6 DEF h
  <2> QED
    BY <2>5
<1>3. first = Step(first)
  <2> HIDE DEF Step
  <2> QED
    BY <1>2
<1>4. Chains(s, b) = first[L]
  BY DEF Chains
<1> HIDE DEF first, L, B
<1> DEFINE Mine(k) == \E i \in 0..(s.nbuckets - 1) : k \in Range(s.buckets[i])
           Fine(n) == first[n] \in Seq(Keys) /\ \A k \in Range(first[n]) : Mine(k)
           Bad == {n \in 0..L : ~Fine(n)}
<1>5. Bad = {}
  <2> SUFFICES ASSUME Bad # {} PROVE FALSE
    OBVIOUS
  <2>1. Bad \in SUBSET Nat
    BY <1>1
  <2>2. PICK n \in Bad : \A x \in Bad : n <= x
    <3> HIDE DEF Bad
    <3> QED
      BY <2>1, LeastNat
  <2>3. n \in 0..L /\ ~Fine(n)
    BY <2>2
  <2>4. CASE n = 0
    <3>1. first[0] = <<>>
      BY <1>3, <2>3, <2>4
    <3>2. <<>> \in Seq(Keys) /\ Range(<<>>) = {}
      BY DEF Range
    <3> QED
      BY <2>3, <2>4, <3>1, <3>2
  <2>5. CASE n # 0
    <3>1. n - 1 \in 0..L /\ n \in 1..L
      BY <1>1, <2>3, <2>5
    <3>2. Fine(n - 1)
      <4>1. ~(n <= n - 1)
        BY <2>3, <3>1
      <4>2. n - 1 \notin Bad
        <5> HIDE DEF Bad
        <5> QED
          BY <2>2, <4>1
      <4> HIDE DEF Fine
      <4> QED
        BY <3>1, <4>2
    <3> DEFINE x == first[n - 1]
               y == B(n)
    <3>3. x \in Seq(Keys) /\ \A k \in Range(x) : Mine(k)
      BY <3>2
    <3>4. y \in Seq(Keys) /\ \A k \in Range(y) : Mine(k)
      <4>1. b + n - 1 \in 0..(s.nbuckets - 1) /\ y \in Seq(Keys)
        BY <1>1, <3>1
      <4> QED
        BY <4>1 DEF B
    <3>5. first[n] = x \o y
      <4>1. Step(first)[n] = first[n - 1] \o s.buckets[b + n - 1]
        BY <2>3, <2>5
      <4> HIDE DEF Step
      <4> QED
        BY <1>3, <4>1 DEF B
    <3> HIDE DEF Mine, x, y
    <3>6. x \o y \in Seq(Keys) /\ Range(x \o y) = Range(x) \cup Range(y)
      BY <3>3, <3>4, ConcatKeys
    <3> QED
      BY <2>3, <3>3, <3>4, <3>5, <3>6
  <2> QED
    BY <2>4, <2>5
<1>6. Fine(L)
  <2>1. L \in 0..L
    BY <1>1
  <2> HIDE DEF Fine
  <2> QED
    BY <1>5, <2>1
<1> QED
  BY <1>4, <1>6
-----------------------------------------------------------------------------
(* Totals.                                                                  *)

Summed(f, K) == IsFiniteSet(K) /\ \A k \in K : f[k] \in Nat

Units(f, K) == UNION {{k} \X (1..f[k]) : k \in K}

LEMMA UnitsFinite ==
  ASSUME NEW f, NEW K, Summed(f, K)
  PROVE  IsFiniteSet(Units(f, K))
<1> DEFINE g == [k \in K |-> {k} \X (1..f[k])]
           S == {{k} \X (1..f[k]) : k \in K}
<1>1. g \in Surjection(K, S)
  BY DEF Surjection
<1>2. IsFiniteSet(S)
  <2>1. IsFiniteSet(K)
    BY DEF Summed
  <2> HIDE DEF g, S
  <2> QED
    BY <1>1, <2>1, FS_Surjection
<1>3. ASSUME NEW T \in S PROVE IsFiniteSet(T)
  <2>1. PICK k \in K : T = {k} \X (1..f[k])
    OBVIOUS
  <2>2. IsFiniteSet({k}) /\ IsFiniteSet(1..f[k])
    <3>1. IsFiniteSet({k})
      BY FS_Singleton
    <3>2. 1 \in Int /\ f[k] \in Int
      BY DEF Summed
    <3>3. IsFiniteSet(1..f[k])
      BY <3>2, FS_Interval
    <3> QED
      BY <3>1, <3>3
  <2> QED
    BY <2>1, <2>2, FS_Product
<1> HIDE DEF S
<1>4. IsFiniteSet(UNION S)
  BY <1>2, <1>3, FS_UNION
<1> QED
  BY <1>4 DEF Units, S

\* A total is the sum of the totals of its parts.
LEMMA TotalSplit ==
  ASSUME NEW f, NEW K, Summed(f, K), NEW L, L \subseteq K
  PROVE  /\ Summed(f, L) /\ Summed(f, K \ L)
         /\ Total(f, K) \in Nat /\ Total(f, L) \in Nat /\ Total(f, K \ L) \in Nat
         /\ Total(f, K) = Total(f, L) + Total(f, K \ L)
<1>1. Summed(f, L) /\ Summed(f, K \ L)
  <2>1. L \in SUBSET K /\ K \ L \in SUBSET K /\ IsFiniteSet(K)
    BY DEF Summed
  <2>2. IsFiniteSet(L) /\ IsFiniteSet(K \ L)
    BY <2>1, FS_Subset
  <2> QED
    BY <2>1, <2>2 DEF Summed
<1>2. IsFiniteSet(Units(f, K)) /\ IsFiniteSet(Units(f, L)) /\ IsFiniteSet(Units(f, K \ L))
  BY <1>1, UnitsFinite
<1>3. Units(f, K) = Units(f, L) \cup Units(f, K \ L)
  BY DEF Units
<1>4. Units(f, L) \cap Units(f, K \ L) = {}
  <2> SUFFICES ASSUME NEW u \in Units(f, L), u \in Units(f, K \ L) PROVE FALSE
    OBVIOUS
  <2>1. PICK k \in L : u \in {k} \X (1..f[k])
    BY DEF Units
  <2>2. PICK j \in K \ L : u \in {j} \X (1..f[j])
    BY DEF Units
  <2>3. u[1] = k /\ u[1] = j
    BY <2>1, <2>2
  <2> QED
    BY <2>3
<1>5. Cardinality(Units(f, L) \cap Units(f, K \ L)) = 0
  BY <1>4, FS_EmptySet
<1>6. /\ Cardinality(Units(f, K)) \in Nat /\ Cardinality(Units(f, L)) \in Nat
      /\ Cardinality(Units(f, K \ L)) \in Nat
  BY <1>2, FS_CardinalityType
<1>7. Cardinality(Units(f, K)) = Cardinality(Units(f, L)) + Cardinality(Units(f, K \ L))
                                 - Cardinality(Units(f, L) \cap Units(f, K \ L))
  BY <1>2, <1>3, FS_Union
<1>8. \A T : Total(f, T) = Cardinality(Units(f, T))
  BY DEF Total, Units
<1> QED
  BY <1>1, <1>5, <1>6, <1>7, <1>8

\* The total of one is its number, of none 0.
LEMMA TotalOne ==
  ASSUME NEW f, NEW k, f[k] \in Nat
  PROVE  Total(f, {k}) = f[k] /\ Total(f, {}) = 0
<1> DEFINE w == f[k]
           g == [i \in 1..w |-> <<k, i>>]
           T == {k} \X (1..w)
<1>1. IsFiniteSet(1..w) /\ Cardinality(1..w) = w
  <2>1. w \in Nat /\ 1 \in Int
    OBVIOUS
  <2> HIDE DEF w
  <2>2. IsFiniteSet(1..w) /\ Cardinality(1..w) = (IF 1 > w THEN 0 ELSE w - 1 + 1)
    BY <2>1, FS_Interval
  <2> QED
    BY <2>1, <2>2
<1>2. g \in Bijection(1..w, T)
  <2>1. g \in [1..w -> T] /\ \A i \in 1..w : g[i] = <<k, i>>
    OBVIOUS
  <2>2. \A i, j \in 1..w : g[i] = g[j] => i = j
    BY <2>1
  <2>3. \A t \in T : \E i \in 1..w : g[i] = t
    <3> SUFFICES ASSUME NEW t \in T PROVE \E i \in 1..w : g[i] = t
      OBVIOUS
    <3>1. PICK i \in 1..w : t = <<k, i>>
      OBVIOUS
    <3> QED
      BY <2>1, <3>1
  <2> HIDE DEF g, T, w
  <2> QED
    BY <2>1, <2>2, <2>3 DEF Bijection, Injection, Surjection, IsInjective
<1>3. Cardinality(T) = w
  <2> HIDE DEF w, g, T
  <2>1. ExistsBijection(1..w, T)
    BY <1>2 DEF ExistsBijection
  <2>2. IsFiniteSet(T) /\ Cardinality(T) = Cardinality(1..w)
    BY <1>1, <2>1, FS_Bijection
  <2> QED
    BY <1>1, <2>2
<1>4. UNION {{j} \X (1..f[j]) : j \in {k}} = T
  OBVIOUS
<1>5. UNION {{j} \X (1..f[j]) : j \in {}} = {}
  OBVIOUS
<1> QED
  BY <1>3, <1>4, <1>5, FS_EmptySet DEF Total

\* Totals of numbers that are the same, and of numbers that are not larger.
LEMMA TotalSame ==
  ASSUME NEW f, NEW g, NEW K, \A k \in K : g[k] = f[k]
  PROVE  Total(g, K) = Total(f, K)
<1>1. UNION {{k} \X (1..g[k]) : k \in K} = UNION {{k} \X (1..f[k]) : k \in K}
  OBVIOUS
<1> QED
  BY <1>1 DEF Total

LEMMA TotalLess ==
  ASSUME NEW f, NEW g, NEW K, Summed(f, K), Summed(g, K), \A k \in K : g[k] <= f[k]
  PROVE  Total(g, K) <= Total(f, K)
<1>1. Units(g, K) \subseteq Units(f, K)
  <2> SUFFICES ASSUME NEW u \in Units(g, K) PROVE u \in Units(f, K)
    OBVIOUS
  <2>1. PICK k \in K : u \in {k} \X (1..g[k])
    BY DEF Units
  <2>2. PICK i \in 1..g[k] : u = <<k, i>>
    BY <2>1
  <2>3. i \in 1..f[k]
    BY <2>2 DEF Summed
  <2> QED
    BY <2>2, <2>3 DEF Units
<1>2. IsFiniteSet(Units(f, K))
  BY UnitsFinite
<1>3. Cardinality(Units(g, K)) <= Cardinality(Units(f, K))
  BY <1>1, <1>2, FS_Subset
<1> QED
  BY <1>3 DEF Total, Units
-----------------------------------------------------------------------------
(* Memory.                                                                  *)

\* vlen is not longer than the string.
LEMMA VlenLess ==
  ASSUME NEW a \in Nat
  PROVE  a % VlenRange \in Nat /\ a % VlenRange <= a
<1> DEFINE n == VlenRange
           q == a \div n
           r == a % n
<1>1. n \in Nat \ {0}
  BY SharedAssumption
<1>2. r \in 0..(n - 1) /\ q \in Int /\ a = n * q + r
  BY <1>1, DivMod
<1> HIDE DEF n, q, r
<1>3. q >= 0
  <2> SUFFICES ASSUME q <= -1 PROVE FALSE
    BY <1>2
  <2> DEFINE d == -1 - q
             p == n * d
  <2>1. d \in Nat
    BY <1>2
  <2>2. p \in Nat
    BY <1>1, <2>1
  <2>3. n * q = -n - p
    BY <1>1, <1>2
  <2> HIDE DEF p, d
  <2> QED
    BY <1>1, <1>2, <2>2, <2>3
<1>4. n * q \in Nat
  BY <1>1, <1>2, <1>3
<1>5. r \in Nat /\ r <= a
  BY <1>1, <1>2, <1>4
<1> QED
  BY <1>5 DEF r, n

Sound(s) ==
  /\ DOMAIN s.ent \in SUBSET Keys /\ IsFiniteSet(DOMAIN s.ent)
  /\ s.ent \in [DOMAIN s.ent -> Entry]

Sizes(s) == [k \in DOMAIN s.ent |-> Need(k, s.ent[k].len)]
Shrunk(s) == [k \in DOMAIN s.ent |-> Need(k, s.ent[k].len % VlenRange)]

LEMMA SizesFacts ==
  ASSUME NEW s, Sound(s)
  PROVE  /\ Summed(Sizes(s), DOMAIN s.ent) /\ Summed(Shrunk(s), DOMAIN s.ent)
         /\ \A k \in DOMAIN s.ent : Shrunk(s)[k] <= Sizes(s)[k]
<1>1. IsFiniteSet(DOMAIN s.ent)
  BY DEF Sound
<1>2. ASSUME NEW k \in DOMAIN s.ent
      PROVE  Sizes(s)[k] \in Nat /\ Shrunk(s)[k] \in Nat /\ Shrunk(s)[k] <= Sizes(s)[k]
  <2> DEFINE l == s.ent[k].len
             v == l % VlenRange
  <2>1. l \in Nat /\ KeyLen[k] \in Nat /\ EntrySize \in Nat
    BY SharedAssumption DEF Sound, Entry
  <2>2. v \in Nat /\ v <= l
    BY <2>1, VlenLess
  <2>3. Sizes(s)[k] = Need(k, l) /\ Shrunk(s)[k] = Need(k, v)
    BY DEF Sizes, Shrunk
  <2> HIDE DEF l, v
  <2> QED
    BY <2>1, <2>2, <2>3 DEF Need
<1> QED
  BY <1>1, <1>2 DEF Summed

\* The memory of some entries and of the others, and what is given back for them.
LEMMA MemoryFacts ==
  ASSUME NEW s, Sound(s), NEW K, K \subseteq DOMAIN s.ent
  PROVE  /\ Memory(s, DOMAIN s.ent) = Memory(s, K) + Memory(s, DOMAIN s.ent \ K)
         /\ Memory(s, DOMAIN s.ent) \in Nat /\ Memory(s, K) \in Nat
         /\ Memory(s, DOMAIN s.ent \ K) \in Nat
         /\ Bytes(s, K) \in Nat /\ Bytes(s, K) <= Memory(s, K)
<1> DEFINE D == DOMAIN s.ent
<1>1. /\ Summed(Sizes(s), D) /\ Summed(Shrunk(s), D)
      /\ \A k \in D : Shrunk(s)[k] <= Sizes(s)[k]
  BY SizesFacts
<1>2. \A L : Memory(s, L) = Total(Sizes(s), L) /\ Bytes(s, L) = Total(Shrunk(s), L)
  BY DEF Memory, Bytes, Sizes, Shrunk
<1>3. K \subseteq D
  OBVIOUS
<1> HIDE DEF D
<1>4. /\ Summed(Sizes(s), K) /\ Total(Sizes(s), D) \in Nat /\ Total(Sizes(s), K) \in Nat
      /\ Total(Sizes(s), D \ K) \in Nat
      /\ Total(Sizes(s), D) = Total(Sizes(s), K) + Total(Sizes(s), D \ K)
  <2> DEFINE f == Sizes(s)
  <2>1. Summed(f, D)
    BY <1>1
  <2> HIDE DEF f
  <2>2. /\ Summed(f, K) /\ Total(f, D) \in Nat /\ Total(f, K) \in Nat /\ Total(f, D \ K) \in Nat
        /\ Total(f, D) = Total(f, K) + Total(f, D \ K)
    <3>1. Summed(f, K) /\ Total(f, D) \in Nat /\ Total(f, K) \in Nat /\ Total(f, D \ K) \in Nat
      BY <1>3, <2>1, TotalSplit
    <3>2. Total(f, D) = Total(f, K) + Total(f, D \ K)
      BY <1>3, <2>1, TotalSplit
    <3> QED
      BY <3>1, <3>2
  <2> QED
    BY <2>2 DEF f
<1>5. Summed(Shrunk(s), K) /\ Total(Shrunk(s), K) \in Nat
  BY <1>1, <1>3, TotalSplit
<1>6. Total(Shrunk(s), K) <= Total(Sizes(s), K)
  BY <1>1, <1>3, <1>4, <1>5, TotalLess
<1> QED
  BY <1>2, <1>4, <1>5, <1>6 DEF D

\* The memory of entries that are the same in two shards.
LEMMA MemorySame ==
  ASSUME NEW s, NEW t, NEW K, K \subseteq DOMAIN s.ent, K \subseteq DOMAIN t.ent,
         \A k \in K : t.ent[k].len = s.ent[k].len
  PROVE  Memory(t, K) = Memory(s, K)
<1>1. \A k \in K : Sizes(t)[k] = Sizes(s)[k]
  BY DEF Sizes
<1>2. Total(Sizes(t), K) = Total(Sizes(s), K)
  BY <1>1, TotalSame
<1> QED
  BY <1>2 DEF Memory, Sizes

\* The memory of one entry and of none.
LEMMA MemoryOne ==
  ASSUME NEW s, Sound(s), NEW k \in DOMAIN s.ent
  PROVE  Memory(s, {k}) = Need(k, s.ent[k].len)
<1>1. Sizes(s)[k] \in Nat /\ Sizes(s)[k] = Need(k, s.ent[k].len)
  BY SizesFacts DEF Summed, Sizes
<1>2. Total(Sizes(s), {k}) = Sizes(s)[k]
  BY <1>1, TotalOne
<1> QED
  BY <1>1, <1>2 DEF Memory, Sizes

LEMMA MemoryNone == \A s : Memory(s, {}) = 0
<1> SUFFICES ASSUME NEW s PROVE Memory(s, {}) = 0
  OBVIOUS
<1>1. Units(Sizes(s), {}) = {} /\ Cardinality({}) = 0
  BY FS_EmptySet DEF Units
<1> QED
  BY <1>1 DEF Memory, Total, Units, Sizes
-----------------------------------------------------------------------------
(* Shards.                                                                  *)

Good(i, s) ==
  /\ s \in ShardRecord
  /\ \A k \in DOMAIN s.ent : ShardOf[k] = i
  /\ Linked(s) /\ Counted(s)

\* What a good shard is made of.
LEMMA GoodFacts ==
  ASSUME NEW i, NEW s, Good(i, s)
  PROVE  /\ s = [buckets |-> s.buckets, nbuckets |-> s.nbuckets, count |-> s.count,
                 lru |-> s.lru, used |-> s.used, ent |-> s.ent, lost |-> s.lost]
         /\ s.nbuckets \in Nat \ {0}
         /\ s.buckets \in [0..(s.nbuckets - 1) -> Seq(Keys)]
         /\ s.lru \in Seq(Keys)
         /\ DOMAIN s.ent \in SUBSET Keys /\ s.ent \in [DOMAIN s.ent -> Entry]
         /\ Sound(s)
         /\ s.count \in Nat /\ s.used \in Nat /\ s.lost \in Nat
<1>1. /\ s = [buckets |-> s.buckets, nbuckets |-> s.nbuckets, count |-> s.count,
              lru |-> s.lru, used |-> s.used, ent |-> s.ent, lost |-> s.lost]
      /\ s.nbuckets \in Nat \ {0} /\ s.lru \in Seq(Keys)
      /\ s.buckets \in UNION {[0..n -> Seq(Keys)] : n \in Nat}
      /\ s.ent \in UNION {[K -> Entry] : K \in SUBSET Keys}
      /\ s.lost \in Nat
  BY DEF Good, ShardRecord
<1>2. s.buckets \in [0..(s.nbuckets - 1) -> Seq(Keys)]
  <2>1. PICK n \in Nat : s.buckets \in [0..n -> Seq(Keys)]
    BY <1>1
  <2>2. DOMAIN s.buckets = 0..(s.nbuckets - 1)
    BY DEF Good, Linked
  <2> QED
    BY <2>1, <2>2
<1>3. DOMAIN s.ent \in SUBSET Keys /\ s.ent \in [DOMAIN s.ent -> Entry]
  <2>1. PICK K \in SUBSET Keys : s.ent \in [K -> Entry]
    BY <1>1
  <2> QED
    BY <2>1
<1>4. IsFiniteSet(DOMAIN s.ent)
  <2> DEFINE D == DOMAIN s.ent
             q == s.lru
             n == Len(q)
  <2>1. n \in Nat /\ q \in [1..n -> Keys] /\ DOMAIN q = 1..n /\ Range(q) = D
    BY <1>1 DEF Good, Linked
  <2> HIDE DEF D, q, n
  <2>2. q \in [1..n -> D] /\ \A d \in D : \E j \in 1..n : q[j] = d
    BY <2>1 DEF Range
  <2>3. q \in Surjection(1..n, D)
    BY <2>2 DEF Surjection
  <2>4. IsFiniteSet(1..n)
    BY <2>1, FS_Interval
  <2>5. IsFiniteSet(D)
    BY <2>3, <2>4, FS_Surjection
  <2> QED
    BY <2>5 DEF D
<1>5. Sound(s)
  BY <1>3, <1>4 DEF Sound
<1>6. s.count \in Nat
  BY <1>4, FS_CardinalityType DEF Good, Counted
<1>7. s.used \in Nat
  <2>1. DOMAIN s.ent \subseteq DOMAIN s.ent
    OBVIOUS
  <2>2. Memory(s, DOMAIN s.ent) \in Nat
    BY <1>5, <2>1, MemoryFacts
  <2> QED
    BY <1>1, <2>2 DEF Good, Counted
<1> QED
  BY <1>1, <1>2, <1>3, <1>5, <1>6, <1>7

\* shard_lookup finds exactly the entries of the shard.
LEMMA LookupFacts ==
  ASSUME NEW i, NEW s, Good(i, s), NEW k \in Keys
  PROVE  InChain(s, k) <=> k \in DOMAIN s.ent
<1> DEFINE b == Hash[k] % s.nbuckets
<1>1. s.nbuckets \in Nat \ {0} /\ Hash[k] \in Nat
  BY GoodFacts, SharedAssumption
<1>2. b \in 0..(s.nbuckets - 1)
  BY <1>1, DivMod
<1>3. Range(s.buckets[b]) = {j \in DOMAIN s.ent : Hash[j] % s.nbuckets = b}
  BY <1>2 DEF Good, Linked
<1> QED
  BY <1>3 DEF InChain

\* entry_drop keeps the accounts.
LEMMA DropFacts ==
  ASSUME NEW i, NEW s, Good(i, s), NEW K \in SUBSET DOMAIN s.ent
  PROVE  /\ Good(i, Drop(s, K))
         /\ DOMAIN Drop(s, K).ent = DOMAIN s.ent \ K
         /\ Drop(s, K).nbuckets = s.nbuckets
         /\ Drop(s, K).used = s.used - Bytes(s, K)
<1> DEFINE D == DOMAIN s.ent
           n == s.nbuckets
           B == [b \in 0..(n - 1) |-> Without(s.buckets[b], K)]
           l == Without(s.lru, K)
           u == s.used - Bytes(s, K)
           x == s.lost + Memory(s, K) - Bytes(s, K)
           c == s.count - Cardinality(K)
           e == [k \in D \ K |-> s.ent[k]]
           t == Drop(s, K)
<1>1. /\ s = [buckets |-> s.buckets, nbuckets |-> n, count |-> s.count,
              lru |-> s.lru, used |-> s.used, ent |-> s.ent, lost |-> s.lost]
      /\ n \in Nat \ {0} /\ s.buckets \in [0..(n - 1) -> Seq(Keys)] /\ s.lru \in Seq(Keys)
      /\ D \in SUBSET Keys /\ s.ent \in [D -> Entry] /\ Sound(s)
      /\ s.count \in Nat /\ s.used \in Nat /\ s.lost \in Nat
  BY GoodFacts
<1>2. t = [buckets |-> B, nbuckets |-> n, count |-> c, lru |-> l, used |-> u, ent |-> e,
           lost |-> x]
  <2>1. DOMAIN s.buckets = 0..(n - 1)
    BY <1>1
  <2>2. t = [s EXCEPT !.buckets = B, !.lru = l, !.used = u, !.lost = x, !.count = c, !.ent = e]
    BY <2>1 DEF Drop
  <2>3. s \in ShardRecord /\ n = s.nbuckets
    BY DEF Good
  <2> HIDE DEF t, B, l, u, x, c, e, n
  <2> QED
    BY <2>2, <2>3 DEF ShardRecord
<1>3. /\ t.buckets = B /\ t.nbuckets = n /\ t.count = c /\ t.lru = l /\ t.used = u /\ t.ent = e
      /\ t.lost = x
  BY <1>2
<1>4. l \in Seq(Keys) /\ Range(l) = D \ K /\ IsInjective(l)
  BY <1>1, WithoutFacts DEF Good, Linked
<1>5. B \in [0..(n - 1) -> Seq(Keys)]
  <2>1. \A b \in 0..(n - 1) : Without(s.buckets[b], K) \in Seq(Keys)
    BY <1>1, WithoutFacts
  <2> QED
    BY <2>1
<1>6. e \in [D \ K -> Entry] /\ D \ K \in SUBSET Keys /\ DOMAIN e = D \ K
  BY <1>1
<1>7. \A b \in 0..(n - 1) :
        IsInjective(B[b]) /\ Range(B[b]) = {k \in D \ K : Hash[k] % n = b}
  <2> SUFFICES ASSUME NEW b \in 0..(n - 1)
               PROVE  IsInjective(B[b]) /\ Range(B[b]) = {k \in D \ K : Hash[k] % n = b}
    OBVIOUS
  <2>1. s.buckets[b] \in Seq(Keys) /\ B[b] = Without(s.buckets[b], K)
    BY <1>1
  <2>2. IsInjective(s.buckets[b]) /\ Range(s.buckets[b]) = {k \in D : Hash[k] % n = b}
    BY <1>1 DEF Good, Linked
  <2>3. IsInjective(B[b]) /\ Range(B[b]) = {k \in D : Hash[k] % n = b} \ K
    BY <2>1, <2>2, WithoutFacts
  <2> QED
    BY <2>3
<1>8. IsFiniteSet(K) /\ Cardinality(D \ K) = Cardinality(D) - Cardinality(K)
      /\ Cardinality(K) \in Nat
  <2>1. IsFiniteSet(D) /\ D \cap K = K
    BY <1>1 DEF Sound
  <2>2. IsFiniteSet(K)
    BY <2>1, FS_Subset
  <2> QED
    BY <2>1, <2>2, FS_Difference, FS_CardinalityType
<1>9. c = Cardinality(D \ K) /\ c \in Int
  BY <1>1, <1>8 DEF Good, Counted
<1>10. /\ Memory(s, D) \in Nat /\ Memory(s, K) \in Nat /\ Memory(s, D \ K) \in Nat
       /\ Memory(s, D) = Memory(s, K) + Memory(s, D \ K)
       /\ Bytes(s, K) \in Nat /\ Bytes(s, K) <= Memory(s, K)
  BY <1>1, MemoryFacts
<1>11. /\ u = Memory(s, D \ K) + x /\ u \in Int /\ x \in Nat
       /\ Memory(s, D \ K) <= Budget
  <2> DEFINE a == Memory(s, K)
             r == Memory(s, D \ K)
             g == Bytes(s, K)
  <2>1. /\ s.used = Memory(s, D) + s.lost /\ Memory(s, D) <= Budget
        /\ s.used \in Nat /\ s.lost \in Nat /\ Budget \in Nat
    BY <1>1, SharedAssumption DEF Good, Counted
  <2>2. u = s.used - g /\ x = s.lost + a - g
    OBVIOUS
  <2> HIDE DEF u, x, D, a, r, g
  <2>3. Memory(s, D) = a + r /\ a \in Nat /\ r \in Nat /\ g \in Nat /\ g <= a
    BY <1>10 DEF a, r, g
  <2>4. u = r + x /\ u \in Int /\ x \in Nat /\ r <= Budget
    BY <2>1, <2>2, <2>3
  <2> QED
    BY <2>4 DEF r
<1>12. Memory(t, D \ K) = Memory(s, D \ K)
  <2>1. \A k \in D \ K : t.ent[k].len = s.ent[k].len
    BY <1>3
  <2>2. D \ K \subseteq DOMAIN s.ent /\ D \ K \subseteq DOMAIN t.ent
    BY <1>3, <1>6
  <2> QED
    BY <2>1, <2>2, MemorySame
<1> HIDE DEF t, B, l, u, x, c, e, n, D
<1>13. t \in ShardRecord
  <2>1. n - 1 \in Nat
    BY <1>1
  <2>2. B \in UNION {[0..m -> Seq(Keys)] : m \in Nat}
    BY <1>5, <2>1
  <2>3. e \in UNION {[L -> Entry] : L \in SUBSET Keys}
    BY <1>6
  <2> QED
    BY <1>1, <1>2, <1>4, <1>9, <1>11, <2>2, <2>3 DEF ShardRecord
<1>14. Linked(t)
  <2>1. DOMAIN B = 0..(n - 1)
    BY <1>5
  <2> QED
    BY <1>3, <1>4, <1>6, <1>7, <2>1 DEF Linked
<1>15. Counted(t)
  BY <1>3, <1>6, <1>9, <1>11, <1>12 DEF Counted
<1>16. \A k \in D \ K : ShardOf[k] = i
  BY DEF Good, D
<1>17. Good(i, t)
  BY <1>3, <1>6, <1>13, <1>14, <1>15, <1>16 DEF Good
<1> QED
  BY <1>3, <1>6, <1>17 DEF t, D, n, u

\* An entry that is put in front of a list.
LEMMA PushFacts ==
  ASSUME NEW q \in Seq(Keys), NEW k \in Keys
  PROVE  /\ <<k>> \o q \in Seq(Keys)
         /\ Range(<<k>> \o q) = Range(q) \cup {k}
         /\ IsInjective(q) /\ k \notin Range(q) => IsInjective(<<k>> \o q)
<1> DEFINE p == <<k>> \o q
           n == Len(q)
<1>1. /\ <<k>> \in Seq(Keys) /\ Range(<<k>>) = {k}
      /\ n \in Nat /\ DOMAIN q = 1..n /\ DOMAIN p = 1..(n + 1)
      /\ p[1] = k /\ \A i \in 2..(n + 1) : i - 1 \in 1..n /\ p[i] = q[i - 1]
  BY DEF Range
<1>2. p \in Seq(Keys) /\ Range(p) = Range(q) \cup {k}
  <2> DEFINE x == <<k>>
  <2>1. x \in Seq(Keys) /\ Range(x) = {k}
    BY <1>1
  <2> HIDE DEF x
  <2>2. x \o q \in Seq(Keys) /\ Range(x \o q) = Range(x) \cup Range(q)
    BY <2>1, ConcatKeys
  <2>3. x \o q \in Seq(Keys) /\ Range(x \o q) = Range(q) \cup {k}
    BY <2>1, <2>2
  <2> QED
    BY <2>3 DEF x
<1>3. ASSUME IsInjective(q), k \notin Range(q) PROVE IsInjective(p)
  <2> HIDE DEF p, n
  <2>1. \A i \in 1..n : q[i] # k
    BY <1>1, <1>3 DEF Range
  <2> SUFFICES ASSUME NEW i \in 1..(n + 1), NEW j \in 1..(n + 1), p[i] = p[j] PROVE i = j
    BY <1>1 DEF IsInjective
  <2>2. \A m \in 1..(n + 1) : m = 1 \/ m \in 2..(n + 1)
    BY <1>1
  <2>3. CASE i = 1 \/ j = 1
    BY <1>1, <2>1, <2>2, <2>3
  <2>4. CASE i \in 2..(n + 1) /\ j \in 2..(n + 1)
    <3>1. i - 1 = j - 1
      BY <1>1, <1>3, <2>4 DEF IsInjective
    <3> QED
      BY <2>4, <3>1
  <2> QED
    BY <2>2, <2>3, <2>4
<1> QED
  BY <1>2, <1>3

\* A lookup reaps at most the entry it is for.
LEMMA ReapFacts ==
  ASSUME NEW i, NEW s, Good(i, s), NEW k \in Keys, NEW now
  PROVE  Good(i, Reap(s, k, now)) /\ DOMAIN Reap(s, k, now).ent \subseteq DOMAIN s.ent
<1>1. CASE InChain(s, k) /\ Expired(s.ent[k], now)
  <2>1. {k} \in SUBSET DOMAIN s.ent
    BY <1>1, LookupFacts
  <2>2. Reap(s, k, now) = Drop(s, {k})
    BY <1>1 DEF Reap
  <2>3. Good(i, Drop(s, {k})) /\ DOMAIN Drop(s, {k}).ent = DOMAIN s.ent \ {k}
    BY <2>1, DropFacts
  <2> QED
    BY <2>2, <2>3
<1>2. CASE ~(InChain(s, k) /\ Expired(s.ent[k], now))
  <2>1. Reap(s, k, now) = s
    BY <1>2, Zenon DEF Reap
  <2> QED
    BY <2>1
<1> QED
  BY <1>1, <1>2

\* lru_touch moves an entry to the front.
LEMMA TouchFacts ==
  ASSUME NEW i, NEW s, Good(i, s), NEW k \in DOMAIN s.ent
  PROVE  Good(i, Touch(s, k)) /\ Touch(s, k).ent = s.ent
<1> DEFINE t == Touch(s, k)
           l == <<k>> \o Without(s.lru, {k})
<1>1. s \in ShardRecord /\ s.lru \in Seq(Keys) /\ k \in Keys
  BY GoodFacts DEF Good
<1>2. /\ Without(s.lru, {k}) \in Seq(Keys) /\ Range(Without(s.lru, {k})) = DOMAIN s.ent \ {k}
      /\ IsInjective(Without(s.lru, {k}))
  BY <1>1, WithoutFacts DEF Good, Linked
<1>3. l \in Seq(Keys) /\ Range(l) = DOMAIN s.ent /\ IsInjective(l)
  <2>1. k \notin DOMAIN s.ent \ {k} /\ (DOMAIN s.ent \ {k}) \cup {k} = DOMAIN s.ent
    OBVIOUS
  <2> QED
    BY <1>1, <1>2, <2>1, PushFacts
<1>4. t = [s EXCEPT !.lru = l]
  BY DEF Touch
<1> HIDE DEF t, l
<1>5. /\ t \in ShardRecord /\ t.lru = l /\ t.ent = s.ent /\ t.used = s.used /\ t.count = s.count
      /\ t.buckets = s.buckets /\ t.nbuckets = s.nbuckets /\ t.lost = s.lost
  BY <1>1, <1>3, <1>4 DEF ShardRecord
<1>6. Linked(t)
  BY <1>3, <1>5 DEF Good, Linked
<1>7. Counted(t)
  <2>1. Memory(t, DOMAIN s.ent) = Memory(s, DOMAIN s.ent)
    BY <1>5, MemorySame
  <2> QED
    BY <1>5, <2>1 DEF Good, Counted
<1>8. Good(i, t)
  BY <1>5, <1>6, <1>7 DEF Good
<1> QED
  BY <1>5, <1>8 DEF t

\* Evicting from the tail makes room for what fits in an empty shard, also when
\* used_bytes does not come down to the budget.
LEMMA EvictFacts ==
  ASSUME NEW i, NEW s, Good(i, s), NEW need \in Nat, need <= Budget
  PROVE  /\ Good(i, Evict(s, need)) /\ DOMAIN Evict(s, need).ent \subseteq DOMAIN s.ent
         /\ Memory(Evict(s, need), DOMAIN Evict(s, need).ent) + need <= Budget
<1> DEFINE n == Len(s.lru)
           D == DOMAIN s.ent
           Tail1(v) == {s.lru[j] : j \in (n - v + 1)..n}
           Fits(v) == v = n \/ s.used - Bytes(s, Tail1(v)) + need <= Budget
           First(x) == /\ x = n \/ s.used - Bytes(s, Tail1(x)) + need <= Budget
                       /\ \A y \in 0..(x - 1) : s.used - Bytes(s, Tail1(y)) + need > Budget
           v == CHOOSE x \in 0..n : First(x)
<1>1. /\ s.lru \in Seq(Keys) /\ n \in Nat /\ DOMAIN s.lru = 1..n /\ Range(s.lru) = D
      /\ Sound(s) /\ s.used \in Nat /\ Budget \in Nat
  <2>1. s.lru \in Seq(Keys) /\ Sound(s) /\ s.used \in Nat
    BY GoodFacts
  <2>2. n \in Nat /\ DOMAIN s.lru = 1..n
    BY <2>1
  <2>3. Range(s.lru) = D
    BY DEF Good, Linked
  <2> QED
    BY <2>1, <2>2, <2>3, SharedAssumption
<1>2. CASE s.used + need <= Budget
  <2>1. Evict(s, need) = s
    BY <1>2 DEF Evict
  <2>2. Memory(s, D) \in Nat /\ s.lost \in Nat
    BY <1>1, GoodFacts, MemoryFacts
  <2>3. s.used = Memory(s, D) + s.lost
    BY DEF Good, Counted
  <2>4. Memory(s, D) + need <= Budget
    <3> HIDE DEF D
    <3> QED
      BY <1>1, <1>2, <2>2, <2>3
  <2> QED
    BY <2>1, <2>4
<1>3. SUFFICES ASSUME ~(s.used + need <= Budget)
               PROVE  /\ Good(i, Evict(s, need)) /\ DOMAIN Evict(s, need).ent \subseteq DOMAIN s.ent
                      /\ Memory(Evict(s, need), DOMAIN Evict(s, need).ent) + need <= Budget
  BY <1>2
<1>4. \A x \in 0..n : Tail1(x) \subseteq D
  <2> SUFFICES ASSUME NEW x \in 0..n, NEW j \in (n - x + 1)..n PROVE s.lru[j] \in D
    OBVIOUS
  <2>1. j \in 1..n
    BY <1>1
  <2> QED
    BY <1>1, <2>1 DEF Range
<1>5. \A x \in 0..n : Bytes(s, Tail1(x)) \in Nat
  <2> SUFFICES ASSUME NEW x \in 0..n PROVE Bytes(s, Tail1(x)) \in Nat
    OBVIOUS
  <2>1. Tail1(x) \subseteq D
    BY <1>4
  <2> HIDE DEF Tail1
  <2> QED
    BY <1>1, <2>1, MemoryFacts
<1>6. Tail1(n) = D
  <2>1. n - n + 1 = 1
    BY <1>1
  <2> QED
    BY <1>1, <2>1 DEF Range
<1> HIDE DEF Tail1, n, D
<1>7. \E x \in 0..n : First(x)
  <2> DEFINE S == {x \in 0..n : Fits(x)}
  <2>1. S \in SUBSET Nat /\ n \in S
    BY <1>1
  <2>2. PICK x \in S : \A y \in S : x <= y
    <3> HIDE DEF S
    <3> QED
      BY <2>1, LeastNat
  <2>3. x \in 0..n /\ Fits(x)
    OBVIOUS
  <2>4. ASSUME NEW y \in 0..(x - 1) PROVE s.used - Bytes(s, Tail1(y)) + need > Budget
    <3>1. y \in 0..n /\ y # n /\ ~(x <= y)
      BY <1>1, <2>3
    <3>2. ~Fits(y)
      <4>1. y \notin S
        <5> HIDE DEF S
        <5> QED
          BY <2>2, <3>1
      <4> HIDE DEF Fits
      <4> QED
        BY <3>1, <4>1
    <3>3. Bytes(s, Tail1(y)) \in Nat
      BY <1>5, <3>1
    <3> QED
      BY <1>1, <3>1, <3>2, <3>3
  <2> QED
    BY <2>3, <2>4
<1>8. v \in 0..n /\ First(v)
  <2> HIDE DEF First
  <2> QED
    BY <1>7
<1>9. Evict(s, need) = Drop(s, Tail1(v))
  BY <1>3 DEF Evict, Tail1, n
<1> HIDE DEF v
<1>10. Tail1(v) \in SUBSET D /\ Bytes(s, Tail1(v)) \in Nat
  BY <1>4, <1>5, <1>8
<1> DEFINE t == Drop(s, Tail1(v))
<1>11. /\ Good(i, t) /\ DOMAIN t.ent = D \ Tail1(v)
      /\ t.used = s.used - Bytes(s, Tail1(v))
  BY <1>10, DropFacts DEF D
<1> HIDE DEF t
<1>12. Memory(t, DOMAIN t.ent) + need <= Budget
  <2>1. CASE v = n
    <3>1. DOMAIN t.ent = {}
      BY <1>6, <1>11, <2>1
    <3>2. Memory(t, DOMAIN t.ent) = 0
      BY <3>1, MemoryNone
    <3> QED
      BY <3>2
  <2>2. CASE t.used + need <= Budget
    <3>1. Sound(t) /\ t.lost \in Nat /\ t.used \in Nat
      BY <1>11, GoodFacts
    <3>2. Memory(t, DOMAIN t.ent) \in Nat
      BY <3>1, MemoryFacts
    <3>3. t.used = Memory(t, DOMAIN t.ent) + t.lost
      BY <1>11 DEF Good, Counted
    <3> QED
      BY <1>1, <2>2, <3>1, <3>2, <3>3
  <2> QED
    BY <1>8, <1>11, <2>1, <2>2
<1> QED
  BY <1>9, <1>11, <1>12 DEF D, t

\* Every key of a bucket that is split is in the half that its hash selects.
LEMMA GrownFacts ==
  ASSUME NEW i, NEW s, Good(i, s)
  PROVE  Good(i, Grown(s)) /\ Grown(s).ent = s.ent
<1> DEFINE n == s.nbuckets
           D == DOMAIN s.ent
           Other(b) == {k \in Keys : Hash[k] % (2 * n) # b}
           B == [b \in 0..(2 * n - 1) |-> Reverse(Without(s.buckets[b % n], Other(b)))]
           t == Grown(s)
<1>1. /\ s \in ShardRecord /\ n \in Nat \ {0} /\ D \in SUBSET Keys
      /\ s.buckets \in [0..(n - 1) -> Seq(Keys)]
  BY GoodFacts DEF Good
<1>2. t = [s EXCEPT !.nbuckets = 2 * n, !.buckets = B]
  BY DEF Grown
<1>3. \A b \in 0..(2 * n - 1) :
        B[b] \in Seq(Keys) /\ IsInjective(B[b]) /\ Range(B[b]) = {k \in D : Hash[k] % (2 * n) = b}
  <2> SUFFICES ASSUME NEW b \in 0..(2 * n - 1)
               PROVE  /\ B[b] \in Seq(Keys) /\ IsInjective(B[b])
                      /\ Range(B[b]) = {k \in D : Hash[k] % (2 * n) = b}
    OBVIOUS
  <2> DEFINE q == s.buckets[b % n]
             w == Without(q, Other(b))
  <2>1. b \in Nat /\ b % n \in 0..(n - 1)
    <3>1. 2 * n - 1 \in Int
      BY <1>1
    <3>2. b \in Nat
      BY <3>1
    <3> QED
      BY <1>1, <3>2, DivMod
  <2>2. q \in Seq(Keys)
    BY <1>1, <2>1
  <2>3. IsInjective(q) /\ Range(q) = {k \in D : Hash[k] % n = b % n}
    BY <2>1 DEF Good, Linked
  <2>4. w \in Seq(Keys) /\ Range(w) = Range(q) \ Other(b) /\ IsInjective(w)
    <3> HIDE DEF q, Other
    <3> QED
      BY <2>2, <2>3, WithoutFacts
  <2>5. Range(q) \ Other(b) = {k \in D : Hash[k] % (2 * n) = b}
    <3>1. \A k \in D : Hash[k] \in Nat
      BY <1>1, SharedAssumption
    <3>2. \A k \in D : (Hash[k] % (2 * n)) % n = Hash[k] % n
      BY <1>1, <3>1, Half
    <3>3. \A k \in D : Hash[k] % (2 * n) = b => Hash[k] % n = b % n
      BY <3>2
    <3>4. \A k \in D : k \in Other(b) <=> Hash[k] % (2 * n) # b
      BY <1>1
    <3> HIDE DEF q, Other, n, D
    <3> QED
      BY <2>3, <3>3, <3>4 DEF n, D
  <2>6. B[b] = Reverse(w)
    OBVIOUS
  <2> HIDE DEF w, B, q
  <2> QED
    BY <2>4, <2>5, <2>6, ReverseFacts
<1>4. B \in [0..(2 * n - 1) -> Seq(Keys)]
  <2>1. B = [b \in 0..(2 * n - 1) |-> B[b]]
    OBVIOUS
  <2> HIDE DEF B
  <2> QED
    BY <1>3, <2>1
<1>5. 2 * n \in Nat \ {0} /\ 2 * n - 1 \in Nat
  BY <1>1
<1> HIDE DEF t, B
<1>6. /\ t \in ShardRecord /\ t.buckets = B /\ t.nbuckets = 2 * n /\ t.ent = s.ent /\ t.lru = s.lru
      /\ t.used = s.used /\ t.count = s.count /\ t.lost = s.lost
  <2>1. B \in UNION {[0..m -> Seq(Keys)] : m \in Nat}
    BY <1>4, <1>5
  <2> QED
    BY <1>1, <1>2, <1>5, <2>1 DEF ShardRecord
<1>7. Linked(t)
  <2>1. DOMAIN B = 0..(2 * n - 1)
    BY <1>4
  <2> QED
    BY <1>3, <1>6, <2>1 DEF Good, Linked
<1>8. Counted(t)
  <2>1. Memory(t, D) = Memory(s, D)
    BY <1>6, MemorySame
  <2> QED
    BY <1>6, <2>1 DEF Good, Counted
<1>9. Good(i, t)
  BY <1>6, <1>7, <1>8 DEF Good
<1> QED
  BY <1>6, <1>9 DEF t

\* An inserted entry is in front of its chain and of the LRU list.
LEMMA InsertFacts ==
  ASSUME NEW i, NEW s, Good(i, s), NEW k \in Keys, ShardOf[k] = i, k \notin DOMAIN s.ent,
         NEW e \in Entry, Need(k, e.len) <= Budget, NEW r \in Insert(s, k, e)
  PROVE  /\ Good(i, r[1])
         /\ DOMAIN r[1].ent \subseteq DOMAIN s.ent \cup (IF r[2] THEN {k} ELSE {})
<1> DEFINE need == Need(k, e.len)
           v == Evict(s, need)
           n == v.nbuckets
           D == DOMAIN v.ent
           b == Hash[k] % n
           B == [v.buckets EXCEPT ![b] = <<k>> \o @]
           l == <<k>> \o v.lru
           u == v.used + need
           c == v.count + 1
           E == [x \in D \cup {k} |-> IF x = k THEN e ELSE v.ent[x]]
           w == [v EXCEPT !.buckets[b] = <<k>> \o @, !.lru = <<k>> \o @,
                          !.used = @ + need, !.count = @ + 1,
                          !.ent = [x \in DOMAIN @ \cup {k} |-> IF x = k THEN e ELSE @[x]]]
<1>1. need \in Nat /\ need <= Budget
  BY SharedAssumption DEF Entry, Need
<1> HIDE DEF need
<1>2. Good(i, v) /\ D \subseteq DOMAIN s.ent /\ Memory(v, D) + need <= Budget
  BY <1>1, EvictFacts
<1> HIDE DEF v
<1>3. /\ v \in ShardRecord /\ n \in Nat \ {0} /\ v.buckets \in [0..(n - 1) -> Seq(Keys)]
      /\ v.lru \in Seq(Keys) /\ D \in SUBSET Keys /\ v.ent \in [D -> Entry] /\ Sound(v)
      /\ v.count \in Nat /\ v.used \in Nat /\ v.lost \in Nat /\ k \notin D
  BY <1>2, GoodFacts DEF Good
<1>4. b \in 0..(n - 1) /\ \A j \in Keys : Hash[j] \in Nat
  BY <1>3, SharedAssumption, DivMod
<1>5. w = [v EXCEPT !.buckets = B, !.lru = l, !.used = u, !.count = c, !.ent = E]
  BY <1>3 DEF ShardRecord
<1>6. l \in Seq(Keys) /\ Range(l) = D \cup {k} /\ IsInjective(l)
  <2>1. IsInjective(v.lru) /\ Range(v.lru) = D
    BY <1>2 DEF Good, Linked
  <2> QED
    BY <1>3, <2>1, PushFacts
<1>7. /\ <<k>> \o v.buckets[b] \in Seq(Keys) /\ IsInjective(<<k>> \o v.buckets[b])
      /\ Range(<<k>> \o v.buckets[b]) = {j \in D \cup {k} : Hash[j] % n = b}
  <2> DEFINE q == v.buckets[b]
  <2>1. q \in Seq(Keys) /\ IsInjective(q) /\ Range(q) = {j \in D : Hash[j] % n = b}
    BY <1>2, <1>3, <1>4 DEF Good, Linked
  <2>2. k \notin Range(q) /\ Range(q) \cup {k} = {j \in D \cup {k} : Hash[j] % n = b}
    BY <1>3, <2>1
  <2> HIDE DEF q
  <2>3. /\ <<k>> \o q \in Seq(Keys) /\ IsInjective(<<k>> \o q)
        /\ Range(<<k>> \o q) = Range(q) \cup {k}
    BY <2>1, <2>2, PushFacts
  <2> QED
    BY <2>2, <2>3 DEF q
<1> DEFINE p == <<k>> \o v.buckets[b]
<1>8. B = [v.buckets EXCEPT ![b] = p]
  OBVIOUS
<1> HIDE DEF p, B, l
<1>9. B \in [0..(n - 1) -> Seq(Keys)]
  BY <1>3, <1>7, <1>8 DEF p
<1>10. \A a \in 0..(n - 1) :
         IsInjective(B[a]) /\ Range(B[a]) = {j \in D \cup {k} : Hash[j] % n = a}
  <2> SUFFICES ASSUME NEW a \in 0..(n - 1)
               PROVE  IsInjective(B[a]) /\ Range(B[a]) = {j \in D \cup {k} : Hash[j] % n = a}
    OBVIOUS
  <2>1. CASE a = b
    BY <1>3, <1>4, <1>7, <1>8, <2>1 DEF p
  <2>2. CASE a # b
    <3>1. B[a] = v.buckets[a]
      BY <1>3, <1>8, <2>2
    <3>2. IsInjective(v.buckets[a]) /\ Range(v.buckets[a]) = {j \in D : Hash[j] % n = a}
      BY <1>2, <1>3 DEF Good, Linked
    <3> HIDE DEF D, n
    <3> QED
      BY <2>2, <3>1, <3>2
  <2> QED
    BY <2>1, <2>2
<1>11. /\ E \in [D \cup {k} -> Entry] /\ DOMAIN E = D \cup {k} /\ D \cup {k} \in SUBSET Keys
       /\ E[k] = e /\ \A j \in D : E[j] = v.ent[j]
  BY <1>3
<1> HIDE DEF E, w, u, c
<1>12. /\ w \in ShardRecord /\ w.buckets = B /\ w.nbuckets = n /\ w.lru = l /\ w.used = u
       /\ w.count = c /\ w.ent = E /\ w.lost = v.lost
  <2>1. B \in UNION {[0..m -> Seq(Keys)] : m \in Nat}
    <3>1. n - 1 \in Nat
      BY <1>3
    <3> QED
      BY <1>9, <3>1
  <2>2. E \in UNION {[L -> Entry] : L \in SUBSET Keys}
    BY <1>11
  <2>3. u \in Int /\ c \in Int
    BY <1>1, <1>3 DEF u, c
  <2> QED
    BY <1>3, <1>5, <1>6, <2>1, <2>2, <2>3 DEF ShardRecord
<1>13. Linked(w)
  <2>1. DOMAIN B = 0..(n - 1)
    BY <1>9
  <2> QED
    BY <1>6, <1>10, <1>11, <1>12, <2>1 DEF Linked
<1>14. Counted(w)
  <2> DEFINE F == D \cup {k}
  <2>1. /\ IsFiniteSet(D) /\ v.count = Cardinality(D)
        /\ v.used = Memory(v, D) + v.lost
    BY <1>2, <1>3 DEF Sound, Good, Counted
  <2>2. IsFiniteSet(F) /\ Cardinality(F) = Cardinality(D) + 1
    BY <1>3, <2>1, FS_AddElement
  <2>3. Sound(w)
    BY <1>11, <1>12, <2>2 DEF Sound
  <2>4. {k} \subseteq F /\ F \ {k} = D /\ F = DOMAIN w.ent
    BY <1>3, <1>11, <1>12
  <2>5. Memory(w, F) = Memory(w, {k}) + Memory(w, D)
    <3> HIDE DEF F
    <3>1. Memory(w, F) = Memory(w, {k}) + Memory(w, F \ {k})
      BY <2>3, <2>4, MemoryFacts
    <3> QED
      BY <2>4, <3>1
  <2>6. Memory(w, {k}) = need
    <3>1. w.ent[k] = e /\ k \in DOMAIN w.ent
      BY <1>11, <1>12
    <3> QED
      BY <2>3, <3>1, MemoryOne DEF need
  <2>7. Memory(w, D) = Memory(v, D) /\ Memory(v, D) \in Nat
    <3>1. \A j \in D : w.ent[j].len = v.ent[j].len
      BY <1>11, <1>12
    <3>2. D \subseteq DOMAIN w.ent
      BY <2>4
    <3>3. D \subseteq D
      OBVIOUS
    <3> QED
      BY <1>3, <3>1, <3>2, <3>3, MemorySame, MemoryFacts
  <2>8. w.used = Memory(w, F) + w.lost /\ Memory(w, F) <= Budget
    BY <1>1, <1>2, <1>3, <1>12, <2>1, <2>5, <2>6, <2>7 DEF u
  <2>9. w.count = Cardinality(F)
    BY <1>12, <2>1, <2>2 DEF c
  <2> QED
    BY <2>4, <2>8, <2>9 DEF Counted
<1>15. Good(i, w)
  <2>1. \A j \in D \cup {k} : ShardOf[j] = i
    BY <1>2 DEF Good
  <2> QED
    BY <1>11, <1>12, <1>13, <1>14, <2>1 DEF Good
<1>16. Good(i, Grown(w)) /\ Grown(w).ent = w.ent
  BY <1>15, GrownFacts
<1>17. r = <<v, FALSE>> \/ r = <<w, TRUE>> \/ r = <<Grown(w), TRUE>>
  BY DEF Insert, v, w, need
<1>18. DOMAIN w.ent \subseteq DOMAIN s.ent \cup {k}
  BY <1>2, <1>11, <1>12
<1>19. CASE r = <<v, FALSE>>
  BY <1>2, <1>19
<1>20. CASE r = <<w, TRUE>>
  BY <1>15, <1>18, <1>20
<1>21. CASE r = <<Grown(w), TRUE>>
  BY <1>16, <1>18, <1>21
<1> QED
  BY <1>17, <1>19, <1>20, <1>21

\* xshared_expire changes when an entry goes, not how long it is.
LEMMA ExpireFacts ==
  ASSUME NEW i, NEW s, Good(i, s), NEW k \in DOMAIN s.ent, NEW x \in Nat
  PROVE  /\ Good(i, [s EXCEPT !.ent[k].expire = x])
         /\ DOMAIN [s EXCEPT !.ent[k].expire = x].ent = DOMAIN s.ent
<1> DEFINE D == DOMAIN s.ent
           E == [s.ent EXCEPT ![k].expire = x]
           t == [s EXCEPT !.ent[k].expire = x]
<1>1. s \in ShardRecord /\ D \in SUBSET Keys /\ s.ent \in [D -> Entry]
  BY GoodFacts DEF Good
<1>2. t = [s EXCEPT !.ent = E]
  BY <1>1 DEF ShardRecord
<1>3. E \in [D -> Entry] /\ DOMAIN E = D /\ \A j \in D : E[j].len = s.ent[j].len
  BY <1>1 DEF Entry
<1> HIDE DEF E, t
<1>4. /\ t \in ShardRecord /\ t.buckets = s.buckets /\ t.nbuckets = s.nbuckets /\ t.lru = s.lru
      /\ t.used = s.used /\ t.count = s.count /\ t.ent = E /\ t.lost = s.lost
  <2>1. E \in UNION {[L -> Entry] : L \in SUBSET Keys}
    BY <1>1, <1>3
  <2> QED
    BY <1>1, <1>2, <2>1 DEF ShardRecord
<1>5. Linked(t)
  BY <1>3, <1>4 DEF Good, Linked
<1>6. Counted(t)
  <2>1. D \subseteq DOMAIN s.ent /\ D \subseteq DOMAIN t.ent
    BY <1>3, <1>4
  <2>2. Memory(t, D) = Memory(s, D)
    BY <1>3, <1>4, <2>1, MemorySame
  <2> QED
    BY <1>3, <1>4, <2>2 DEF Good, Counted
<1>7. Good(i, t)
  BY <1>3, <1>4, <1>5, <1>6 DEF Good
<1> QED
  BY <1>3, <1>4, <1>7 DEF t
-----------------------------------------------------------------------------
(* The calls.                                                               *)

LEMMA GoodShards == IInv => \A i \in 0..(NShards - 1) : shards[i] \in ShardRecord /\ Good(i, shards[i])
<1> SUFFICES ASSUME IInv, NEW i \in 0..(NShards - 1) PROVE Good(i, shards[i])
  BY DEF Good
<1>1. shards[i] \in ShardRecord /\ i \in DOMAIN shards
  BY DEF IInv, TypeOK
<1> QED
  BY <1>1 DEF IInv, Accounting, Present, Good

\* A call that leaves a good shard, without the keys reported absent.
LEMMA DoneStep ==
  ASSUME IInv, NEW k \in Keys, NEW s, NEW m, Good(ShardOf[k], s), m \in SUBSET Keys,
         \A j \in m : j \in missing \/ j = k,
         DOMAIN s.ent \subseteq DOMAIN Shard(k).ent \cup {k},
         k \in m => k \notin DOMAIN s.ent,
         Done(k, s, m)
  PROVE  IInv'
<1> DEFINE i == ShardOf[k]
<1>1. i \in 0..(NShards - 1) /\ ShardOf \in [Keys -> 0..(NShards - 1)]
  BY SharedAssumption
<1>2. /\ shards \in [0..(NShards - 1) -> ShardRecord]
      /\ shards' = [shards EXCEPT ![i] = s] /\ missing' = m /\ UNCHANGED <<clock, cursor, sweep>>
  BY DEF Done, IInv, TypeOK
<1>3. s \in ShardRecord
  BY DEF Good
<1>4. /\ shards' \in [0..(NShards - 1) -> ShardRecord] /\ DOMAIN shards' = 0..(NShards - 1)
      /\ shards'[i] = s /\ \A j \in 0..(NShards - 1) \ {i} : shards'[j] = shards[j]
  BY <1>1, <1>2, <1>3
<1>5. TypeOK'
  BY <1>2, <1>4 DEF IInv, TypeOK
<1>6. Accounting'
  <2> SUFFICES ASSUME NEW j \in 0..(NShards - 1)
               PROVE  /\ \A x \in DOMAIN shards'[j].ent : ShardOf[x] = j
                      /\ Linked(shards'[j]) /\ Counted(shards'[j])
    BY <1>4 DEF Accounting, Present, Linked, Counted, Memory
  <2>1. CASE j = i
    BY <1>4, <2>1 DEF Good
  <2>2. CASE j # i
    <3>1. shards'[j] = shards[j]
      BY <1>4, <2>2
    <3>2. Good(j, shards[j])
      BY GoodShards
    <3> QED
      BY <3>1, <3>2 DEF Good
  <2> QED
    BY <2>1, <2>2
<1>7. NoResurrection'
  <2> SUFFICES ASSUME NEW x \in m PROVE x \notin DOMAIN shards'[ShardOf[x]].ent
    BY <1>2 DEF NoResurrection, Present
  <2>1. x \in Keys /\ ShardOf[x] \in 0..(NShards - 1)
    BY <1>1
  <2>2. x # k => x \notin DOMAIN shards[ShardOf[x]].ent
    BY DEF IInv, NoResurrection, Present
  <2>3. CASE ShardOf[x] = i
    BY <1>4, <2>2, <2>3 DEF Shard
  <2>4. CASE ShardOf[x] # i
    <3>1. x # k /\ shards'[ShardOf[x]] = shards[ShardOf[x]]
      BY <1>4, <2>1, <2>4
    <3> QED
      BY <2>2, <3>1
  <2> QED
    BY <2>3, <2>4
<1> QED
  BY <1>5, <1>6, <1>7 DEF IInv

\* After the lookup an entry that is there was not reported absent.
LEMMA LookedUp ==
  ASSUME IInv, NEW k \in Keys, NEW now, NEW s, s = Reap(Shard(k), k, now)
  PROVE  /\ Good(ShardOf[k], Shard(k)) /\ Good(ShardOf[k], s)
         /\ DOMAIN s.ent \subseteq DOMAIN Shard(k).ent
         /\ InChain(s, k) <=> k \in DOMAIN s.ent
         /\ k \in DOMAIN Shard(k).ent => k \notin missing
         /\ missing \in SUBSET Keys /\ missing \cup {k} \in SUBSET Keys
<1>1. Good(ShardOf[k], Shard(k))
  BY GoodShards, SharedAssumption DEF Shard
<1>2. Good(ShardOf[k], s) /\ DOMAIN s.ent \subseteq DOMAIN Shard(k).ent
  BY <1>1, ReapFacts
<1>3. InChain(s, k) <=> k \in DOMAIN s.ent
  BY <1>2, LookupFacts
<1>4. k \in DOMAIN Shard(k).ent => k \notin missing
  BY DEF IInv, NoResurrection, Present, Shard
<1>5. missing \in SUBSET Keys
  BY DEF IInv, TypeOK
<1> QED
  BY <1>1, <1>2, <1>3, <1>4, <1>5

LEMMA GetStep == ASSUME IInv, NEW k \in Keys, NEW now, Get(k, now) PROVE IInv'
<1> DEFINE s == Reap(Shard(k), k, now)
<1>1. /\ Good(ShardOf[k], s) /\ DOMAIN s.ent \subseteq DOMAIN Shard(k).ent
      /\ InChain(s, k) <=> k \in DOMAIN s.ent
      /\ k \in DOMAIN Shard(k).ent => k \notin missing
      /\ missing \in SUBSET Keys /\ missing \cup {k} \in SUBSET Keys
  BY LookedUp
<1>2. IF InChain(s, k) THEN Done(k, Touch(s, k), missing) ELSE Done(k, s, missing \cup {k})
  BY DEF Get
<1> HIDE DEF s
<1>3. CASE InChain(s, k)
  <2>1. Good(ShardOf[k], Touch(s, k)) /\ Touch(s, k).ent = s.ent
    BY <1>1, <1>3, TouchFacts
  <2> QED
    BY <1>1, <1>2, <1>3, <2>1, DoneStep
<1>4. CASE ~InChain(s, k)
  BY <1>1, <1>2, <1>4, DoneStep
<1> QED
  BY <1>3, <1>4

LEMMA DeleteStep == ASSUME IInv, NEW k \in Keys, NEW now, Delete(k, now) PROVE IInv'
<1> DEFINE s == Reap(Shard(k), k, now)
           t == IF InChain(s, k) THEN Drop(s, {k}) ELSE s
<1>1. /\ Good(ShardOf[k], s) /\ DOMAIN s.ent \subseteq DOMAIN Shard(k).ent
      /\ InChain(s, k) <=> k \in DOMAIN s.ent
      /\ missing \in SUBSET Keys /\ missing \cup {k} \in SUBSET Keys
  BY LookedUp
<1>2. Done(k, t, missing \cup {k})
  BY DEF Delete
<1> HIDE DEF s
<1>3. Good(ShardOf[k], t) /\ DOMAIN t.ent \subseteq DOMAIN Shard(k).ent /\ k \notin DOMAIN t.ent
  <2>1. CASE InChain(s, k)
    <3>1. {k} \in SUBSET DOMAIN s.ent
      BY <1>1, <2>1
    <3>2. Good(ShardOf[k], Drop(s, {k})) /\ DOMAIN Drop(s, {k}).ent = DOMAIN s.ent \ {k}
      BY <1>1, <3>1, DropFacts
    <3> QED
      BY <1>1, <2>1, <3>2
  <2>2. CASE ~InChain(s, k)
    BY <1>1, <2>2
  <2> QED
    BY <2>1, <2>2
<1> HIDE DEF t
<1> QED
  BY <1>1, <1>2, <1>3, DoneStep

LEMMA ExpireStep == ASSUME IInv, NEW k \in Keys, NEW now \in Nat, Expire(k, now) PROVE IInv'
<1> DEFINE s == Reap(Shard(k), k, now)
<1>1. /\ Good(ShardOf[k], s) /\ DOMAIN s.ent \subseteq DOMAIN Shard(k).ent
      /\ InChain(s, k) <=> k \in DOMAIN s.ent
      /\ k \in DOMAIN Shard(k).ent => k \notin missing
      /\ missing \in SUBSET Keys /\ missing \cup {k} \in SUBSET Keys
  BY LookedUp
<1>2. PICK ttl \in TTLs :
        IF InChain(s, k) THEN Done(k, [s EXCEPT !.ent[k].expire = Expiry(now, ttl)], missing)
        ELSE Done(k, s, missing \cup {k})
  BY DEF Expire
<1> HIDE DEF s
<1>3. CASE InChain(s, k)
  <2> DEFINE x == Expiry(now, ttl)
             t == [s EXCEPT !.ent[k].expire = x]
  <2>1. x \in Nat
    BY SharedAssumption DEF Expiry
  <2> HIDE DEF x
  <2>2. Good(ShardOf[k], t) /\ DOMAIN t.ent = DOMAIN s.ent
    BY <1>1, <1>3, <2>1, ExpireFacts
  <2>3. Done(k, t, missing)
    BY <1>2, <1>3 DEF x
  <2> HIDE DEF t
  <2> QED
    BY <1>1, <1>3, <2>2, <2>3, DoneStep
<1>4. CASE ~InChain(s, k)
  BY <1>1, <1>2, <1>4, DoneStep
<1> QED
  BY <1>3, <1>4

LEMMA TtlStep == ASSUME IInv, NEW k \in Keys, NEW now, Ttl(k, now) PROVE IInv'
<1> DEFINE s == Reap(Shard(k), k, now)
<1>1. /\ Good(ShardOf[k], s) /\ DOMAIN s.ent \subseteq DOMAIN Shard(k).ent
      /\ InChain(s, k) <=> k \in DOMAIN s.ent
      /\ k \in DOMAIN Shard(k).ent => k \notin missing
      /\ missing \in SUBSET Keys /\ missing \cup {k} \in SUBSET Keys
  BY LookedUp
<1>2. Done(k, s, IF InChain(s, k) THEN missing ELSE missing \cup {k})
  BY DEF Ttl
<1> HIDE DEF s
<1>3. CASE InChain(s, k)
  BY <1>1, <1>2, <1>3, DoneStep
<1>4. CASE ~InChain(s, k)
  BY <1>1, <1>2, <1>4, DoneStep
<1> QED
  BY <1>3, <1>4

\* An insertion of a key that is not there.
LEMMA InsertStep ==
  ASSUME IInv, NEW k \in Keys, NEW s, Good(ShardOf[k], s), NEW m, m \in SUBSET Keys,
         k \notin DOMAIN s.ent, DOMAIN s.ent \subseteq DOMAIN Shard(k).ent,
         \A j \in m : j \in missing \/ j = k,
         NEW e \in Entry, Need(k, e.len) <= Budget, NEW r \in Insert(s, k, e),
         Done(k, r[1], IF r[2] THEN m \ {k} ELSE m)
  PROVE  IInv'
<1> DEFINE t == r[1]
           n == IF r[2] THEN m \ {k} ELSE m
<1>1. /\ Good(ShardOf[k], t)
      /\ DOMAIN t.ent \subseteq DOMAIN s.ent \cup (IF r[2] THEN {k} ELSE {})
  BY InsertFacts
<1>2. /\ n \in SUBSET Keys /\ \A j \in n : j \in missing \/ j = k
      /\ DOMAIN t.ent \subseteq DOMAIN Shard(k).ent \cup {k}
      /\ k \in n => k \notin DOMAIN t.ent
  BY <1>1
<1>3. Done(k, t, n)
  OBVIOUS
<1> HIDE DEF t, n
<1> QED
  BY <1>1, <1>2, <1>3, DoneStep

LEMMA DoSetStep ==
  ASSUME IInv, NEW k \in Keys, NEW now, NEW mode, NEW e \in Entry, DoSet(k, now, mode, e)
  PROVE  IInv'
<1> DEFINE s == Reap(Shard(k), k, now)
           found == InChain(s, k)
           base == IF found THEN Drop(s, {k}) ELSE s
           m == IF found THEN missing ELSE missing \cup {k}
           stop == (mode = "add" /\ found) \/ (mode = "replace" /\ ~found)
<1>1. /\ Good(ShardOf[k], Shard(k)) /\ Good(ShardOf[k], s)
      /\ DOMAIN s.ent \subseteq DOMAIN Shard(k).ent
      /\ found <=> k \in DOMAIN s.ent
      /\ k \in DOMAIN Shard(k).ent => k \notin missing
      /\ missing \in SUBSET Keys /\ missing \cup {k} \in SUBSET Keys
  BY LookedUp
<1>2. IF Need(k, e.len) > Budget THEN Done(k, Shard(k), missing)
      ELSE IF stop THEN Done(k, s, m)
      ELSE \E r \in Insert(base, k, e) : Done(k, r[1], IF r[2] THEN m \ {k} ELSE m)
  BY DEF DoSet
<1>3. /\ Good(ShardOf[k], base) /\ k \notin DOMAIN base.ent
      /\ DOMAIN base.ent \subseteq DOMAIN Shard(k).ent
  <2> HIDE DEF s
  <2>1. CASE found
    <3>1. {k} \in SUBSET DOMAIN s.ent
      BY <1>1, <2>1
    <3>2. Good(ShardOf[k], Drop(s, {k})) /\ DOMAIN Drop(s, {k}).ent = DOMAIN s.ent \ {k}
      BY <1>1, <3>1, DropFacts
    <3> QED
      BY <1>1, <2>1, <3>2
  <2>2. CASE ~found
    BY <1>1, <2>2
  <2> QED
    BY <2>1, <2>2
<1>4. /\ m \in SUBSET Keys /\ \A j \in m : j \in missing \/ j = k
      /\ k \in m => k \notin DOMAIN s.ent
  BY <1>1
<1> HIDE DEF s, m, base, stop
<1>5. CASE Need(k, e.len) > Budget
  <2> DEFINE t == Shard(k)
  <2>1. Done(k, t, missing)
    BY <1>2, <1>5
  <2>2. DOMAIN t.ent \subseteq DOMAIN Shard(k).ent \cup {k}
    OBVIOUS
  <2>3. Good(ShardOf[k], t) /\ (k \in missing => k \notin DOMAIN t.ent)
    BY <1>1
  <2> HIDE DEF t
  <2> QED
    BY <1>1, <2>1, <2>2, <2>3, DoneStep
<1>6. CASE ~(Need(k, e.len) > Budget) /\ stop
  <2>1. Done(k, s, m)
    BY <1>2, <1>6
  <2> QED
    BY <1>1, <1>4, <2>1, DoneStep
<1>7. CASE ~(Need(k, e.len) > Budget) /\ ~stop
  <2>1. PICK r \in Insert(base, k, e) : Done(k, r[1], IF r[2] THEN m \ {k} ELSE m)
    BY <1>2, <1>7
  <2>2. Need(k, e.len) <= Budget
    BY <1>7, SharedAssumption DEF Entry, Need
  <2> QED
    BY <1>3, <1>4, <2>1, <2>2, InsertStep
<1> QED
  BY <1>5, <1>6, <1>7

LEMMA SetStep == ASSUME IInv, NEW k \in Keys, NEW now \in Nat, Set(k, now) PROVE IInv'
<1>1. PICK mode \in {"set", "add", "replace"}, ttl \in TTLs :
        \/ DoSet(k, now, mode, [len |-> 0, num |-> TRUE, expire |-> Expiry(now, ttl)])
        \/ \E l \in Lengths[k] :
             DoSet(k, now, mode, [len |-> l, num |-> FALSE, expire |-> Expiry(now, ttl)])
  BY DEF Set
<1> DEFINE x == Expiry(now, ttl)
<1>2. x \in Nat
  BY SharedAssumption DEF Expiry
<1> HIDE DEF x
<1>3. CASE DoSet(k, now, mode, [len |-> 0, num |-> TRUE, expire |-> x])
  <2>1. [len |-> 0, num |-> TRUE, expire |-> x] \in Entry
    BY <1>2 DEF Entry
  <2> QED
    BY <1>3, <2>1, DoSetStep
<1>4. ASSUME NEW l \in Lengths[k], DoSet(k, now, mode, [len |-> l, num |-> FALSE, expire |-> x])
      PROVE IInv'
  <2>1. [len |-> l, num |-> FALSE, expire |-> x] \in Entry
    BY <1>2, SharedAssumption DEF Entry
  <2> QED
    BY <1>4, <2>1, DoSetStep
<1> QED
  BY <1>1, <1>3, <1>4 DEF x

LEMMA IncrStep == ASSUME IInv, NEW k \in Keys, NEW now \in Nat, Incr(k, now) PROVE IInv'
<1> DEFINE s == Reap(Shard(k), k, now)
           m == missing \cup {k}
           Num(ttl) == [len |-> 0, num |-> TRUE, expire |-> Expiry(now, ttl)]
<1>1. /\ Good(ShardOf[k], s) /\ DOMAIN s.ent \subseteq DOMAIN Shard(k).ent
      /\ InChain(s, k) <=> k \in DOMAIN s.ent
      /\ k \in DOMAIN Shard(k).ent => k \notin missing
      /\ missing \in SUBSET Keys /\ m \in SUBSET Keys
  BY LookedUp
<1>2. IF InChain(s, k) THEN Done(k, IF s.ent[k].num THEN Touch(s, k) ELSE s, missing)
      ELSE IF Need(k, 0) > Budget THEN Done(k, s, m)
      ELSE \E ttl \in TTLs : \E r \in Insert(s, k, Num(ttl)) :
             Done(k, r[1], IF r[2] THEN m \ {k} ELSE m)
  BY DEF Incr
<1>3. \A j \in m : j \in missing \/ j = k
  OBVIOUS
<1> HIDE DEF s, m
<1>4. CASE InChain(s, k)
  <2> DEFINE t == IF s.ent[k].num THEN Touch(s, k) ELSE s
  <2>1. Good(ShardOf[k], Touch(s, k)) /\ Touch(s, k).ent = s.ent
    BY <1>1, <1>4, TouchFacts
  <2>2. Good(ShardOf[k], t) /\ t.ent = s.ent
    BY <1>1, <2>1
  <2>3. Done(k, t, missing)
    BY <1>2, <1>4
  <2> HIDE DEF t
  <2> QED
    BY <1>1, <1>4, <2>2, <2>3, DoneStep
<1>5. CASE ~InChain(s, k) /\ Need(k, 0) > Budget
  <2>1. Done(k, s, m)
    BY <1>2, <1>5
  <2>2. k \notin DOMAIN s.ent
    BY <1>1, <1>5
  <2> QED
    BY <1>1, <1>3, <2>1, <2>2, DoneStep
<1>6. CASE ~InChain(s, k) /\ ~(Need(k, 0) > Budget)
  <2>1. PICK ttl \in TTLs : \E r \in Insert(s, k, Num(ttl)) :
               Done(k, r[1], IF r[2] THEN m \ {k} ELSE m)
    BY <1>2, <1>6
  <2> DEFINE e == Num(ttl)
  <2>2. e \in Entry /\ Need(k, e.len) <= Budget
    <3>1. Expiry(now, ttl) \in Nat
      BY SharedAssumption DEF Expiry
    <3> QED
      BY <1>6, <3>1, SharedAssumption DEF Entry, Need
  <2> HIDE DEF e
  <2>3. PICK r \in Insert(s, k, e) : Done(k, r[1], IF r[2] THEN m \ {k} ELSE m)
    BY <2>1 DEF e
  <2> QED
    BY <1>1, <1>3, <1>6, <2>2, <2>3, InsertStep
<1> QED
  BY <1>4, <1>5, <1>6

LEMMA CallStep == IInv /\ Call => IInv'
<1> SUFFICES ASSUME IInv, Call PROVE IInv'
  OBVIOUS
<1>1. PICK k \in Keys, now \in 1..clock :
        \/ Get(k, now) \/ Set(k, now) \/ Delete(k, now)
        \/ Incr(k, now) \/ Expire(k, now) \/ Ttl(k, now)
  BY DEF Call
<1>2. now \in Nat
  BY DEF IInv, TypeOK
<1> QED
  BY <1>1, <1>2, GetStep, SetStep, DeleteStep, IncrStep, ExpireStep, TtlStep
-----------------------------------------------------------------------------
(* The main thread.                                                         *)

LEMMA SameShards ==
  ASSUME IInv, shards' = shards
  PROVE  Accounting'
<1>1. DOMAIN shards' = 0..(NShards - 1) /\ \A i \in 0..(NShards - 1) : Good(i, shards'[i])
  BY GoodShards DEF IInv, TypeOK
<1>2. ASSUME NEW i \in DOMAIN shards'
      PROVE  (\A k \in Present(i) : ShardOf[k] = i)' /\ Linked(shards[i])' /\ Counted(shards[i])'
  <2>1. Good(i, shards'[i])
    BY <1>1
  <2>2. Linked(shards'[i]) /\ Counted(shards'[i]) /\ \A k \in DOMAIN shards'[i].ent : ShardOf[k] = i
    BY <2>1 DEF Good
  <2>3. Linked(shards[i])'
    BY <2>2 DEF Linked
  <2>4. Counted(shards[i])'
    BY <2>2 DEF Counted, Memory
  <2> QED
    BY <2>2, <2>3, <2>4 DEF Present
<1> QED
  BY <1>2 DEF Accounting

LEMMA SweepBeginStep == IInv /\ SweepBegin => IInv'
<1> SUFFICES ASSUME IInv, SweepBegin PROVE IInv'
  OBVIOUS
<1>1. /\ shards' = shards /\ clock' = clock /\ cursor' = cursor /\ missing' = missing
      /\ sweep' = [Idle EXCEPT !.running = TRUE, !.si = cursor.si, !.bi = cursor.bi, !.now = clock]
  BY DEF SweepBegin
<1>2. 0 \in 0..(NShards - 1) /\ 0 \in 0..(SweepBudget - 1) /\ clock \in Nat
  BY SharedAssumption DEF IInv, TypeOK
<1>3. cursor.si \in 0..(NShards - 1) /\ cursor.bi \in Nat
  BY DEF IInv, TypeOK
<1>4. sweep' = [running |-> TRUE, si |-> cursor.si, bi |-> cursor.bi, visited |-> 0,
                scanned |-> 0, now |-> clock]
  BY <1>1 DEF Idle
<1>5. TypeOK'
  <2>1. sweep' \in [running : BOOLEAN, si : 0..(NShards - 1), bi : Nat, visited : Nat,
                    scanned : 0..(SweepBudget - 1), now : Nat]
    BY <1>2, <1>3, <1>4
  <2> QED
    BY <1>1, <2>1 DEF IInv, TypeOK
<1>6. Accounting'
  BY <1>1, SameShards
<1>7. NoResurrection'
  BY <1>1 DEF IInv, NoResurrection, Present
<1> QED
  BY <1>5, <1>6, <1>7 DEF IInv

\* The sweep drops entries of one shard.
LEMMA DropStep ==
  ASSUME IInv, NEW i \in 0..(NShards - 1), NEW K \in SUBSET DOMAIN shards[i].ent,
         shards' = [shards EXCEPT ![i] = Drop(shards[i], K)], missing' = missing
  PROVE  /\ shards' \in [0..(NShards - 1) -> ShardRecord]
         /\ Accounting' /\ NoResurrection'
<1> DEFINE t == Drop(shards[i], K)
<1>1. Good(i, shards[i]) /\ shards \in [0..(NShards - 1) -> ShardRecord]
  BY GoodShards DEF IInv, TypeOK
<1>2. Good(i, t) /\ DOMAIN t.ent \subseteq DOMAIN shards[i].ent
  BY <1>1, DropFacts
<1>3. t \in ShardRecord
  BY <1>2 DEF Good
<1> HIDE DEF t
<1>4. /\ shards' \in [0..(NShards - 1) -> ShardRecord] /\ DOMAIN shards' = 0..(NShards - 1)
      /\ shards'[i] = t /\ \A j \in 0..(NShards - 1) \ {i} : shards'[j] = shards[j]
  BY <1>1, <1>3 DEF t
<1>5. \A j \in 0..(NShards - 1) : Good(j, shards'[j])
  <2> SUFFICES ASSUME NEW j \in 0..(NShards - 1) PROVE Good(j, shards'[j])
    OBVIOUS
  <2>1. CASE j = i
    BY <1>2, <1>4, <2>1
  <2>2. CASE j # i
    BY <1>4, <2>2, GoodShards
  <2> QED
    BY <2>1, <2>2
<1>6. Accounting'
  BY <1>4, <1>5 DEF Accounting, Present, Good, Linked, Counted, Memory
<1>7. NoResurrection'
  <2> SUFFICES ASSUME NEW x \in missing PROVE x \notin DOMAIN shards'[ShardOf[x]].ent
    BY DEF NoResurrection, Present
  <2>1. ShardOf[x] \in 0..(NShards - 1)
    BY SharedAssumption DEF IInv, TypeOK
  <2>2. x \notin DOMAIN shards[ShardOf[x]].ent
    BY DEF IInv, NoResurrection, Present
  <2> QED
    BY <1>2, <1>4, <2>1, <2>2
<1> QED
  BY <1>4, <1>6, <1>7

LEMMA SweepShardStep == IInv /\ SweepShard => IInv'
<1> SUFFICES ASSUME IInv, SweepShard PROVE IInv'
  OBVIOUS
<1> DEFINE i == sweep.si
           s == shards[i]
           b == IF sweep.bi >= s.nbuckets THEN 0 ELSE sweep.bi
           chain == Chains(s, b)
           left == SweepBudget - sweep.scanned
           seen == SubSeq(chain, 1, IF Len(chain) < left THEN Len(chain) ELSE left)
           next == (i + 1) % NShards
           done == sweep.visited + 1 = NShards
           K == {k \in Range(seen) : Expired(s.ent[k], sweep.now)}
<1>1. /\ i \in 0..(NShards - 1) /\ sweep.bi \in Nat /\ sweep.visited \in Nat
      /\ sweep.scanned \in 0..(SweepBudget - 1) /\ sweep.now \in Nat
      /\ sweep = [running |-> sweep.running, si |-> i, bi |-> sweep.bi, visited |-> sweep.visited,
                  scanned |-> sweep.scanned, now |-> sweep.now]
      /\ sweep.running = TRUE
      /\ cursor \in [si : 0..(NShards - 1), bi : Nat]
      /\ clock \in Nat \ {0} /\ missing \in SUBSET Keys
  BY DEF IInv, TypeOK, SweepShard
<1>2. /\ shards' = [shards EXCEPT ![i] = Drop(s, K)]
      /\ IF Len(chain) >= left
         THEN /\ cursor' = [si |-> i, bi |-> Hash[seen[left]] % s.nbuckets]
              /\ sweep' = Idle
         ELSE /\ cursor' = IF done THEN [si |-> next, bi |-> 0] ELSE cursor
              /\ sweep' = IF done THEN Idle
                          ELSE [sweep EXCEPT !.si = next, !.bi = 0, !.visited = @ + 1,
                                             !.scanned = @ + Len(seen)]
      /\ clock' = clock /\ missing' = missing
  BY DEF SweepShard
<1>3. /\ Good(i, s) /\ s.nbuckets \in Nat \ {0}
      /\ s.buckets \in [0..(s.nbuckets - 1) -> Seq(Keys)]
  BY <1>1, GoodShards, GoodFacts
<1>4. b \in 0..s.nbuckets
  BY <1>1, <1>3
<1> HIDE DEF b, s, i
<1>5. chain \in Seq(Keys) /\ Range(chain) \subseteq DOMAIN s.ent
  <2>1. /\ chain \in Seq(Keys)
        /\ \A k \in Range(chain) : \E j \in 0..(s.nbuckets - 1) : k \in Range(s.buckets[j])
    <3>1. s.nbuckets \in Nat
      BY <1>3
    <3> QED
      BY <1>3, <1>4, <3>1, ChainsFacts
  <2>2. \A j \in 0..(s.nbuckets - 1) : Range(s.buckets[j]) \subseteq DOMAIN s.ent
    BY <1>3 DEF Good, Linked
  <2> QED
    BY <2>1, <2>2
<1> HIDE DEF chain
<1>6. left \in Nat \ {0} /\ Len(chain) \in Nat /\ sweep.scanned + left = SweepBudget
  <2> DEFINE a == sweep.scanned
  <2>1. SweepBudget \in Nat \ {0} /\ a \in 0..(SweepBudget - 1)
    BY <1>1, SharedAssumption
  <2>2. Len(chain) \in Nat
    BY <1>5
  <2> HIDE DEF a
  <2>3. SweepBudget - a \in Nat \ {0} /\ a + (SweepBudget - a) = SweepBudget
    BY <2>1
  <2> QED
    BY <2>2, <2>3 DEF a
<1> HIDE DEF left
<1>7. /\ seen \in Seq(Keys) /\ Len(seen) = (IF Len(chain) < left THEN Len(chain) ELSE left)
      /\ \A j \in 1..Len(seen) : seen[j] = chain[j] /\ j \in 1..Len(chain)
  <2> DEFINE m == IF Len(chain) < left THEN Len(chain) ELSE left
  <2>1. m \in 0..Len(chain)
    BY <1>6
  <2>2. seen = SubSeq(chain, 1, m)
    OBVIOUS
  <2> HIDE DEF m, seen
  <2>3. seen \in Seq(Keys) /\ Len(seen) = m /\ \A j \in 1..m : seen[j] = chain[j]
    BY <1>5, <2>1, <2>2
  <2> QED
    BY <1>6, <2>1, <2>3 DEF m
<1> HIDE DEF seen
<1>8. K \in SUBSET DOMAIN s.ent
  <2>1. Range(seen) \subseteq Range(chain)
    BY <1>5, <1>7 DEF Range
  <2> QED
    BY <1>5, <2>1
<1> HIDE DEF K
<1>9. shards' \in [0..(NShards - 1) -> ShardRecord] /\ Accounting' /\ NoResurrection'
  BY <1>1, <1>2, <1>8, DropStep DEF s
<1>10. 0 \in 0..(NShards - 1) /\ 0 \in 0..(SweepBudget - 1) /\ next \in 0..(NShards - 1)
  <2>1. NShards \in Nat \ {0} /\ i + 1 \in Nat /\ SweepBudget \in Nat \ {0}
    BY <1>1, SharedAssumption
  <2> QED
    BY <2>1, DivMod
<1> HIDE DEF next, done
<1>11. Idle \in [running : BOOLEAN, si : 0..(NShards - 1), bi : Nat, visited : Nat,
                 scanned : 0..(SweepBudget - 1), now : Nat]
  BY <1>10 DEF Idle
<1>12. CASE Len(chain) >= left
  <2>1. cursor' = [si |-> i, bi |-> Hash[seen[left]] % s.nbuckets] /\ sweep' = Idle
    BY <1>2, <1>12
  <2>2. seen[left] \in Keys
    BY <1>6, <1>7, <1>12
  <2>3. Hash[seen[left]] % s.nbuckets \in Nat
    <3> DEFINE h == Hash[seen[left]]
               n == s.nbuckets
    <3>1. h \in Nat /\ n \in Nat \ {0}
      BY <1>3, <2>2, SharedAssumption
    <3> HIDE DEF h, n
    <3>2. h % n \in 0..(n - 1)
      BY <3>1, DivMod
    <3>3. h % n \in Nat
      BY <3>1, <3>2
    <3> QED
      BY <3>3 DEF h, n
  <2>4. cursor' \in [si : 0..(NShards - 1), bi : Nat]
    BY <1>1, <2>1, <2>3
  <2> QED
    BY <1>1, <1>2, <1>9, <1>11, <2>1, <2>4 DEF IInv, TypeOK
<1>13. CASE ~(Len(chain) >= left)
  <2>1. /\ cursor' = IF done THEN [si |-> next, bi |-> 0] ELSE cursor
        /\ sweep' = IF done THEN Idle
                    ELSE [sweep EXCEPT !.si = next, !.bi = 0, !.visited = @ + 1,
                                       !.scanned = @ + Len(seen)]
    BY <1>2, <1>13
  <2>2. cursor' \in [si : 0..(NShards - 1), bi : Nat]
    BY <1>1, <1>10, <2>1
  <2>3. CASE done
    <3>1. sweep' = Idle
      BY <2>1, <2>3
    <3> QED
      BY <1>1, <1>2, <1>9, <1>11, <2>2, <3>1 DEF IInv, TypeOK
  <2>4. CASE ~done
    <3>1. sweep.scanned + Len(seen) \in 0..(SweepBudget - 1)
      <4>1. Len(chain) < left /\ SweepBudget \in Nat
        BY <1>6, <1>13, SharedAssumption
      <4>2. Len(seen) = Len(chain)
        BY <1>7, <4>1
      <4> DEFINE a == sweep.scanned
                 l == Len(chain)
      <4>3. a \in Nat /\ l \in Nat /\ left \in Nat /\ l < left /\ a + left = SweepBudget
        BY <1>1, <1>6, <4>1
      <4> HIDE DEF a, l
      <4>4. a + l \in 0..(SweepBudget - 1)
        BY <4>1, <4>3
      <4> QED
        BY <4>2, <4>4 DEF a, l
    <3>2. sweep' = [running |-> TRUE, si |-> next, bi |-> 0, visited |-> sweep.visited + 1,
                    scanned |-> sweep.scanned + Len(seen), now |-> sweep.now]
      BY <1>1, <2>1, <2>4
    <3>3. sweep' \in [running : BOOLEAN, si : 0..(NShards - 1), bi : Nat, visited : Nat,
                      scanned : 0..(SweepBudget - 1), now : Nat]
      BY <1>1, <1>10, <3>1, <3>2
    <3> QED
      BY <1>1, <1>2, <1>9, <2>2, <3>3 DEF IInv, TypeOK
  <2> QED
    BY <2>3, <2>4
<1> QED
  BY <1>12, <1>13
-----------------------------------------------------------------------------
(* The specification.                                                       *)

LEMMA InitIInv == Init => IInv
<1> SUFFICES ASSUME Init PROVE IInv
  OBVIOUS
<1> DEFINE B == [b \in 0..(InitBuckets - 1) |-> <<>>]
           s == [buckets |-> B, nbuckets |-> InitBuckets, count |-> 0, lru |-> <<>>, used |-> 0,
                 ent |-> <<>>, lost |-> 0]
<1>1. /\ NShards \in Nat \ {0} /\ InitBuckets \in Nat \ {0} /\ Budget \in Nat
      /\ SweepBudget \in Nat \ {0}
  BY SharedAssumption
<1>2. shards = [i \in 0..(NShards - 1) |-> s]
  BY DEF Init
<1>3. DOMAIN s.ent = {} /\ s.ent \in [{} -> Entry]
  OBVIOUS
<1>4. B \in [0..(InitBuckets - 1) -> Seq(Keys)] /\ DOMAIN B = 0..(InitBuckets - 1)
  OBVIOUS
<1>5. /\ s.buckets = B /\ s.nbuckets = InitBuckets /\ s.lru = <<>> /\ s.count = 0 /\ s.used = 0
      /\ s.lost = 0
  OBVIOUS
<1>6. s \in ShardRecord
  <2>1. B \in UNION {[0..m -> Seq(Keys)] : m \in Nat}
    <3>1. InitBuckets - 1 \in Nat
      BY <1>1
    <3> QED
      BY <1>4, <3>1
  <2>2. s.ent \in UNION {[L -> Entry] : L \in SUBSET Keys}
    BY <1>3
  <2>3. <<>> \in Seq(Keys)
    OBVIOUS
  <2> HIDE DEF B
  <2> QED
    BY <1>1, <2>1, <2>2, <2>3 DEF ShardRecord
<1>7. Linked(s)
  <2>1. IsInjective(<<>>) /\ Range(<<>>) = {}
    BY DEF IsInjective, Range
  <2>2. \A b \in DOMAIN B : B[b] = <<>>
    OBVIOUS
  <2> HIDE DEF B
  <2> QED
    BY <1>3, <1>4, <1>5, <2>1, <2>2 DEF Linked
<1>8. Counted(s)
  <2>1. Cardinality({}) = 0
    BY FS_EmptySet
  <2>2. Memory(s, {}) = 0
    BY MemoryNone
  <2> QED
    BY <1>1, <1>3, <1>5, <2>1, <2>2 DEF Counted
<1> HIDE DEF s
<1>9. TypeOK
  <2>1. shards \in [0..(NShards - 1) -> ShardRecord]
    BY <1>2, <1>6
  <2>2. 0 \in 0..(NShards - 1) /\ 0 \in 0..(SweepBudget - 1)
    BY <1>1
  <2>3. cursor \in [si : 0..(NShards - 1), bi : Nat]
    BY <2>2 DEF Init
  <2>4. sweep \in [running : BOOLEAN, si : 0..(NShards - 1), bi : Nat, visited : Nat,
                   scanned : 0..(SweepBudget - 1), now : Nat]
    BY <2>2 DEF Init, Idle
  <2>5. clock \in Nat \ {0} /\ missing \in SUBSET Keys
    BY DEF Init
  <2> QED
    BY <2>1, <2>3, <2>4, <2>5 DEF TypeOK
<1>10. Accounting
  BY <1>2, <1>3, <1>7, <1>8 DEF Accounting, Present
<1>11. NoResurrection
  BY DEF Init, NoResurrection
<1> QED
  BY <1>9, <1>10, <1>11 DEF IInv

LEMMA NextIInv == IInv /\ [Next]_vars => IInv'
<1> SUFFICES ASSUME IInv, [Next]_vars PROVE IInv'
  OBVIOUS
<1>1. CASE Call
  BY <1>1, CallStep
<1>2. CASE SweepBegin
  BY <1>2, SweepBeginStep
<1>3. CASE SweepShard
  BY <1>3, SweepShardStep
<1>4. CASE Tick \/ UNCHANGED vars
  <2>1. /\ shards' = shards /\ cursor' = cursor /\ sweep' = sweep /\ missing' = missing
        /\ clock' \in Nat \ {0}
    BY <1>4 DEF Tick, vars, IInv, TypeOK
  <2>2. TypeOK'
    BY <2>1 DEF IInv, TypeOK
  <2>3. Accounting'
    BY <2>1, SameShards
  <2>4. NoResurrection'
    BY <2>1 DEF IInv, NoResurrection, Present
  <2> QED
    BY <2>2, <2>3, <2>4 DEF IInv
<1> QED
  BY <1>1, <1>2, <1>3, <1>4 DEF Next

\* The inductive invariant: whatever xshared_get, do_set, xshared_delete,
\* xshared_incr, xshared_expire, xshared_ttl and sweep_expired do to the shards,
\* for every number of shards, keys and buckets, every length of keys and values,
\* budget and hash.
THEOREM SharedInvariant == Spec => []IInv
<1>1. Init => IInv
  BY InitIInv
<1>2. IInv /\ [Next]_vars => IInv'
  BY NextIInv
<1> QED
  BY <1>1, <1>2, PTL DEF Spec

\* entry_drop, evict_tail, shard_maybe_grow and the insertion of do_set and
\* xshared_incr keep every entry once in its chain and once in the LRU list,
\* count exact and the entries within budget_bytes.  used_bytes is their memory and
\* what is lost when vlen truncates the length of a string.
THEOREM SharedAccounting == Spec => []Accounting
<1>1. IInv => Accounting
  BY DEF IInv
<1> QED
  BY <1>1, SharedInvariant, PTL

\* After shard_lookup has reaped an expired entry for one thread, no thread finds
\* it again before an insertion, however old the clock reading of that thread is.
THEOREM SharedNoResurrection == Spec => []NoResurrection
<1>1. IInv => NoResurrection
  BY DEF IInv
<1> QED
  BY <1>1, SharedInvariant, PTL
=============================================================================
