---------------------------- MODULE XTimerProofs ----------------------------
(***************************************************************************)
(* TLAPS proofs about XTimer, for every wheel geometry and every set of    *)
(* nodes: which node is where, what it has been called for, and that the   *)
(* wheel comes to every timer in time.                                     *)
(***************************************************************************)
EXTENDS XTimer, FiniteSetTheorems, WellFoundedInduction, TLAPS

\* A non-empty set of natural numbers has a least element.
LEMMA LeastNat ==
  ASSUME NEW S \in SUBSET Nat, S # {}
  PROVE  \E n \in S : \A m \in S : n <= m
<1>1. PICK n \in S : \A m \in S : ~(<<m, n>> \in OpToRel(<, Nat))
  BY NatLessThanWellFounded, WFMin
<1>2. \A m \in S : ~(m < n)
  BY <1>1 DEF OpToRel
<1> QED
  BY <1>2
-----------------------------------------------------------------------------
(* The arithmetic of slots.                                                 *)

\* The remainder of a division is unique, and so is the quotient.
LEMMA DivUnique ==
  ASSUME NEW n \in Nat \ {0}, NEW x \in Int, NEW y \in Int, NEW r \in 0..(n - 1), NEW t \in 0..(n - 1),
         n * x + r = n * y + t
  PROVE  x = y /\ r = t
<1>a. ASSUME NEW a \in Int, NEW b \in Int, NEW p \in 0..(n - 1), NEW q \in 0..(n - 1),
             n * a + p = n * b + q, a > b
      PROVE  FALSE
  <2>1. n * (a - b) >= n
    <3> DEFINE d == a - b
    <3>1. d \in Nat /\ d >= 1
      BY <1>a
    <3> HIDE DEF d
    <3>2. n * d >= n
      BY <3>1
    <3> QED
      BY <3>2 DEF d
  <2>2. n * (a - b) = n * a - n * b
    OBVIOUS
  <2> QED
    BY <1>a, <2>1, <2>2
<1>1. ~(x > y)
  BY <1>a
<1>2. ~(y > x)
  BY <1>a
<1>3. x = y
  BY <1>1, <1>2
<1> QED
  BY <1>3

LEMMA DivMod ==
  ASSUME NEW n \in Nat \ {0}, NEW a \in Nat
  PROVE  a % n \in 0..(n - 1) /\ a \div n \in Nat /\ a = n * (a \div n) + (a % n)
<1>1. a % n \in 0..(n - 1) /\ a \div n \in Int /\ a = n * (a \div n) + (a % n)
  OBVIOUS
<1> DEFINE q == a \div n
           r == a % n
<1>2. q \in Int /\ r \in 0..(n - 1) /\ a = n * q + r
  BY <1>1
<1> HIDE DEF q, r
<1>3. ASSUME q < 0 PROVE FALSE
  <2> DEFINE d == 0 - q
  <2>1. d \in Nat /\ d >= 1 /\ q = 0 - d
    BY <1>2, <1>3
  <2> HIDE DEF d
  <2>2. n * d >= n /\ n * q = 0 - n * d
    BY <2>1
  <2> DEFINE e == n * d
  <2>3. e \in Nat /\ e >= n /\ a = (0 - e) + r
    BY <1>2, <2>1, <2>2
  <2> HIDE DEF e
  <2> QED
    BY <1>2, <2>3
<1>4. q \in Nat
  BY <1>2, <1>3
<1> QED
  BY <1>1, <1>4 DEF q

\* A multiple of n, divided by n.
LEMMA DivMultiple ==
  ASSUME NEW n \in Nat \ {0}, NEW q \in Nat
  PROVE  n * q \in Nat /\ (n * q) \div n = q /\ (n * q) % n = 0
<1> DEFINE a == n * q
           x == a \div n
           r == a % n
<1>1. a \in Nat
  OBVIOUS
<1>2. r \in 0..(n - 1) /\ x \in Nat /\ a = n * x + r
  <2> HIDE DEF a
  <2> QED
    BY <1>1, DivMod
<1>3. n * q + 0 = n * x + r /\ 0 \in 0..(n - 1)
  BY <1>2
<1> HIDE DEF x, r
<1>4. q = x /\ 0 = r
  <2>1. q \in Int /\ x \in Int
    BY <1>2
  <2> QED
    BY <1>2, <1>3, <2>1, DivUnique
<1> QED
  BY <1>1, <1>4 DEF x, r

LEMMA SizeType == \A l : Size(l) \in Nat \ {0}
  BY TimerAssumption DEF Size

\* f grows by the sizes of the levels below n.
Spans(n, f) ==
  f \in [0..n -> Nat \ {0}] /\ f[0] = 1 /\ \A l \in 1..n : f[l] = f[l - 1] * Size(l - 1)

LEMMA SpansExist == \A n \in Nat : \E f : Spans(n, f)
<1> DEFINE Bad == {n \in Nat : \A f : ~Spans(n, f)}
<1> SUFFICES ASSUME Bad # {} PROVE FALSE
  OBVIOUS
<1>1. PICK n \in Bad : \A m \in Bad : n <= m
  <2>1. Bad \in SUBSET Nat
    OBVIOUS
  <2> HIDE DEF Bad
  <2> QED
    BY <2>1, LeastNat
<1>2. n \in Nat /\ \A f : ~Spans(n, f)
  OBVIOUS
<1>3. CASE n = 0
  <2> DEFINE f == [l \in 0..0 |-> 1]
  <2>1. Spans(0, f)
    BY DEF Spans
  <2> QED
    BY <1>2, <1>3, <2>1
<1>4. CASE n # 0
  <2>1. n - 1 \in Nat /\ n - 1 \notin Bad
    <3>1. n - 1 \in Nat /\ ~(n <= n - 1)
      BY <1>2, <1>4
    <3> HIDE DEF Bad
    <3> QED
      BY <1>1, <3>1
  <2>2. PICK g : Spans(n - 1, g)
    BY <2>1
  <2> DEFINE f == [l \in 0..n |-> IF l = n THEN g[n - 1] * Size(n - 1) ELSE g[l]]
  <2>3. /\ g \in [0..(n - 1) -> Nat \ {0}] /\ g[0] = 1
        /\ \A l \in 1..(n - 1) : g[l] = g[l - 1] * Size(l - 1)
    BY <2>2 DEF Spans
  <2>4. g[n - 1] * Size(n - 1) \in Nat \ {0}
    <3> DEFINE a == g[n - 1]
               b == Size(n - 1)
    <3>1. a \in Nat \ {0} /\ b \in Nat \ {0}
      BY <2>1, <2>3, SizeType
    <3> HIDE DEF a, b
    <3>2. a * b \in Nat /\ a * b >= b
      BY <3>1
    <3>3. a * b \in Nat \ {0}
      BY <3>1, <3>2
    <3> QED
      BY <3>3 DEF a, b
  <2>5. f \in [0..n -> Nat \ {0}]
    BY <1>2, <1>4, <2>3, <2>4
  <2>6. f[n] = g[n - 1] * Size(n - 1) /\ \A l \in 0..(n - 1) : f[l] = g[l]
    BY <1>2, <1>4
  <2> HIDE DEF f
  <2>7. f[0] = 1
    BY <1>2, <1>4, <2>3, <2>6
  <2>8. \A l \in 1..n : f[l] = f[l - 1] * Size(l - 1)
    <3> SUFFICES ASSUME NEW l \in 1..n PROVE f[l] = f[l - 1] * Size(l - 1)
      OBVIOUS
    <3>1. CASE l = n
      BY <1>2, <1>4, <2>6, <3>1
    <3>2. CASE l # n
      <4>1. l \in 1..(n - 1) /\ l \in 0..(n - 1) /\ l - 1 \in 0..(n - 1)
        BY <1>2, <3>2
      <4> QED
        BY <2>3, <2>6, <4>1
    <3> QED
      BY <3>1, <3>2
  <2>9. Spans(n, f)
    BY <2>5, <2>7, <2>8 DEF Spans
  <2> QED
    BY <1>2, <2>9
<1> QED
  BY <1>3, <1>4

\* What Span is.
LEMMA SpanFacts ==
  /\ \A l \in 0..Levels : Span[l] \in Nat \ {0}
  /\ Span[0] = 1
  /\ \A l \in 1..Levels : Span[l] = Span[l - 1] * Size(l - 1)
<1> DEFINE Step(g) == [l \in 0..Levels |-> IF l = 0 THEN 1 ELSE g[l - 1] * Size(l - 1)]
<1>1. Levels \in Nat
  BY TimerAssumption
<1>2. \E g : g = Step(g)
  <2>1. PICK f : Spans(Levels, f)
    BY <1>1, SpansExist
  <2>2. /\ f = [l \in 0..Levels |-> f[l]] /\ f[0] = 1
        /\ \A l \in 1..Levels : f[l] = f[l - 1] * Size(l - 1)
    BY <2>1 DEF Spans
  <2>3. \A l \in 0..Levels : f[l] = IF l = 0 THEN 1 ELSE f[l - 1] * Size(l - 1)
    <3> SUFFICES ASSUME NEW l \in 0..Levels
                 PROVE  f[l] = IF l = 0 THEN 1 ELSE f[l - 1] * Size(l - 1)
      OBVIOUS
    <3>1. l = 0 \/ l \in 1..Levels
      BY <1>1
    <3> QED
      BY <2>2, <3>1
  <2>4. f = Step(f)
    BY <2>2, <2>3
  <2> QED
    BY <2>4
<1>3. Span = CHOOSE g : g = Step(g)
  BY DEF Span
<1>4. Span = Step(Span)
  <2> HIDE DEF Step
  <2> QED
    BY <1>2, <1>3
<1>5. Span[0] = 1 /\ \A l \in 1..Levels : Span[l] = Span[l - 1] * Size(l - 1)
  <2>1. 0 \in 0..Levels /\ \A l \in 1..Levels : l \in 0..Levels /\ l # 0
    BY <1>1
  <2>2. \A l \in 0..Levels : Span[l] = IF l = 0 THEN 1 ELSE Span[l - 1] * Size(l - 1)
    BY <1>4
  <2> QED
    BY <2>1, <2>2
<1>6. \A l \in 0..Levels : Span[l] \in Nat \ {0}
  <2> DEFINE Bad == {l \in 0..Levels : Span[l] \notin Nat \ {0}}
  <2> SUFFICES ASSUME Bad # {} PROVE FALSE
    OBVIOUS
  <2>1. PICK l \in Bad : \A m \in Bad : l <= m
    <3>1. Bad \in SUBSET Nat
      OBVIOUS
    <3> HIDE DEF Bad
    <3> QED
      BY <3>1, LeastNat
  <2>2. l \in 0..Levels /\ Span[l] \notin Nat \ {0}
    OBVIOUS
  <2>3. l \in 1..Levels /\ l - 1 \in 0..Levels /\ ~(l <= l - 1)
    BY <1>1, <1>5, <2>2
  <2>4. Span[l - 1] \in Nat \ {0}
    <3>1. l - 1 \notin Bad
      <4> HIDE DEF Bad
      <4> QED
        BY <2>1, <2>3
    <3> QED
      BY <2>3, <3>1
  <2> DEFINE a == Span[l - 1]
             b == Size(l - 1)
  <2>5. Span[l] = a * b
    BY <1>5, <2>3
  <2>6. a \in Nat \ {0} /\ b \in Nat \ {0}
    BY <2>4, SizeType
  <2> HIDE DEF a, b
  <2>7. a * b \in Nat /\ a * b >= b
    BY <2>6
  <2> QED
    BY <2>2, <2>5, <2>6, <2>7
<1> QED
  BY <1>5, <1>6

\* A slot of a higher level stands for whole turns of the lower ones.
LEMMA SpanMultiple ==
  ASSUME NEW m \in Nat, NEW l \in 0..Levels, m < l
  PROVE  \E c \in Nat : Span[l] = Span[m] * (Size(m) * c)
<1> DEFINE Whole(k) == \E c \in Nat : Span[k] = Span[m] * (Size(m) * c)
           Bad == {k \in (m + 1)..Levels : ~Whole(k)}
<1>1. Levels \in Nat /\ l \in (m + 1)..Levels
  BY TimerAssumption
<1> SUFFICES ASSUME Bad # {} PROVE FALSE
  BY <1>1
<1>2. PICK k \in Bad : \A j \in Bad : k <= j
  <2>1. Bad \in SUBSET Nat
    BY <1>1
  <2> HIDE DEF Bad
  <2> QED
    BY <2>1, LeastNat
<1>3. k \in (m + 1)..Levels /\ ~Whole(k)
  OBVIOUS
<1>4. k \in 1..Levels /\ k - 1 \in Nat /\ k - 1 \in 0..Levels /\ m \in 0..Levels
  BY <1>1, <1>3
<1>5. Span[k] = Span[k - 1] * Size(k - 1)
  BY <1>4, SpanFacts
<1>6. /\ Span[m] \in Nat \ {0} /\ Size(m) \in Nat \ {0} /\ Size(k - 1) \in Nat \ {0}
  BY <1>4, SpanFacts, SizeType
<1>7. CASE k = m + 1
  <2>1. k - 1 = m
    BY <1>3, <1>7
  <2>2. Span[k] = Span[m] * (Size(m) * 1)
    BY <1>5, <1>6, <2>1
  <2> QED
    BY <1>3, <2>2
<1>8. CASE k # m + 1
  <2>1. k - 1 \in (m + 1)..Levels /\ ~(k <= k - 1)
    BY <1>1, <1>3, <1>8
  <2>2. Whole(k - 1)
    <3>1. k - 1 \notin Bad
      <4> HIDE DEF Bad
      <4> QED
        BY <1>2, <2>1
    <3> HIDE DEF Whole
    <3> QED
      BY <2>1, <3>1
  <2>3. PICK c \in Nat : Span[k - 1] = Span[m] * (Size(m) * c)
    BY <2>2
  <2> DEFINE a == Span[m]
             b == Size(m)
             d == Size(k - 1)
  <2>4. a \in Nat /\ b \in Nat /\ d \in Nat /\ c * d \in Nat
    BY <1>6
  <2>5. Span[k] = (a * (b * c)) * d
    BY <1>5, <2>3
  <2> HIDE DEF a, b, d
  <2>6. (a * (b * c)) * d = a * (b * (c * d))
    BY <2>4
  <2>7. Span[k] = a * (b * (c * d))
    BY <2>5, <2>6
  <2> QED
    BY <1>3, <2>4, <2>7 DEF a, b
<1> QED
  BY <1>7, <1>8

\* A slot's index is one of its level.
LEMMA SlotType ==
  ASSUME NEW t \in Nat, NEW l \in 0..Levels
  PROVE  Slot(t, l) \in 0..(Size(l) - 1)
<1> DEFINE q == t \div Span[l]
<1>1. Span[l] \in Nat \ {0} /\ Size(l) \in Nat \ {0}
  BY SpanFacts, SizeType
<1>2. q \in Nat
  BY <1>1, DivMod
<1> HIDE DEF q
<1>3. q % Size(l) \in 0..(Size(l) - 1)
  BY <1>1, <1>2, DivMod
<1> QED
  BY <1>3 DEF Slot, q

\* The last time before p at which the slot of p in level l begins: the wheel comes
\* to the slot then, since all lower indices are 0.
LEMMA SlotBegins ==
  ASSUME NEW p \in Nat, NEW l \in 0..Levels
  PROVE  \E t \in Nat : /\ t <= p /\ p < t + Span[l]
                        /\ Slot(t, l) = Slot(p, l)
                        /\ \A m \in 0..(l - 1) : Slot(t, m) = 0
<1> DEFINE n == Span[l]
           q == p \div n
           t == n * q
<1>1. n \in Nat \ {0} /\ Levels \in Nat
  BY SpanFacts, TimerAssumption
<1>2. p % n \in 0..(n - 1) /\ q \in Nat /\ p = n * q + (p % n)
  <2> HIDE DEF n
  <2> QED
    BY <1>1, DivMod
<1>3. t \in Nat /\ t <= p /\ p < t + n
  <2> DEFINE r == p % n
  <2>1. r \in 0..(n - 1) /\ p = n * q + r
    BY <1>2
  <2> HIDE DEF r, q, n
  <2>2. n * q \in Nat
    BY <1>1, <1>2
  <2> QED
    BY <1>1, <2>1, <2>2
<1>4. t \div n = q
  <2> HIDE DEF n, q
  <2> QED
    BY <1>1, <1>2, DivMultiple
<1>5. Slot(t, l) = Slot(p, l)
  BY <1>4 DEF Slot
<1>6. ASSUME NEW m \in 0..(l - 1) PROVE Slot(t, m) = 0
  <2>1. m \in Nat /\ m < l /\ m \in 0..Levels
    BY <1>1, <1>6
  <2>2. PICK c \in Nat : n = Span[m] * (Size(m) * c)
    BY <2>1, SpanMultiple
  <2> DEFINE a == Span[m]
             b == Size(m)
  <2>3. a \in Nat \ {0} /\ b \in Nat \ {0}
    BY <2>1, SpanFacts, SizeType
  <2>4. t = (a * (b * c)) * q
    BY <2>2
  <2>5. Slot(t, m) = (t \div a) % b
    BY DEF Slot
  <2> HIDE DEF a, b, t, q, n
  <2>6. c * q \in Nat /\ (a * (b * c)) * q = a * (b * (c * q))
    BY <1>2, <2>3
  <2> DEFINE d == c * q
  <2>7. d \in Nat /\ t = a * (b * d)
    BY <2>4, <2>6
  <2> HIDE DEF d
  <2>8. b * d \in Nat /\ (b * d) % b = 0
    BY <2>3, <2>7, DivMultiple
  <2> DEFINE e == b * d
  <2>9. e \in Nat /\ e % b = 0 /\ t = a * e
    BY <2>7, <2>8
  <2> HIDE DEF e
  <2>10. t \div a = e
    BY <2>3, <2>9, DivMultiple
  <2> QED
    BY <2>5, <2>9, <2>10
<1> QED
  BY <1>3, <1>5, <1>6

\* xtimer_calc_slot finds a level for every delay.
LEMMA LevelExists ==
  ASSUME NEW d \in Int
  PROVE  \E x \in 0..(Levels - 1) :
           /\ x = Levels - 1 \/ d < Span[x + 1]
           /\ \A m \in 0..(x - 1) : d >= Span[m + 1]
<1> USE TimerAssumption
<1> DEFINE fits(l) == l = Levels - 1 \/ d < Span[l + 1]
           S == {l \in 0..(Levels - 1) : fits(l)}
<1>1. S \in SUBSET Nat /\ Levels - 1 \in S
  OBVIOUS
<1>2. PICK l \in S : \A m \in S : l <= m
  BY <1>1, LeastNat
<1>3. ASSUME NEW m \in 0..(l - 1) PROVE d >= Span[m + 1]
  <2>1. m \in Nat /\ m < l /\ l \in 0..(Levels - 1)
    BY <1>3
  <2>2. m \notin S /\ m \in 0..(Levels - 1)
    BY <1>2, <2>1
  <2>3. ~(d < Span[m + 1])
    BY <2>2
  <2>4. m + 1 \in 0..Levels
    BY <2>1
  <2>5. Span[m + 1] \in Int
    BY <2>4, SpanFacts
  <2> QED
    BY <2>3, <2>5
<1> QED
  BY <1>2, <1>3

LEMMA LevelType == ASSUME NEW d \in Int PROVE LevelOf(d) \in 0..(Levels - 1)
  BY LevelExists, Zenon DEF LevelOf

\* It takes a higher level only for a delay of at least a slot of that level.
LEMMA LevelFits ==
  ASSUME NEW d \in Int, LevelOf(d) # 0
  PROVE  d >= Span[LevelOf(d)]
<1> DEFINE P(x) == /\ x = Levels - 1 \/ d < Span[x + 1]
                   /\ \A m \in 0..(x - 1) : d >= Span[m + 1]
           l == LevelOf(d)
<1>1. \E x \in 0..(Levels - 1) : P(x)
  BY LevelExists
<1>2. P(l)
  <2> HIDE DEF P
  <2>1. LevelOf(d) = CHOOSE x \in 0..(Levels - 1) : P(x)
    BY DEF LevelOf, P
  <2> QED
    BY <1>1, <2>1
<1>3. l \in 0..(Levels - 1)
  BY LevelType
<1>4. l - 1 \in 0..(l - 1) /\ (l - 1) + 1 = l
  BY <1>3, TimerAssumption
<1> HIDE DEF l
<1>5. d >= Span[(l - 1) + 1]
  BY <1>2, <1>4
<1> QED
  BY <1>4, <1>5 DEF l
-----------------------------------------------------------------------------
(* The types that the steps below need.                                     *)

TimerNode ==
  [status : {"free", "pending", "running"}, cancelled : BOOLEAN, expire : Nat,
   interval : Nat, repeat : Nat, level : 0..(Levels - 1), slot : Nat,
   rep0 : Nat, base : Nat, fired : Nat, seen : Nat]

WheelTypeOK ==
  /\ pool \in BOOLEAN /\ current_time \in Nat /\ current_jiffies \in Nat
  /\ node \in [Nodes -> TimerNode] /\ active_count \in Int
  /\ pc \in {"idle", "advance", "fire", "callback"} /\ batch \in SUBSET Nodes
  /\ cur \in Nodes \cup {None}

\* The fields that placing a node in a slot leaves alone.
SameTimer(x, y) ==
  /\ x.cancelled = y.cancelled /\ x.expire = y.expire /\ x.interval = y.interval
  /\ x.repeat = y.repeat /\ x.rep0 = y.rep0 /\ x.base = y.base
  /\ x.fired = y.fired /\ x.seen = y.seen

\* The slot is one of the level.
Lodged(x) == x.slot \in 0..(Size(x.level) - 1)

LEMMA PoisonType == Poison \in TimerNode
  BY TimerAssumption DEF Poison, TimerNode

\* xtimer_insert links the node into some slot, and changes nothing else of it.
LEMMA PlacedFacts ==
  ASSUME current_jiffies \in Nat, NEW x \in TimerNode
  PROVE  /\ Placed(x) \in TimerNode
         /\ Placed(x).status = "pending" /\ SameTimer(Placed(x), x)
         /\ Placed(x).level = LevelOf(Delta(x.expire))
         /\ Placed(x).slot = Slot(current_jiffies + Delta(x.expire), LevelOf(Delta(x.expire)))
         /\ Lodged(Placed(x))
<1> DEFINE d == Delta(x.expire)
           l == LevelOf(d)
           s == Slot(current_jiffies + d, l)
<1>1. d \in Nat /\ current_jiffies + d \in Nat
  BY TimerAssumption DEF Delta, TimerNode
<1>2. l \in 0..(Levels - 1) /\ l \in 0..Levels
  BY <1>1, LevelType, TimerAssumption
<1>3. s \in 0..(Size(l) - 1) /\ s \in Nat
  <2> HIDE DEF d, l
  <2>1. s \in 0..(Size(l) - 1)
    BY <1>1, <1>2, SlotType
  <2> QED
    BY <2>1, SizeType
<1>4. Placed(x) = [x EXCEPT !.status = "pending", !.level = l, !.slot = s]
  BY DEF Placed
<1> HIDE DEF d, l, s
<1> QED
  BY <1>2, <1>3, <1>4 DEF TimerNode, SameTimer, Lodged, d, l, s

\* Its expiry lies ahead of the wheel: the wheel comes to the slot no later, and not
\* at once unless the timer is due at once.
LEMMA PlacedReach ==
  ASSUME current_jiffies \in Nat, NEW x \in TimerNode, x.expire >= current_jiffies
  PROVE  \E t \in current_jiffies..x.expire :
           /\ Reaches(t, Placed(x))
           /\ t = current_jiffies => Placed(x).level = 0 /\ x.expire = current_jiffies
<1> DEFINE j == current_jiffies
           e == x.expire
           d == Delta(e)
           l == LevelOf(d)
           p == j + d
<1>1. j \in Nat /\ e \in Nat /\ e >= j
  BY DEF TimerNode
<1>2. d \in Nat /\ p \in Nat /\ p <= e /\ (p = j => e = j)
  BY <1>1, TimerAssumption DEF Delta
<1>3. l \in 0..Levels /\ l \in Nat
  BY <1>2, LevelType, TimerAssumption
<1>4. l # 0 => d >= Span[l]
  BY <1>2, LevelFits
<1>5. Placed(x).level = l /\ Placed(x).slot = Slot(p, l)
  BY PlacedFacts
<1> HIDE DEF j, e, d, l
<1>6. CASE l = 0
  <2>1. Reaches(p, Placed(x))
    BY <1>5, <1>6 DEF Reaches
  <2>2. p \in j..e
    BY <1>1, <1>2
  <2> QED
    BY <1>2, <1>5, <1>6, <2>1, <2>2 DEF j, e
<1>7. CASE l # 0
  <2> HIDE DEF p
  <2>1. PICK t \in Nat : /\ t <= p /\ p < t + Span[l]
                         /\ Slot(t, l) = Slot(p, l)
                         /\ \A m \in 0..(l - 1) : Slot(t, m) = 0
    BY <1>2, <1>3, SlotBegins
  <2>2. Reaches(t, Placed(x))
    BY <1>5, <2>1 DEF Reaches
  <2>3. Span[l] \in Nat
    BY <1>3, SpanFacts
  <2>4. p = j + d
    BY DEF p
  <2>5. t > j /\ t <= e
    BY <1>1, <1>2, <1>4, <1>7, <2>1, <2>3, <2>4
  <2>6. t \in j..e /\ t # j
    BY <1>1, <2>5
  <2> QED
    BY <2>2, <2>6 DEF j, e
<1> QED
  BY <1>6, <1>7

\* xtimer_cascade moves nodes between slots only.
LEMMA CascadedFacts ==
  ASSUME WheelTypeOK, NEW n \in Nodes
  PROVE  /\ Cascaded[n] \in TimerNode
         /\ Cascaded[n].status = node[n].status /\ SameTimer(Cascaded[n], node[n])
<1>1. node[n] \in TimerNode /\ current_jiffies \in Nat
  BY DEF WheelTypeOK
<1>2. Cascaded[n] = IF Due(node[n]) THEN Placed(node[n]) ELSE node[n]
  BY DEF Cascaded
<1>3. Due(node[n]) => node[n].status = "pending"
  BY DEF Due
<1>4. CASE Due(node[n])
  BY <1>1, <1>2, <1>3, <1>4, PlacedFacts
<1>5. CASE ~Due(node[n])
  BY <1>1, <1>2, <1>5 DEF SameTimer
<1> QED
  BY <1>4, <1>5

\* What Advance does to a node: a slot's node is locked, others at most move.
LEMMA AdvanceFacts ==
  ASSUME WheelTypeOK, Advance, NEW n \in Nodes
  PROVE  /\ node' \in [Nodes -> TimerNode]
         /\ batch' \subseteq {m \in Nodes : node[m].status = "pending"}
         /\ node'[n].status = IF n \in batch' THEN "running" ELSE node[n].status
         /\ SameTimer(node'[n], node[n])
<1> DEFINE c == Cascaded
           b == {m \in Nodes : /\ c[m].status = "pending" /\ c[m].level = 0
                               /\ c[m].slot = Slot(current_jiffies, 0)}
<1>1. /\ batch' = b
      /\ node' = [m \in Nodes |-> IF m \in b THEN [c[m] EXCEPT !.status = "running"] ELSE c[m]]
  BY DEF Advance
<1>2. \A m \in Nodes : /\ c[m] \in TimerNode
                       /\ c[m].status = node[m].status /\ SameTimer(c[m], node[m])
  BY CascadedFacts
<1>3. b \subseteq {m \in Nodes : node[m].status = "pending"}
  BY <1>2
<1> HIDE DEF b, c
<1>4. \A m \in Nodes : [c[m] EXCEPT !.status = "running"] \in TimerNode
  BY <1>2 DEF TimerNode
<1>5. node' \in [Nodes -> TimerNode]
  BY <1>1, <1>2, <1>4
<1>6. node'[n] = IF n \in b THEN [c[n] EXCEPT !.status = "running"] ELSE c[n]
  BY <1>1
<1>7. node'[n].status = IF n \in b THEN "running" ELSE node[n].status
  BY <1>2, <1>6 DEF TimerNode
<1>8. SameTimer(node'[n], node[n])
  BY <1>2, <1>6 DEF TimerNode, SameTimer
<1> QED
  BY <1>1, <1>3, <1>5, <1>7, <1>8

\* What PollBegin does to a node: it notes the clock reading.
LEMMA PollBeginFacts ==
  ASSUME WheelTypeOK, PollBegin, NEW n \in Nodes
  PROVE  /\ node' \in [Nodes -> TimerNode] /\ current_time' \in Nat
         /\ node'[n].status = node[n].status
         /\ node'[n].status # "pending" => node'[n] = node[n]
         /\ node'[n].status = "pending" =>
              SameTimer([node'[n] EXCEPT !.seen = node[n].seen], node[n])
         /\ node'[n].seen >= node[n].seen
         /\ node'[n].status = "pending" => node'[n].seen >= current_time'
<1>1. current_time' \in Nat
  BY TimerAssumption DEF PollBegin
<1>2. \A m \in Nodes : node'[m] = IF node[m].status = "pending" /\ current_time' > node[m].seen
        THEN [node[m] EXCEPT !.seen = current_time'] ELSE node[m]
  BY DEF PollBegin
<1>3. \A m \in Nodes : node[m] \in TimerNode
  BY DEF WheelTypeOK
<1>4. ASSUME NEW m \in Nodes PROVE node'[m] \in TimerNode
  <2>1. [node[m] EXCEPT !.seen = current_time'] \in TimerNode
    BY <1>1, <1>3 DEF TimerNode
  <2> QED
    BY <1>2, <1>3, <2>1
<1>5. node' \in [Nodes -> TimerNode]
  <2>1. node' = [m \in Nodes |-> node'[m]]
    BY DEF PollBegin
  <2> QED
    BY <1>4, <2>1
<1>6. CASE node[n].status = "pending" /\ current_time' > node[n].seen
  BY <1>1, <1>2, <1>3, <1>5, <1>6 DEF TimerNode, SameTimer
<1>7. CASE ~(node[n].status = "pending" /\ current_time' > node[n].seen)
  BY <1>1, <1>2, <1>3, <1>5, <1>7 DEF TimerNode, SameTimer
<1> QED
  BY <1>6, <1>7

\* Every step keeps the types.
LEMMA WheelTypeStep == WheelTypeOK /\ [Next]_tvars => WheelTypeOK'
<1> SUFFICES ASSUME WheelTypeOK, [Next]_tvars PROVE WheelTypeOK'
  OBVIOUS
<1> USE TimerAssumption DEF WheelTypeOK, wheel, poll
<1>a. ASSUME NEW n \in Nodes, NEW x \in TimerNode
      PROVE  [node EXCEPT ![n] = x] \in [Nodes -> TimerNode]
  OBVIOUS
<1>1. CASE PoolCreate
  BY <1>1 DEF PoolCreate
<1>2. CASE PoolDestroy
  BY <1>2, PoisonType DEF PoolDestroy
<1>3. ASSUME NEW n \in Nodes, Delete(n) PROVE WheelTypeOK'
  <2>1. node[n] \in TimerNode
    OBVIOUS
  <2> DEFINE z == [node[n] EXCEPT !.cancelled = TRUE]
  <2>2. z \in TimerNode
    BY <2>1 DEF TimerNode
  <2>3. node' = [node EXCEPT ![n] = Poison] \/ node' = [node EXCEPT ![n] = z]
    BY <1>3 DEF Delete
  <2> HIDE DEF z
  <2>4. node' \in [Nodes -> TimerNode]
    BY <1>a, <2>2, <2>3, PoisonType
  <2> QED
    BY <1>3, <2>4 DEF Delete
<1>4. ASSUME NEW n \in Nodes, Fire(n) PROVE WheelTypeOK'
  <2>1. node[n] \in TimerNode
    OBVIOUS
  <2>2. [node[n] EXCEPT !.fired = @ + 1] \in TimerNode
    BY <2>1 DEF TimerNode
  <2>3. Placed(node[n]) \in TimerNode
    BY <2>1, PlacedFacts
  <2>4. node' \in [Nodes -> TimerNode]
    BY <1>4, <1>a, <2>2, <2>3, PoisonType DEF Fire
  <2> QED
    BY <1>4, <2>4 DEF Fire
<1>5. ASSUME NEW n \in Nodes, NEW i \in Intervals, NEW r \in Repeats, Create(n, i, r)
      PROVE  WheelTypeOK'
  <2> DEFINE x == [Poison EXCEPT !.cancelled = FALSE, !.interval = i,
                     !.expire = current_time + i, !.repeat = r,
                     !.rep0 = r, !.base = current_time, !.seen = current_time]
  <2>1. i \in Nat /\ r \in Nat /\ current_time + i \in Nat /\ current_time \in Nat
    OBVIOUS
  <2>2. x \in TimerNode
    BY <2>1, PoisonType DEF TimerNode
  <2> HIDE DEF x
  <2>3. Placed(x) \in TimerNode
    BY <2>2, PlacedFacts
  <2>4. node' = [node EXCEPT ![n] = Placed(x)]
    BY <1>5 DEF Create, x
  <2>5. node' \in [Nodes -> TimerNode]
    BY <1>a, <2>3, <2>4
  <2> QED
    BY <1>5, <2>5 DEF Create
<1>6. CASE PollBegin
  <2>1. current_time' \in Nat
    BY <1>6 DEF PollBegin
  <2>2. node' \in [Nodes -> TimerNode]
    <3>1. CASE Nodes = {}
      BY <1>6, <3>1 DEF PollBegin
    <3>2. CASE Nodes # {}
      BY <1>6, <3>2, PollBeginFacts
    <3> QED
      BY <3>1, <3>2
  <2> QED
    BY <1>6, <2>1, <2>2 DEF PollBegin
<1>7. CASE Advance
  <2>1. node' \in [Nodes -> TimerNode] /\ batch' \in SUBSET Nodes
    <3>1. CASE Nodes = {}
      BY <1>7, <3>1 DEF Advance
    <3>2. CASE Nodes # {}
      BY <1>7, <3>2, AdvanceFacts
    <3> QED
      BY <3>1, <3>2
  <2> QED
    BY <1>7, <2>1 DEF Advance
<1>8. CASE BatchEnd
  BY <1>8 DEF BatchEnd
<1>9. CASE PollEnd
  BY <1>9 DEF PollEnd
<1>10. CASE CallbackReturns
  <2> DEFINE x == node[cur]
             y == [x EXCEPT !.repeat = @ - 1, !.expire = @ + x.interval]
  <2>1. cur \in Nodes => x \in TimerNode
    OBVIOUS
  <2>2. cur \in Nodes /\ x.repeat > 1 => y \in TimerNode
    <3> SUFFICES ASSUME cur \in Nodes, x.repeat > 1 PROVE y \in TimerNode
      OBVIOUS
    <3> HIDE DEF x
    <3>1. x.repeat - 1 \in Nat /\ x.expire + x.interval \in Nat
      BY <2>1 DEF TimerNode
    <3> QED
      BY <2>1, <3>1 DEF TimerNode
  <2>3. node' = [node EXCEPT ![cur] = IF ~x.cancelled /\ x.repeat > 1 THEN Placed(y) ELSE Poison]
    BY <1>10 DEF CallbackReturns
  <2> HIDE DEF x, y
  <2>4. cur \in Nodes /\ x.repeat > 1 => Placed(y) \in TimerNode
    BY <2>2, PlacedFacts
  <2>5. node' \in [Nodes -> TimerNode]
    <3>1. CASE cur \in Nodes
      BY <1>a, <2>3, <2>4, <3>1, PoisonType
    <3>2. CASE cur \notin Nodes
      BY <2>3, <3>2
    <3> QED
      BY <3>1, <3>2
  <2> QED
    BY <1>10, <2>5 DEF CallbackReturns
<1>11. CASE UNCHANGED tvars
  BY <1>11 DEF tvars
<1> QED
  BY <1>1, <1>2, <1>3, <1>4, <1>5, <1>6, <1>7, <1>8, <1>9, <1>10, <1>11 DEF Next, PollStep
-----------------------------------------------------------------------------
(* What the steps that change one node make of it.                          *)

\* Every node but n.
OthersSame(n) == \A m \in Nodes \ {n} : node'[m] = node[m]

LEMMA CreateFacts ==
  ASSUME WheelTypeOK, NEW n \in Nodes, NEW i \in Intervals, NEW r \in Repeats, Create(n, i, r)
  PROVE  /\ OthersSame(n) /\ node[n].status = "free"
         /\ node'[n].status = "pending" /\ ~node'[n].cancelled
         /\ node'[n].expire = current_time + i /\ node'[n].interval = i
         /\ node'[n].repeat = r /\ node'[n].rep0 = r /\ node'[n].fired = 0
         /\ node'[n].base = current_time /\ node'[n].seen = current_time
<1> USE TimerAssumption
<1> DEFINE x == [Poison EXCEPT !.cancelled = FALSE, !.interval = i,
                   !.expire = current_time + i, !.repeat = r,
                   !.rep0 = r, !.base = current_time, !.seen = current_time]
<1>1. i \in Nat /\ r \in Nat /\ current_time + i \in Nat
      /\ current_time \in Nat /\ current_jiffies \in Nat
  BY DEF WheelTypeOK
<1>2. x \in TimerNode
  BY <1>1, PoisonType DEF TimerNode
<1>3. /\ x.expire = current_time + i /\ x.interval = i /\ ~x.cancelled
      /\ x.repeat = r /\ x.rep0 = r /\ x.fired = 0
      /\ x.base = current_time /\ x.seen = current_time
  BY DEF Poison
<1>4. node' = [node EXCEPT ![n] = Placed(x)] /\ node[n].status = "free"
  BY DEF Create
<1> HIDE DEF x
<1>5. /\ Placed(x) \in TimerNode
      /\ Placed(x).status = "pending" /\ SameTimer(Placed(x), x)
  BY <1>1, <1>2, PlacedFacts
<1>6. node'[n] = Placed(x) /\ OthersSame(n)
  BY <1>4 DEF WheelTypeOK, OthersSame
<1> QED
  BY <1>2, <1>3, <1>4, <1>5, <1>6 DEF SameTimer, TimerNode

LEMMA DeleteFacts ==
  ASSUME WheelTypeOK, NEW n \in Nodes, Delete(n)
  PROVE  /\ OthersSame(n) /\ ~node[n].cancelled
         /\ \/ node[n].status = "pending" /\ node'[n] = Poison
            \/ /\ node[n].status = "running" /\ node'[n].status = "running"
               /\ node'[n].cancelled
               /\ SameTimer([node'[n] EXCEPT !.cancelled = FALSE], node[n])
<1>1. node[n] \in TimerNode
  BY DEF WheelTypeOK
<1>2. OthersSame(n) /\ ~node[n].cancelled
  BY DEF WheelTypeOK, OthersSame, Delete
<1>3. \/ node[n].status = "pending" /\ node'[n] = Poison
      \/ node[n].status = "running" /\ node'[n] = [node[n] EXCEPT !.cancelled = TRUE]
  BY DEF WheelTypeOK, Delete
<1> QED
  BY <1>1, <1>2, <1>3 DEF TimerNode, SameTimer

\* A node of the batch: deleted meanwhile, back in the wheel, or called.
LEMMA FireFacts ==
  ASSUME WheelTypeOK, NEW n \in Nodes, Fire(n)
  PROVE  /\ OthersSame(n) /\ n \in batch /\ batch' = batch \ {n} /\ pc = "fire"
         /\ \/ /\ node[n].cancelled /\ node'[n] = Poison
               /\ UNCHANGED <<pc, cur>> /\ active_count' = active_count - 1
            \/ /\ ~node[n].cancelled /\ UNCHANGED <<pc, cur, active_count>>
               /\ node'[n].status = "pending" /\ SameTimer(node'[n], node[n])
            \/ /\ ~node[n].cancelled /\ node[n].expire <= current_time
               /\ pc' = "callback" /\ cur' = n /\ active_count' = active_count - 1
               /\ node'[n].status = node[n].status
               /\ node'[n].fired = node[n].fired + 1
               /\ SameTimer([node'[n] EXCEPT !.fired = node[n].fired], node[n])
<1>1. node[n] \in TimerNode /\ current_jiffies \in Nat
  BY DEF WheelTypeOK
<1>2. OthersSame(n) /\ n \in batch /\ batch' = batch \ {n} /\ pc = "fire"
  BY DEF WheelTypeOK, OthersSame, Fire
<1>3. CASE node[n].cancelled
  <2>1. /\ node'[n] = Poison
        /\ UNCHANGED <<pc, cur>> /\ active_count' = active_count - 1
    BY <1>3 DEF WheelTypeOK, Fire
  <2> QED
    BY <1>2, <1>3, <2>1
<1>4. CASE ~node[n].cancelled /\ node[n].expire > current_time
  <2>1. node'[n] = Placed(node[n]) /\ UNCHANGED <<pc, cur, active_count>>
    BY <1>1, <1>4 DEF WheelTypeOK, Fire, TimerNode
  <2>2. node'[n].status = "pending" /\ SameTimer(node'[n], node[n])
    BY <1>1, <2>1, PlacedFacts
  <2> QED
    BY <1>2, <1>4, <2>1, <2>2
<1>5. CASE ~node[n].cancelled /\ ~(node[n].expire > current_time)
  <2>1. /\ node[n].expire <= current_time
        /\ pc' = "callback" /\ cur' = n /\ active_count' = active_count - 1
        /\ node'[n] = [node[n] EXCEPT !.fired = @ + 1]
    BY <1>1, <1>5 DEF WheelTypeOK, Fire, TimerNode
  <2>2. /\ node'[n].status = node[n].status /\ node'[n].fired = node[n].fired + 1
        /\ SameTimer([node'[n] EXCEPT !.fired = node[n].fired], node[n])
    BY <1>1, <2>1 DEF TimerNode, SameTimer
  <2> QED
    BY <1>2, <1>5, <2>1, <2>2
<1> QED
  BY <1>3, <1>4, <1>5

\* After the callback: armed for the next expiry, or recycled.
LEMMA ReturnFacts ==
  ASSUME WheelTypeOK, CallbackReturns, cur \in Nodes
  PROVE  /\ OthersSame(cur) /\ pc = "callback" /\ pc' = "fire" /\ cur' = None
         /\ UNCHANGED <<pool, current_time, batch>>
         /\ IF ~node[cur].cancelled /\ node[cur].repeat > 1
            THEN /\ node'[cur].status = "pending" /\ active_count' = active_count + 1
                 /\ ~node'[cur].cancelled
                 /\ node'[cur].repeat = node[cur].repeat - 1
                 /\ node'[cur].expire = node[cur].expire + node[cur].interval
                 /\ node'[cur].interval = node[cur].interval
                 /\ node'[cur].rep0 = node[cur].rep0 /\ node'[cur].base = node[cur].base
                 /\ node'[cur].fired = node[cur].fired /\ node'[cur].seen = node[cur].seen
            ELSE node'[cur] = Poison /\ UNCHANGED active_count
<1> DEFINE x == node[cur]
           y == [x EXCEPT !.repeat = @ - 1, !.expire = @ + x.interval]
           again == ~x.cancelled /\ x.repeat > 1
<1>1. x \in TimerNode /\ current_jiffies \in Nat
  BY DEF WheelTypeOK
<1>2. node' = [node EXCEPT ![cur] = IF again THEN Placed(y) ELSE Poison]
  BY DEF CallbackReturns
<1>3. /\ OthersSame(cur) /\ pc = "callback" /\ pc' = "fire" /\ cur' = None
      /\ UNCHANGED <<pool, current_time, batch>>
      /\ active_count' = IF again THEN active_count + 1 ELSE active_count
  BY <1>2 DEF WheelTypeOK, OthersSame, CallbackReturns
<1>4. node'[cur] = IF again THEN Placed(y) ELSE Poison
  BY <1>2 DEF WheelTypeOK
<1>5. CASE again
  <2> HIDE DEF x
  <2>1. x.repeat - 1 \in Nat /\ x.expire + x.interval \in Nat
    BY <1>1, <1>5 DEF TimerNode
  <2>2. y \in TimerNode
    BY <1>1, <2>1 DEF TimerNode
  <2>3. /\ y.repeat = x.repeat - 1 /\ y.expire = x.expire + x.interval
        /\ y.interval = x.interval /\ y.rep0 = x.rep0 /\ y.base = x.base
        /\ y.fired = x.fired /\ y.seen = x.seen /\ y.cancelled = x.cancelled
    BY <1>1 DEF TimerNode
  <2> HIDE DEF y
  <2>4. Placed(y).status = "pending" /\ SameTimer(Placed(y), y)
    BY <1>1, <2>2, PlacedFacts
  <2> QED
    BY <1>3, <1>4, <1>5, <2>3, <2>4 DEF SameTimer, x
<1>6. CASE ~again
  BY <1>3, <1>4, <1>6
<1> QED
  BY <1>5, <1>6
-----------------------------------------------------------------------------
(* The inductive invariant.                                                 *)

\* Only the nodes that poll holds are locked, and recycled ones are poisoned.
LEMMA PollStepInv == WheelTypeOK /\ PollInv /\ [Next]_tvars => PollInv'
<1> SUFFICES ASSUME WheelTypeOK, PollInv, [Next]_tvars PROVE PollInv'
  OBVIOUS
<1> USE TimerAssumption DEF wheel, poll
<1>0. /\ \A n \in Nodes : node[n] \in TimerNode
      /\ batch \subseteq Nodes /\ cur \in Nodes \cup {None} /\ None \notin Nodes
      /\ pool \in BOOLEAN
  BY DEF WheelTypeOK
<1>1. CASE PoolCreate
  BY <1>1 DEF PoolCreate, PollInv, Called
<1>2. CASE PoolDestroy
  BY <1>2 DEF PoolDestroy, PollInv, Called, Poison
<1>3. ASSUME NEW n \in Nodes, Delete(n) PROVE PollInv'
  <2>1. UNCHANGED <<pool, pc, batch, cur>>
    BY <1>3 DEF Delete
  <2>2. /\ OthersSame(n)
        /\ \/ node[n].status = "pending" /\ node'[n] = Poison
           \/ node[n].status = "running" /\ node'[n].status = "running"
    BY <1>3, DeleteFacts
  <2> QED
    BY <2>1, <2>2 DEF PollInv, Called, OthersSame, Poison
<1>4. ASSUME NEW n \in Nodes, Fire(n) PROVE PollInv'
  <2>1. UNCHANGED pool
    BY <1>4 DEF Fire
  <2>2. pool /\ cur = None /\ pc = "fire" /\ batch' = batch \ {n} /\ n \in batch /\ OthersSame(n)
    BY <1>4, FireFacts DEF PollInv
  <2>3. CASE node[n].cancelled /\ node'[n] = Poison /\ UNCHANGED <<pc, cur>>
    BY <1>0, <2>1, <2>2, <2>3 DEF PollInv, Called, OthersSame, Poison
  <2>4. CASE /\ ~node[n].cancelled /\ UNCHANGED <<pc, cur>>
             /\ node'[n].status = "pending" /\ SameTimer(node'[n], node[n])
    BY <1>0, <2>1, <2>2, <2>4 DEF PollInv, Called, OthersSame, SameTimer
  <2>5. CASE /\ pc' = "callback" /\ cur' = n /\ node'[n].status = node[n].status
    BY <1>0, <2>1, <2>2, <2>5 DEF PollInv, Called, OthersSame
  <2> QED
    BY <1>4, <2>3, <2>4, <2>5, FireFacts
<1>5. ASSUME NEW n \in Nodes, NEW i \in Intervals, NEW r \in Repeats, Create(n, i, r)
      PROVE  PollInv'
  <2>1. pool /\ UNCHANGED <<pool, pc, batch, cur>>
    BY <1>5 DEF Create, CanCall
  <2>2. /\ OthersSame(n) /\ node[n].status = "free"
        /\ node'[n].status = "pending" /\ ~node'[n].cancelled
    BY <1>5, CreateFacts
  <2> QED
    BY <2>1, <2>2 DEF PollInv, Called, OthersSame
<1>6. CASE PollBegin
  <2>1. /\ pool /\ UNCHANGED <<pool, batch, cur>> /\ pc = "idle" /\ pc' \in {"idle", "advance"}
    BY <1>6 DEF PollBegin
  <2>2. \A n \in Nodes :
          /\ node'[n].status = node[n].status
          /\ node'[n].status # "pending" => node'[n] = node[n]
          /\ node'[n].status = "pending" => node'[n].cancelled = node[n].cancelled
    <3> TAKE n \in Nodes
    <3>1. node' \in [Nodes -> TimerNode]
      BY <1>6, PollBeginFacts
    <3> QED
      BY <1>6, <3>1, PollBeginFacts DEF SameTimer, TimerNode
  <2> QED
    BY <2>1, <2>2 DEF PollInv, Called
<1>7. CASE Advance
  <2>1. /\ UNCHANGED <<pool, cur>> /\ pc = "advance" /\ batch = {}
        /\ pc' = IF batch' = {} THEN "advance" ELSE "fire"
    BY <1>7 DEF Advance, PollInv
  <2>2. \A n \in Nodes :
          /\ batch' \subseteq {m \in Nodes : node[m].status = "pending"}
          /\ node'[n].status = IF n \in batch' THEN "running" ELSE node[n].status
          /\ SameTimer(node'[n], node[n])
    BY <1>7, AdvanceFacts
  <2>3. \A n \in Nodes : node[n].status = "free" => node'[n] = node[n]
    <3> SUFFICES ASSUME NEW n \in Nodes, node[n].status = "free" PROVE node'[n] = node[n]
      OBVIOUS
    <3>1. ~Due(node[n])
      BY DEF Due
    <3>2. Cascaded[n] = node[n]
      BY <3>1 DEF Cascaded
    <3> QED
      BY <1>7, <3>2 DEF Advance
  <2>4. batch' \subseteq Nodes
    BY <1>7 DEF Advance
  <2>5. pool /\ pc' # "callback" /\ cur = None
    BY <2>1 DEF PollInv
  <2>6. \A n \in Nodes : node[n].status \in {"free", "pending"}
    BY <1>0, <2>1 DEF PollInv, Called, TimerNode
  <2>7. \A n \in Nodes : node'[n].cancelled = node[n].cancelled
    BY <2>2 DEF SameTimer
  <2>8. \A n \in Nodes :
          /\ node'[n].status = "running" <=> n \in batch'
          /\ node'[n].status = "pending" => node[n].status = "pending"
          /\ node'[n].status = "free" => node[n].status = "free"
    BY <2>2, <2>6
  <2> QED
    BY <2>1, <2>3, <2>4, <2>5, <2>7, <2>8, <1>0 DEF PollInv, Called
<1>8. CASE BatchEnd
  BY <1>8 DEF BatchEnd, PollInv, Called
<1>9. CASE PollEnd
  BY <1>9 DEF PollEnd, PollInv, Called
<1>10. CASE CallbackReturns
  <2>1. cur \in Nodes /\ pool /\ cur \notin batch
    BY <1>0, <1>10 DEF CallbackReturns, PollInv
  <2>2. /\ OthersSame(cur) /\ pc = "callback" /\ pc' = "fire" /\ cur' = None
        /\ UNCHANGED <<pool, batch>>
        /\ \/ node'[cur].status = "pending" /\ ~node'[cur].cancelled
           \/ node'[cur] = Poison
    BY <1>10, <2>1, ReturnFacts
  <2> QED
    BY <1>0, <2>1, <2>2 DEF PollInv, Called, OthersSame, Poison
<1>11. CASE UNCHANGED tvars
  BY <1>11 DEF tvars, PollInv, Called
<1> QED
  BY <1>1, <1>2, <1>3, <1>4, <1>5, <1>6, <1>7, <1>8, <1>9, <1>10, <1>11 DEF Next, PollStep

\* The timers that xtimer_count counts.
Live == {n \in Nodes : node[n].status = "pending"} \cup batch

\* active_count follows every insertion, removal and call.
LEMMA CountStep ==
  ASSUME IsFiniteSet(Nodes), WheelTypeOK, PollInv, CountInv, [Next]_tvars
  PROVE  CountInv'
<1> USE TimerAssumption DEF wheel, poll
<1>0. /\ \A n \in Nodes : node[n] \in TimerNode
      /\ batch \subseteq Nodes /\ cur \in Nodes \cup {None} /\ active_count \in Int
  BY DEF WheelTypeOK
<1>a. IsFiniteSet(Live) /\ Cardinality(Live) \in Nat
  <2>1. Live \in SUBSET Nodes
    BY <1>0 DEF Live
  <2> QED
    BY <2>1, FS_Subset, FS_CardinalityType
<1>b. \* nothing is counted in or out
      ASSUME Live' = Live, UNCHANGED active_count, pool' => pool PROVE CountInv'
  BY <1>b DEF CountInv, Live
<1>c. \* one timer is counted in
      ASSUME NEW n, n \notin Live, Live' = Live \cup {n}, active_count' = active_count + 1, pool
      PROVE  CountInv'
  <2>1. active_count = Cardinality(Live)
    BY <1>c DEF CountInv, Live
  <2>2. Cardinality(Live \cup {n}) = Cardinality(Live) + 1
    BY <1>a, <1>c, FS_AddElement
  <2>3. active_count' = Cardinality(Live')
    BY <1>c, <2>1, <2>2
  <2> QED
    BY <2>3 DEF CountInv, Live
<1>d. \* one timer is counted out
      ASSUME NEW n, n \in Live, Live' = Live \ {n}, active_count' = active_count - 1, pool
      PROVE  CountInv'
  <2>1. active_count = Cardinality(Live)
    BY <1>d DEF CountInv, Live
  <2>2. Cardinality(Live \ {n}) = Cardinality(Live) - 1
    BY <1>a, <1>d, FS_RemoveElement
  <2>3. active_count' = Cardinality(Live')
    BY <1>d, <2>1, <2>2
  <2> QED
    BY <2>3 DEF CountInv, Live
<1>1. CASE PoolCreate
  <2>1. Live' = {} /\ active_count' = 0
    BY <1>1 DEF PoolCreate, Live, PollInv
  <2>2. active_count' = Cardinality(Live')
    BY <2>1, FS_EmptySet
  <2> QED
    BY <2>2 DEF CountInv, Live
<1>2. CASE PoolDestroy
  BY <1>2 DEF PoolDestroy, CountInv
<1>3. ASSUME NEW n \in Nodes, Delete(n) PROVE CountInv'
  <2>1. pool /\ UNCHANGED <<pool, batch>> /\ pc \in {"idle", "callback"}
    BY <1>3 DEF Delete, CanCall
  <2>2. OthersSame(n)
    BY <1>3, DeleteFacts
  <2>3. CASE node[n].status = "pending" /\ node'[n] = Poison
    <3>1. active_count' = active_count - 1
      BY <1>3, <2>3 DEF Delete
    <3>2. n \notin batch
      BY <2>3 DEF PollInv
    <3>3. n \in Live /\ Live' = Live \ {n}
      BY <2>1, <2>2, <2>3, <3>2 DEF Live, OthersSame, Poison
    <3> QED
      BY <1>d, <2>1, <3>1, <3>3
  <2>4. CASE node[n].status = "running" /\ node'[n].status = "running"
    <3>1. UNCHANGED active_count
      BY <1>3, <2>4 DEF Delete
    <3>2. Live' = Live
      BY <2>1, <2>2, <2>4 DEF Live, OthersSame
    <3> QED
      BY <1>b, <2>1, <3>1, <3>2
  <2> QED
    BY <1>3, <2>3, <2>4, DeleteFacts
<1>4. ASSUME NEW n \in Nodes, Fire(n) PROVE CountInv'
  <2>1. UNCHANGED pool
    BY <1>4 DEF Fire
  <2>2. pool /\ batch' = batch \ {n} /\ n \in batch /\ OthersSame(n) /\ node[n].status = "running"
    BY <1>4, FireFacts DEF PollInv
  <2>3. CASE node'[n] = Poison /\ active_count' = active_count - 1
    <3>1. n \in Live /\ Live' = Live \ {n}
      BY <2>2, <2>3 DEF Live, OthersSame, Poison
    <3> QED
      BY <1>d, <2>2, <2>3, <3>1
  <2>4. CASE node'[n].status = "pending" /\ UNCHANGED active_count
    <3>1. Live' = Live
      BY <1>0, <2>2, <2>4 DEF Live, OthersSame
    <3> QED
      BY <1>b, <2>1, <2>4, <3>1
  <2>5. CASE node'[n].status = node[n].status /\ active_count' = active_count - 1
    <3>1. n \in Live /\ Live' = Live \ {n}
      BY <2>2, <2>5 DEF Live, OthersSame
    <3> QED
      BY <1>d, <2>2, <2>5, <3>1
  <2> QED
    BY <1>4, <2>3, <2>4, <2>5, FireFacts
<1>5. ASSUME NEW n \in Nodes, NEW i \in Intervals, NEW r \in Repeats, Create(n, i, r)
      PROVE  CountInv'
  <2>1. pool /\ UNCHANGED <<pool, batch>> /\ active_count' = active_count + 1
    BY <1>5 DEF Create, CanCall
  <2>2. OthersSame(n) /\ node[n].status = "free" /\ node'[n].status = "pending"
    BY <1>5, CreateFacts
  <2>3. n \notin Live /\ Live' = Live \cup {n}
    BY <2>1, <2>2 DEF Live, OthersSame, PollInv
  <2> QED
    BY <1>c, <2>1, <2>3
<1>6. CASE PollBegin
  <2>1. UNCHANGED <<pool, batch, active_count>>
    BY <1>6 DEF PollBegin
  <2>2. \A n \in Nodes : node'[n].status = node[n].status
    BY <1>6, PollBeginFacts
  <2>3. Live' = Live
    BY <2>1, <2>2 DEF Live
  <2> QED
    BY <1>b, <2>1, <2>3
<1>7. CASE Advance
  <2>1. UNCHANGED <<pool, active_count>> /\ batch = {}
    BY <1>7 DEF Advance, PollInv
  <2>2. \A n \in Nodes :
          /\ batch' \subseteq {m \in Nodes : node[m].status = "pending"}
          /\ node'[n].status = IF n \in batch' THEN "running" ELSE node[n].status
    BY <1>7, AdvanceFacts
  <2>3. batch' \subseteq Nodes
    BY <1>7 DEF Advance
  <2>4. Live' = Live
    BY <2>1, <2>2, <2>3 DEF Live
  <2> QED
    BY <1>b, <2>1, <2>4
<1>8. CASE BatchEnd \/ PollEnd
  <2>1. Live' = Live /\ UNCHANGED <<pool, active_count>>
    BY <1>8 DEF BatchEnd, PollEnd, Live
  <2> QED
    BY <1>b, <2>1
<1>9. CASE CallbackReturns
  <2>1. cur \in Nodes /\ pool /\ cur \notin batch /\ node[cur].status = "running"
    BY <1>0, <1>9 DEF CallbackReturns, PollInv, Called
  <2>2. OthersSame(cur) /\ UNCHANGED <<pool, batch>>
    BY <1>9, <2>1, ReturnFacts
  <2>3. CASE node'[cur].status = "pending" /\ active_count' = active_count + 1
    <3>1. cur \notin Live /\ Live' = Live \cup {cur}
      BY <2>1, <2>2, <2>3 DEF Live, OthersSame
    <3> QED
      BY <1>c, <2>1, <2>3, <3>1
  <2>4. CASE node'[cur] = Poison /\ UNCHANGED active_count
    <3>1. Live' = Live
      BY <2>1, <2>2, <2>4 DEF Live, OthersSame, Poison
    <3> QED
      BY <1>b, <2>2, <2>4, <3>1
  <2> QED
    BY <1>9, <2>1, <2>3, <2>4, ReturnFacts
<1>10. CASE UNCHANGED tvars
  BY <1>b, <1>10 DEF tvars, Live
<1> QED
  BY <1>1, <1>2, <1>3, <1>4, <1>5, <1>6, <1>7, <1>8, <1>9, <1>10 DEF Next, PollStep

\* The i-th expiry and the next one.
LEMMA ExpiryStep ==
  ASSUME NEW x \in TimerNode, NEW k \in Nat
  PROVE  Expiry(x, k) \in Nat /\ Expiry(x, k + 1) = Expiry(x, k) + x.interval
  BY DEF TimerNode, Expiry

\* CallsInv of one timer x, whose callback runs when c, at clock reading t.
Calls(x, c, t) ==
  /\ x.repeat >= 1
  /\ IF c
     THEN /\ x.fired + x.repeat = x.rep0 + 1
          /\ x.expire = Expiry(x, x.fired) /\ x.expire <= t
     ELSE /\ x.fired + x.repeat = x.rep0
          /\ x.expire = Expiry(x, x.fired + 1)
  /\ x.fired > 0 => Expiry(x, x.fired) <= x.seen
  /\ x.seen >= t

\* Where the node is, and whether it is deleted, does not matter for that.
LEMMA CallsSame ==
  ASSUME NEW x, NEW y, NEW c, NEW t, Calls(x, c, t),
         y.expire = x.expire, y.interval = x.interval, y.repeat = x.repeat,
         y.rep0 = x.rep0, y.base = x.base, y.fired = x.fired, y.seen = x.seen
  PROVE  Calls(y, c, t)
  BY DEF Calls, Expiry

\* Every timer has been called for its expiries of the past, in turn.
LEMMA CallsStep == WheelTypeOK /\ PollInv /\ CallsInv /\ [Next]_tvars => CallsInv'
<1> SUFFICES ASSUME WheelTypeOK, PollInv, CallsInv, [Next]_tvars,
                    NEW n \in Nodes, node'[n].status # "free"
             PROVE  Calls(node'[n], Called(n)', current_time')
  BY DEF CallsInv, Calls
<1> USE TimerAssumption DEF wheel, poll
<1>0. /\ \A m \in Nodes : node[m] \in TimerNode
      /\ cur \in Nodes \cup {None} /\ current_time \in Nat
  BY DEF WheelTypeOK
<1>a. node[n].status # "free" => Calls(node[n], Called(n), current_time)
  BY DEF CallsInv, Calls
<1>b. \* steps of the wheel that leave this timer alone
      ASSUME node'[n] = node[n], Called(n)' <=> Called(n), UNCHANGED current_time
      PROVE  Calls(node'[n], Called(n)', current_time')
  BY <1>a, <1>b DEF Calls
<1>1. CASE PoolCreate
  <2>1. node[n].status = "free"
    BY <1>0, <1>1 DEF PoolCreate, PollInv, Called, TimerNode
  <2> QED
    BY <1>1, <2>1 DEF PoolCreate
<1>2. CASE PoolDestroy
  BY <1>2 DEF PoolDestroy, Poison
<1>3. ASSUME NEW m \in Nodes, Delete(m) PROVE Calls(node'[n], Called(n)', current_time')
  <2>1. UNCHANGED <<current_time, pc, cur>>
    BY <1>3 DEF Delete
  <2>2. Called(n)' <=> Called(n)
    BY <2>1 DEF Called
  <2>3. CASE m = n
    <3>1. /\ node[n].status = "running" /\ node'[n].status = "running"
          /\ SameTimer([node'[n] EXCEPT !.cancelled = FALSE], node[n])
      BY <1>3, <2>3, DeleteFacts DEF Poison
    <3>2. Calls(node[n], Called(n), current_time)
      BY <1>a, <3>1
    <3>3. node'[n] \in TimerNode
      BY WheelTypeStep DEF WheelTypeOK
    <3>4. /\ node'[n].expire = node[n].expire /\ node'[n].interval = node[n].interval
          /\ node'[n].repeat = node[n].repeat /\ node'[n].rep0 = node[n].rep0
          /\ node'[n].base = node[n].base /\ node'[n].fired = node[n].fired
          /\ node'[n].seen = node[n].seen
      BY <3>1, <3>3 DEF SameTimer, TimerNode
    <3>5. Calls(node'[n], Called(n), current_time)
      BY <3>2, <3>4, CallsSame
    <3> QED
      BY <2>1, <2>2, <3>5 DEF Calls
  <2>4. CASE m # n
    <3>1. node'[n] = node[n]
      BY <1>3, <2>4, DeleteFacts DEF OthersSame
    <3> QED
      BY <1>b, <2>1, <2>2, <3>1
  <2> QED
    BY <2>3, <2>4
<1>4. ASSUME NEW m \in Nodes, Fire(m) PROVE Calls(node'[n], Called(n)', current_time')
  <2>1. /\ UNCHANGED current_time /\ pc = "fire" /\ ~Called(n)
        /\ node[m].status = "running"
    BY <1>4, FireFacts DEF Fire, Called, PollInv
  <2>2. CASE m # n
    <3>1. node'[n] = node[n] /\ ~Called(n)'
      <4>1. node'[n] = node[n]
        BY <1>4, <2>2, FireFacts DEF OthersSame
      <4>2. (pc' = pc) \/ cur' = m
        BY <1>4, FireFacts
      <4> QED
        BY <2>1, <2>2, <4>1, <4>2 DEF Called
    <3> QED
      BY <1>b, <2>1, <3>1
  <2>3. CASE m = n
    <3> DEFINE x == node[n]
               y == node'[n]
    <3>1. Calls(x, FALSE, current_time)
      BY <1>a, <2>1, <2>3 DEF Calls
    <3>2. x \in TimerNode /\ y \in TimerNode
      BY <1>0, WheelTypeStep DEF WheelTypeOK
    <3>3. CASE UNCHANGED <<pc, cur>> /\ y.status = "pending" /\ SameTimer(y, x)
      <4>1. Calls(y, FALSE, current_time)
        BY <3>1, <3>3, CallsSame DEF SameTimer
      <4>2. ~Called(n)'
        BY <2>1, <3>3 DEF Called
      <4> QED
        BY <2>1, <4>1, <4>2 DEF Calls
    <3>4. CASE /\ x.expire <= current_time /\ pc' = "callback" /\ cur' = n
               /\ y.fired = x.fired + 1 /\ SameTimer([y EXCEPT !.fired = x.fired], x)
      <4>1. /\ y.expire = x.expire /\ y.interval = x.interval /\ y.repeat = x.repeat
            /\ y.rep0 = x.rep0 /\ y.base = x.base /\ y.seen = x.seen
        BY <3>2, <3>4 DEF SameTimer, TimerNode
      <4>2. /\ Expiry(y, y.fired) = Expiry(x, x.fired + 1) /\ y.expire <= y.seen
        <5>1. Expiry(y, y.fired) = Expiry(x, x.fired + 1)
          BY <3>4, <4>1 DEF Expiry
        <5>2. x.expire \in Nat /\ x.seen \in Nat /\ x.seen >= current_time
          BY <3>1, <3>2 DEF Calls, TimerNode
        <5> QED
          BY <1>0, <3>4, <4>1, <5>1, <5>2
      <4>3. x.fired \in Nat /\ x.repeat \in Nat /\ x.rep0 \in Nat
        BY <3>2 DEF TimerNode
      <4>4. Calls(y, TRUE, current_time)
        BY <3>1, <3>4, <4>1, <4>2, <4>3 DEF Calls
      <4> QED
        BY <2>1, <3>4, <4>4 DEF Calls, Called
    <3>5. y # Poison
      BY DEF Poison
    <3> QED
      BY <1>4, <2>3, <3>3, <3>4, <3>5, FireFacts
  <2> QED
    BY <2>2, <2>3
<1>5. ASSUME NEW m \in Nodes, NEW i \in Intervals, NEW r \in Repeats, Create(m, i, r)
      PROVE  Calls(node'[n], Called(n)', current_time')
  <2>1. UNCHANGED <<current_time, pc, cur>>
    BY <1>5 DEF Create
  <2>2. Called(n)' <=> Called(n)
    BY <2>1 DEF Called
  <2>3. CASE m # n
    <3>1. node'[n] = node[n]
      BY <1>5, <2>3, CreateFacts DEF OthersSame
    <3> QED
      BY <1>b, <2>1, <2>2, <3>1
  <2>4. CASE m = n
    <3> DEFINE y == node'[n]
    <3>1. /\ node[n].status = "free"
          /\ y.expire = current_time + i /\ y.interval = i
          /\ y.repeat = r /\ y.rep0 = r /\ y.fired = 0
          /\ y.base = current_time /\ y.seen = current_time
      BY <1>5, <2>4, CreateFacts
    <3>2. ~Called(n)
      BY <3>1 DEF PollInv
    <3>3. i \in Nat /\ r \in Nat \ {0}
      OBVIOUS
    <3>4. Expiry(y, 1) = current_time + i
      BY <1>0, <3>1, <3>3 DEF Expiry
    <3> HIDE DEF y
    <3>5. Calls(y, FALSE, current_time)
      BY <1>0, <3>1, <3>3, <3>4 DEF Calls
    <3> QED
      BY <2>1, <2>2, <3>2, <3>5 DEF y, Calls
  <2> QED
    BY <2>3, <2>4
<1>6. CASE PollBegin
  <2> DEFINE x == node[n]
             y == node'[n]
  <2>1. pc = "idle" /\ pc' \in {"idle", "advance"} /\ batch = {}
    BY <1>6 DEF PollBegin, PollInv
  <2>2. ~Called(n) /\ ~Called(n)'
    BY <2>1 DEF Called
  <2>3. /\ y \in TimerNode /\ current_time' \in Nat
        /\ y.status = x.status
        /\ y.status = "pending" => SameTimer([y EXCEPT !.seen = x.seen], x)
        /\ y.seen >= x.seen
        /\ y.status = "pending" => y.seen >= current_time'
    BY <1>6, PollBeginFacts
  <2>4. x \in TimerNode /\ x.status = "pending"
    BY <1>0, <2>1, <2>2, <2>3 DEF PollInv, TimerNode
  <2>5. /\ y.expire = x.expire /\ y.interval = x.interval /\ y.repeat = x.repeat
        /\ y.rep0 = x.rep0 /\ y.base = x.base /\ y.fired = x.fired
    BY <2>3, <2>4 DEF SameTimer, TimerNode
  <2>6. Calls(x, FALSE, current_time)
    BY <1>a, <2>2, <2>4 DEF Calls
  <2>7. \A k : Expiry(y, k) = Expiry(x, k)
    BY <2>5 DEF Expiry
  <2>8. Expiry(x, x.fired) \in Nat /\ x.seen \in Nat /\ y.seen \in Nat /\ y.seen >= x.seen
    BY <2>3, <2>4, ExpiryStep DEF TimerNode
  <2>9. y.fired > 0 => Expiry(y, y.fired) <= y.seen
    <3>1. x.fired > 0 => Expiry(x, x.fired) <= x.seen
      BY <2>6 DEF Calls
    <3> QED
      BY <2>5, <2>7, <2>8, <3>1
  <2> QED
    BY <2>2, <2>3, <2>4, <2>5, <2>6, <2>7, <2>9 DEF Calls
<1>7. CASE Advance
  <2>1. /\ UNCHANGED <<current_time, cur>> /\ pc = "advance" /\ pc' \in {"advance", "fire"}
    BY <1>7 DEF Advance
  <2>2. ~Called(n) /\ ~Called(n)'
    BY <2>1 DEF Called
  <2>3. /\ node'[n].status = "free" <=> node[n].status = "free"
        /\ SameTimer(node'[n], node[n])
    BY <1>7, AdvanceFacts
  <2>4. Calls(node[n], FALSE, current_time)
    BY <1>a, <2>2, <2>3 DEF Calls
  <2>5. Calls(node'[n], FALSE, current_time)
    BY <2>3, <2>4, CallsSame DEF SameTimer
  <2> QED
    BY <2>1, <2>2, <2>5 DEF Calls
<1>8. CASE BatchEnd \/ PollEnd
  BY <1>b, <1>8 DEF BatchEnd, PollEnd, Called
<1>9. CASE CallbackReturns
  <2>1. cur \in Nodes
    BY <1>0, <1>9 DEF CallbackReturns, PollInv
  <2>2. ~Called(n)' /\ UNCHANGED current_time
    BY <1>9, <2>1, ReturnFacts DEF Called
  <2>3. CASE cur # n
    <3>1. node'[n] = node[n] /\ ~Called(n)
      BY <1>9, <2>1, <2>3, ReturnFacts DEF OthersSame, Called
    <3> QED
      BY <1>b, <2>2, <3>1
  <2>4. CASE cur = n
    <3> DEFINE x == node[n]
               y == node'[n]
    <3>1. Calls(x, TRUE, current_time) /\ x \in TimerNode
      <4>1. Called(n) /\ node[n].status = "running"
        BY <1>9, <2>4 DEF CallbackReturns, Called, PollInv
      <4> QED
        BY <1>0, <1>a, <4>1 DEF Calls
    <3>2. /\ y.repeat = x.repeat - 1 /\ x.repeat > 1
          /\ y.expire = x.expire + x.interval /\ y.interval = x.interval
          /\ y.rep0 = x.rep0 /\ y.base = x.base
          /\ y.fired = x.fired /\ y.seen = x.seen
      BY <1>9, <2>1, <2>4, ReturnFacts DEF Poison
    <3>3. /\ Expiry(y, y.fired) = Expiry(x, x.fired)
          /\ Expiry(y, y.fired + 1) = Expiry(x, x.fired) + x.interval
      <4>1. \A k : Expiry(y, k) = Expiry(x, k)
        BY <3>2 DEF Expiry
      <4>2. x.fired \in Nat /\ Expiry(x, x.fired + 1) = Expiry(x, x.fired) + x.interval
        BY <3>1, ExpiryStep DEF TimerNode
      <4> QED
        BY <3>2, <4>1, <4>2
    <3>4. x.fired \in Nat /\ x.repeat \in Nat /\ x.rep0 \in Nat
      BY <3>1 DEF TimerNode
    <3> HIDE DEF x, y
    <3>5. Calls(y, FALSE, current_time)
      BY <3>1, <3>2, <3>3, <3>4 DEF Calls
    <3> QED
      BY <2>2, <3>5 DEF y, Calls
  <2> QED
    BY <2>3, <2>4
<1>10. CASE UNCHANGED tvars
  BY <1>b, <1>10 DEF tvars, Called
<1> QED
  BY <1>1, <1>2, <1>3, <1>4, <1>5, <1>6, <1>7, <1>8, <1>9, <1>10 DEF Next, PollStep
-----------------------------------------------------------------------------
(* The invariant of the poll.                                               *)

WheelInv == WheelTypeOK /\ PollInv /\ CallsInv

LEMMA WheelInit == Init => WheelInv /\ CountInv
<1> SUFFICES ASSUME Init PROVE WheelInv /\ CountInv
  OBVIOUS
<1>1. WheelTypeOK
  <2>1. node \in [Nodes -> TimerNode]
    BY PoisonType DEF Init
  <2>2. batch \in SUBSET Nodes /\ cur \in Nodes \cup {None}
    BY DEF Init
  <2>3. /\ current_time \in Nat /\ current_jiffies \in Nat /\ active_count \in Int
        /\ pc \in {"idle", "advance", "fire", "callback"}
    BY DEF Init
  <2>4. pool \in BOOLEAN
    BY Zenon DEF Init
  <2> QED
    BY <2>1, <2>2, <2>3, <2>4 DEF WheelTypeOK
<1>2. PollInv /\ CallsInv /\ CountInv
  BY TimerAssumption DEF Init, PollInv, CallsInv, CountInv, Called, Poison
<1> QED
  BY <1>1, <1>2 DEF WheelInv

LEMMA WheelStep == WheelInv /\ [Next]_tvars => WheelInv'
  BY WheelTypeStep, PollStepInv, CallsStep DEF WheelInv
-----------------------------------------------------------------------------
(* No timer is skipped.                                                     *)

\* The wheel has not passed j.
Clock == /\ current_jiffies <= current_time
         /\ pc = "idle" => current_jiffies = current_time
         /\ pc \in {"fire", "callback"} => current_jiffies < current_time

\* Timer x when the clock was read at now, the wheel is at j and next looks at from.
Timely(x, now, j, from) ==
  x.status # "free" /\ (x.interval > 0 \/ x.rep0 = 1) =>
    /\ x.repeat <= x.rep0
    /\ x.expire >= x.seen \/ x.seen = now
    /\ x.expire >= j
    /\ x.status = "pending" => \E t \in from..x.expire : Reaches(t, x)

LEMMA TimelyParts ==
  TimelyInv <=> Clock /\ \A n \in Nodes : Timely(node[n], current_time, current_jiffies, Ahead)
  BY DEF TimelyInv, Clock, Timely

LEMMA ClockStep == WheelInv /\ Clock /\ [Next]_tvars => Clock'
<1> SUFFICES ASSUME WheelInv, Clock, [Next]_tvars PROVE Clock'
  OBVIOUS
<1> USE DEF Clock, wheel, poll
<1>0. current_time \in Nat /\ current_jiffies \in Nat /\ (pc # "idle" => pool)
  BY DEF WheelInv, WheelTypeOK, PollInv
<1>1. CASE PoolCreate
  BY <1>0, <1>1 DEF PoolCreate
<1>2. CASE PoolDestroy
  BY <1>2 DEF PoolDestroy
<1>3. ASSUME NEW n \in Nodes, Delete(n) PROVE Clock'
  BY <1>3 DEF Delete
<1>4. ASSUME NEW n \in Nodes, Fire(n) PROVE Clock'
  BY <1>4 DEF Fire
<1>5. ASSUME NEW n \in Nodes, NEW i \in Intervals, NEW r \in Repeats, Create(n, i, r) PROVE Clock'
  BY <1>5 DEF Create
<1>6. CASE PollBegin
  BY <1>0, <1>6 DEF PollBegin
<1>7. CASE Advance
  BY <1>0, <1>7 DEF Advance
<1>8. CASE BatchEnd
  BY <1>0, <1>8 DEF BatchEnd
<1>9. CASE PollEnd
  BY <1>0, <1>9 DEF PollEnd
<1>10. CASE CallbackReturns
  BY <1>10 DEF CallbackReturns
<1>11. CASE UNCHANGED tvars
  BY <1>11 DEF tvars
<1> QED
  BY <1>1, <1>2, <1>3, <1>4, <1>5, <1>6, <1>7, <1>8, <1>9, <1>10, <1>11 DEF Next, PollStep

\* A timer put into the wheel ahead of its position.
LEMMA PlacedTimely ==
  ASSUME current_jiffies \in Nat, NEW x \in TimerNode, NEW now, NEW from \in Nat,
         from \in {current_jiffies, current_jiffies + 1},
         x.interval > 0 \/ x.rep0 = 1 =>
           /\ x.expire >= from /\ x.repeat <= x.rep0
           /\ x.expire >= x.seen \/ x.seen = now
  PROVE  Timely(Placed(x), now, current_jiffies, from)
<1> DEFINE y == Placed(x)
<1>1. y \in TimerNode /\ SameTimer(y, x)
  BY PlacedFacts
<1> SUFFICES ASSUME x.interval > 0 \/ x.rep0 = 1
             PROVE  /\ x.repeat <= x.rep0
                    /\ x.expire >= x.seen \/ x.seen = now
                    /\ x.expire >= current_jiffies
                    /\ \E t \in from..x.expire : Reaches(t, y)
  BY <1>1 DEF Timely, SameTimer
<1>2. x.expire \in Nat /\ x.expire >= from /\ x.expire >= current_jiffies
  BY DEF TimerNode
<1>3. PICK t \in current_jiffies..x.expire :
        Reaches(t, y) /\ (t = current_jiffies => x.expire = current_jiffies)
  BY <1>2, PlacedReach
<1>4. t \in from..x.expire
  BY <1>2, <1>3
<1> QED
  BY <1>2, <1>3, <1>4

\* One jiffy: what stays in the wheel is reached later, what is locked is not late.
LEMMA AdvanceTimely ==
  ASSUME WheelInv, TimelyInv, Advance, NEW n \in Nodes
  PROVE  Timely(node'[n], current_time', current_jiffies', Ahead')
<1> DEFINE j == current_jiffies
           x == node[n]
           y == Cascaded[n]
           z == node'[n]
           b == batch'
<1>1. /\ x \in TimerNode /\ j \in Nat /\ current_time \in Nat
      /\ pc = "advance" /\ j < current_time /\ batch = {}
  BY DEF WheelInv, WheelTypeOK, PollInv, Advance
<1>2. Timely(x, current_time, j, j)
  BY <1>1, TimelyParts DEF Ahead
<1>3. /\ n \in b <=> y.status = "pending" /\ y.level = 0 /\ y.slot = Slot(j, 0)
      /\ z = IF n \in b THEN [y EXCEPT !.status = "running"] ELSE y
      /\ pc' = IF b = {} THEN "advance" ELSE "fire"
      /\ current_jiffies' = IF b = {} THEN j + 1 ELSE j
      /\ current_time' = current_time
  BY DEF Advance
<1>4. y \in TimerNode /\ y.status = x.status /\ SameTimer(y, x)
  BY CascadedFacts DEF WheelInv
<1>5. y = IF Due(x) THEN Placed(x) ELSE x
  BY DEF Cascaded
<1>6. x.status # "running"
  BY <1>1 DEF WheelInv, PollInv, Called
<1>7. /\ z.status # "free" => x.status # "free"
      /\ z.interval = x.interval /\ z.rep0 = x.rep0 /\ z.repeat = x.repeat
      /\ z.expire = x.expire /\ z.seen = x.seen /\ z.level = y.level /\ z.slot = y.slot
      /\ z.status = "pending" <=> (y.status = "pending" /\ n \notin b)
  BY <1>1, <1>3, <1>4, <1>6 DEF TimerNode, SameTimer
<1>8. Ahead' = j + 1 /\ (b # {} => current_jiffies' = j) /\ (b = {} => current_jiffies' = j + 1)
  BY <1>3 DEF Ahead
<1> HIDE DEF b, z, y
<1> SUFFICES ASSUME z.status # "free", x.interval > 0 \/ x.rep0 = 1
             PROVE  /\ x.repeat <= x.rep0
                    /\ x.expire >= x.seen \/ x.seen = current_time
                    /\ x.expire >= current_jiffies'
                    /\ n \notin b => \E t \in (j + 1)..x.expire : Reaches(t, z)
  BY <1>3, <1>7, <1>8 DEF Timely, z
<1>9. /\ x.status = "pending" /\ x.repeat <= x.rep0 /\ x.expire >= j
      /\ x.expire >= x.seen \/ x.seen = current_time
      /\ \E t \in j..x.expire : Reaches(t, x)
  BY <1>1, <1>2, <1>6, <1>7 DEF Timely, TimerNode
<1>10. x.expire \in Nat
  BY <1>1 DEF TimerNode
<1>11. \E t \in j..x.expire : Reaches(t, y) /\ (t = j => y.level = 0)
  <2>1. CASE Due(x)
    <3>1. y = Placed(x)
      BY <1>5, <2>1
    <3>2. \E t \in j..x.expire : Reaches(t, Placed(x)) /\ (t = j => Placed(x).level = 0)
      BY <1>1, <1>9, PlacedReach
    <3> QED
      BY <3>1, <3>2
  <2>2. CASE ~Due(x)
    <3>1. PICK t \in j..x.expire : Reaches(t, x)
      BY <1>9
    <3>2. y = x
      BY <1>5, <2>2
    <3>3. t = j => x.level = 0
      <4> SUFFICES ASSUME t = j, x.level # 0 PROVE FALSE
        OBVIOUS
      <4>1. x.level > 0
        BY <1>1, TimerAssumption DEF TimerNode
      <4> QED
        BY <1>9, <2>2, <3>1, <4>1 DEF Due, Reaches
    <3> QED
      BY <3>1, <3>2, <3>3
  <2> QED
    BY <2>1, <2>2
<1>12. PICK t \in j..x.expire : Reaches(t, y) /\ (t = j => y.level = 0)
  BY <1>11
<1>13. n \notin b => t \in (j + 1)..x.expire /\ Reaches(t, z)
  <2> SUFFICES ASSUME n \notin b PROVE t \in (j + 1)..x.expire /\ Reaches(t, z)
    OBVIOUS
  <2>1. t # j
    <3> SUFFICES ASSUME t = j PROVE FALSE
      OBVIOUS
    <3>1. y.level = 0 /\ y.slot = Slot(j, 0) /\ y.status = "pending"
      BY <1>4, <1>9, <1>12 DEF Reaches
    <3> QED
      BY <1>3, <3>1
  <2>2. t \in (j + 1)..x.expire
    BY <1>1, <1>10, <2>1
  <2>3. Reaches(t, z)
    BY <1>7, <1>12 DEF Reaches
  <2> QED
    BY <2>2, <2>3
<1>14. x.expire >= current_jiffies'
  <2>1. CASE b = {}
    <3>1. t \in (j + 1)..x.expire
      BY <1>13, <2>1
    <3> QED
      BY <1>1, <1>8, <1>10, <2>1, <3>1
  <2>2. CASE b # {}
    BY <1>8, <1>9, <2>2
  <2> QED
    BY <2>1, <2>2
<1> QED
  BY <1>9, <1>13, <1>14

\* A step that leaves the timer and what it depends on alone.
LEMMA TimelySame ==
  ASSUME NEW x, NEW y, NEW now, NEW j, NEW from, Timely(x, now, j, from),
         y.status = x.status, y.level = x.level, y.slot = x.slot,
         y.interval = x.interval, y.rep0 = x.rep0, y.repeat = x.repeat,
         y.expire = x.expire, y.seen = x.seen
  PROVE  Timely(y, now, j, from)
  BY DEF Timely, Reaches

LEMMA TimelyStep ==
  ASSUME WheelInv, TimelyInv, [Next]_tvars, NEW n \in Nodes
  PROVE  Timely(node'[n], current_time', current_jiffies', Ahead')
<1> USE TimerAssumption DEF wheel, poll
<1>0. /\ \A m \in Nodes : node[m] \in TimerNode
      /\ cur \in Nodes \cup {None} /\ current_time \in Nat /\ current_jiffies \in Nat
      /\ Clock /\ WheelTypeOK
  BY TimelyParts DEF WheelInv, WheelTypeOK
<1>a. Timely(node[n], current_time, current_jiffies, Ahead)
  BY TimelyParts
<1>b. ASSUME node'[n] = node[n], UNCHANGED <<current_time, current_jiffies>>, Ahead' = Ahead
      PROVE  Timely(node'[n], current_time', current_jiffies', Ahead')
  BY <1>a, <1>b
<1>c. ASSUME node'[n] = Poison
      PROVE  Timely(node'[n], current_time', current_jiffies', Ahead')
  BY <1>c DEF Timely, Poison
<1>1. CASE PoolCreate
  <2>1. node[n].status = "free" /\ node'[n] = node[n]
    BY <1>0, <1>1 DEF PoolCreate, WheelInv, PollInv, Called, TimerNode
  <2> QED
    BY <2>1 DEF Timely
<1>2. CASE PoolDestroy
  BY <1>2, <1>c DEF PoolDestroy
<1>3. ASSUME NEW m \in Nodes, Delete(m)
      PROVE  Timely(node'[n], current_time', current_jiffies', Ahead')
  <2>1. UNCHANGED <<current_time, current_jiffies>> /\ Ahead' = Ahead
    BY <1>3 DEF Delete, Ahead
  <2>2. node'[n] \in {node[n], Poison, [node[n] EXCEPT !.cancelled = TRUE]}
    BY <1>0, <1>3 DEF Delete, WheelTypeOK
  <2>3. CASE node'[n] = [node[n] EXCEPT !.cancelled = TRUE]
    <3> DEFINE x == node[n]
               y == node'[n]
    <3>1. /\ y.status = x.status /\ y.level = x.level /\ y.slot = x.slot
          /\ y.interval = x.interval /\ y.rep0 = x.rep0 /\ y.repeat = x.repeat
          /\ y.expire = x.expire /\ y.seen = x.seen
      BY <1>0, <2>3 DEF TimerNode
    <3> HIDE DEF x, y
    <3>2. Timely(y, current_time, current_jiffies, Ahead)
      BY <1>a, <3>1, TimelySame DEF x
    <3> QED
      BY <2>1, <3>2 DEF y
  <2> QED
    BY <1>b, <1>c, <2>1, <2>2, <2>3
<1>4. ASSUME NEW m \in Nodes, Fire(m)
      PROVE  Timely(node'[n], current_time', current_jiffies', Ahead')
  <2>1. /\ UNCHANGED <<current_time, current_jiffies>> /\ pc = "fire" /\ pc' \in {"fire", "callback"}
        /\ current_jiffies < current_time
    BY <1>0, <1>4 DEF Fire, Clock
  <2>2. Ahead = current_jiffies + 1 /\ Ahead' = Ahead
    BY <2>1 DEF Ahead
  <2>3. CASE m # n
    <3>1. node'[n] = node[n]
      BY <1>0, <1>4, <2>3 DEF Fire, WheelTypeOK
    <3> QED
      BY <1>b, <2>1, <2>2, <3>1
  <2>4. CASE m = n
    <3> DEFINE x == node[n]
               y == node'[n]
    <3>1. /\ x \in TimerNode /\ x.status = "running"
          /\ \/ y = Poison
             \/ y = Placed(x) /\ x.expire > current_time
             \/ y = [x EXCEPT !.fired = @ + 1]
      BY <1>0, <1>4, <2>4 DEF Fire, WheelInv, PollInv, WheelTypeOK
    <3>2. CASE y = [x EXCEPT !.fired = @ + 1]
      <4>1. /\ y.status = x.status /\ y.level = x.level /\ y.slot = x.slot
            /\ y.interval = x.interval /\ y.rep0 = x.rep0 /\ y.repeat = x.repeat
            /\ y.expire = x.expire /\ y.seen = x.seen
        BY <3>1, <3>2 DEF TimerNode
      <4> HIDE DEF x, y
      <4>2. Timely(y, current_time, current_jiffies, Ahead)
        BY <1>a, <4>1, TimelySame DEF x
      <4> QED
        BY <2>1, <2>2, <4>2 DEF y
    <3>3. CASE y = Placed(x) /\ x.expire > current_time
      <4>1. x.expire \in Nat /\ x.expire >= current_jiffies + 1
        BY <1>0, <2>1, <3>1, <3>3 DEF TimerNode
      <4>2. x.interval > 0 \/ x.rep0 = 1 =>
              x.repeat <= x.rep0 /\ (x.expire >= x.seen \/ x.seen = current_time)
        BY <1>a, <3>1 DEF Timely
      <4> HIDE DEF x, y
      <4>3. Timely(Placed(x), current_time, current_jiffies, current_jiffies + 1)
        BY <1>0, <3>1, <4>1, <4>2, PlacedTimely
      <4> QED
        BY <2>1, <2>2, <3>3, <4>3 DEF y
    <3> QED
      BY <1>c, <3>1, <3>2, <3>3
  <2> QED
    BY <2>3, <2>4
<1>5. ASSUME NEW m \in Nodes, NEW i \in Intervals, NEW r \in Repeats, Create(m, i, r)
      PROVE  Timely(node'[n], current_time', current_jiffies', Ahead')
  <2>1. UNCHANGED <<current_time, current_jiffies>> /\ Ahead' = Ahead /\ pc \in {"idle", "callback"}
    BY <1>5 DEF Create, CanCall, Ahead
  <2>2. CASE m # n
    <3>1. node'[n] = node[n]
      BY <1>0, <1>5, <2>2 DEF Create, WheelTypeOK
    <3> QED
      BY <1>b, <2>1, <3>1
  <2>3. CASE m = n
    <3> DEFINE x == [Poison EXCEPT !.cancelled = FALSE, !.interval = i,
                       !.expire = current_time + i, !.repeat = r,
                       !.rep0 = r, !.base = current_time, !.seen = current_time]
    <3>1. i \in Nat /\ r \in Nat /\ current_time + i \in Nat
      BY <1>0
    <3>2. x \in TimerNode
      BY <1>0, <3>1, PoisonType DEF TimerNode
    <3>3. x.expire = current_time + i /\ x.repeat = r /\ x.rep0 = r /\ x.seen = current_time
      BY DEF Poison
    <3>4. node'[n] = Placed(x)
      BY <1>0, <1>5, <2>3 DEF Create, WheelTypeOK
    <3> HIDE DEF x
    <3>5. /\ Ahead \in Nat /\ Ahead \in {current_jiffies, current_jiffies + 1}
          /\ x.expire >= Ahead
      BY <1>0, <2>1, <3>1, <3>3 DEF Ahead, Clock
    <3>6. Timely(Placed(x), current_time, current_jiffies, Ahead)
      <4>1. x.repeat <= x.rep0 /\ x.seen = current_time
        BY <3>1, <3>3
      <4> QED
        BY <1>0, <3>2, <3>5, <4>1, PlacedTimely
    <3> QED
      BY <2>1, <3>4, <3>6
  <2> QED
    BY <2>2, <2>3
<1>6. CASE PollBegin
  <2> DEFINE x == node[n]
             y == node'[n]
             now == current_time'
  <2>1. /\ pc = "idle" /\ current_jiffies = current_time /\ Ahead = current_jiffies
        /\ now \in Nat /\ pc' \in {"idle", "advance"} /\ Ahead' = current_jiffies'
        /\ \/ now < current_jiffies /\ current_jiffies' = now
           \/ now >= current_jiffies /\ current_jiffies' = current_jiffies
    BY <1>0, <1>6 DEF PollBegin, Clock, Ahead
  <2>2. /\ x \in TimerNode /\ x.status \in {"free", "pending"}
    BY <1>0, <2>1 DEF WheelInv, PollInv, Called, TimerNode
  <2>3. /\ y.status = x.status /\ y.level = x.level /\ y.slot = x.slot
        /\ y.interval = x.interval /\ y.rep0 = x.rep0 /\ y.repeat = x.repeat
        /\ y.expire = x.expire
        /\ y.seen = IF x.status = "pending" /\ now > x.seen THEN now ELSE x.seen
    BY <1>6, <2>2 DEF PollBegin, TimerNode
  <2>4. Timely(x, current_time, current_jiffies, current_jiffies)
    BY <1>a, <2>1
  <2> SUFFICES ASSUME x.status = "pending", x.interval > 0 \/ x.rep0 = 1
               PROVE  /\ x.repeat <= x.rep0
                      /\ x.expire >= y.seen \/ y.seen = now
                      /\ x.expire >= current_jiffies'
                      /\ \E t \in current_jiffies'..x.expire : Reaches(t, y)
    BY <2>1, <2>2, <2>3 DEF Timely
  <2>5. /\ x.repeat <= x.rep0 /\ x.expire >= current_jiffies /\ x.expire >= x.seen
        /\ x.expire \in Nat /\ x.seen \in Nat
    BY <2>1, <2>2, <2>4 DEF Timely, TimerNode
  <2>6. PICK t \in current_jiffies..x.expire : Reaches(t, x)
    BY <2>4 DEF Timely
  <2>7. t \in current_jiffies'..x.expire /\ Reaches(t, y) /\ x.expire >= current_jiffies'
    <3>1. current_jiffies' \in Nat /\ current_jiffies' <= current_jiffies
      BY <1>0, <2>1
    <3>2. Reaches(t, y)
      BY <2>3, <2>6 DEF Reaches
    <3> HIDE DEF x, y
    <3> QED
      BY <1>0, <2>5, <2>6, <3>1, <3>2
  <2>8. x.expire >= y.seen \/ y.seen = now
    BY <2>3, <2>5
  <2> QED
    BY <2>5, <2>7, <2>8
<1>7. CASE Advance
  BY <1>7, AdvanceTimely
<1>8. CASE BatchEnd
  <2>1. /\ node' = node /\ current_time' = current_time /\ pc = "fire" /\ pc' = "advance"
        /\ current_jiffies' = current_jiffies + 1 /\ batch = {}
    BY <1>8 DEF BatchEnd
  <2>2. Ahead = current_jiffies + 1 /\ Ahead' = current_jiffies + 1
    BY <2>1 DEF Ahead
  <2> DEFINE x == node[n]
  <2>3. x \in TimerNode /\ x.status \in {"free", "pending"}
    BY <1>0, <2>1 DEF WheelInv, PollInv, Called, TimerNode
  <2>4. ASSUME x.status = "pending", x.interval > 0 \/ x.rep0 = 1
        PROVE  x.expire >= current_jiffies + 1
    <3>1. PICK t \in (current_jiffies + 1)..x.expire : Reaches(t, x)
      BY <1>a, <2>2, <2>4 DEF Timely
    <3>2. x.expire \in Nat
      BY <2>3 DEF TimerNode
    <3> QED
      BY <1>0, <3>1, <3>2
  <2> QED
    BY <1>a, <2>1, <2>2, <2>3, <2>4 DEF Timely
<1>9. CASE PollEnd
  <2>1. node' = node /\ UNCHANGED <<current_time, current_jiffies>> /\ Ahead' = Ahead
    BY <1>9 DEF PollEnd, Ahead
  <2> QED
    BY <1>b, <2>1
<1>10. CASE CallbackReturns
  <2>1. /\ UNCHANGED <<current_time, current_jiffies>> /\ Ahead = current_jiffies + 1
        /\ Ahead' = Ahead /\ cur \in Nodes
    BY <1>0, <1>10 DEF CallbackReturns, Ahead, WheelInv, PollInv
  <2>2. CASE cur # n
    <3>1. node'[n] = node[n]
      BY <1>0, <1>10, <2>2 DEF CallbackReturns, WheelTypeOK
    <3> QED
      BY <1>b, <2>1, <3>1
  <2>3. CASE cur = n
    <3> DEFINE x == node[n]
               y == [x EXCEPT !.repeat = @ - 1, !.expire = @ + x.interval]
    <3>1. x \in TimerNode /\ x.status = "running"
      BY <1>0, <1>10, <2>1, <2>3 DEF CallbackReturns, WheelInv, PollInv, Called
    <3>2. node'[n] = IF ~x.cancelled /\ x.repeat > 1 THEN Placed(y) ELSE Poison
      BY <1>0, <1>10, <2>3 DEF CallbackReturns, WheelTypeOK
    <3>3. CASE ~(~x.cancelled /\ x.repeat > 1)
      BY <1>c, <3>2, <3>3
    <3>4. CASE ~x.cancelled /\ x.repeat > 1
      <4>1. /\ x.repeat \in Nat /\ x.expire \in Nat /\ x.interval \in Nat /\ x.rep0 \in Nat
            /\ x.repeat - 1 \in Nat /\ x.expire + x.interval \in Nat
        BY <3>1, <3>4 DEF TimerNode
      <4>2. /\ y \in TimerNode
            /\ y.repeat = x.repeat - 1 /\ y.expire = x.expire + x.interval
            /\ y.interval = x.interval /\ y.rep0 = x.rep0 /\ y.seen = x.seen
        BY <3>1, <4>1 DEF TimerNode
      <4>3. ASSUME x.interval > 0 \/ x.rep0 = 1
            PROVE  /\ y.expire >= current_jiffies + 1 /\ y.repeat <= y.rep0
                   /\ y.expire >= y.seen \/ y.seen = current_time
        <5>1. /\ x.repeat <= x.rep0 /\ x.expire >= current_jiffies
              /\ x.expire >= x.seen \/ x.seen = current_time
          BY <1>a, <3>1, <4>3 DEF Timely
        <5>2. x.interval > 0
          BY <3>4, <4>1, <4>3, <5>1
        <5>3. x.seen \in Nat
          BY <3>1 DEF TimerNode
        <5> HIDE DEF x, y
        <5> QED
          BY <1>0, <4>1, <4>2, <5>1, <5>2, <5>3
      <4> HIDE DEF x, y
      <4>4. Timely(Placed(y), current_time, current_jiffies, current_jiffies + 1)
        BY <1>0, <4>2, <4>3, PlacedTimely
      <4> QED
        BY <2>1, <3>2, <3>4, <4>4
    <3> QED
      BY <3>3, <3>4
  <2> QED
    BY <2>2, <2>3
<1>11. CASE UNCHANGED tvars
  <2>1. node' = node /\ UNCHANGED <<current_time, current_jiffies>> /\ Ahead' = Ahead
    BY <1>11 DEF tvars, Ahead
  <2> QED
    BY <1>b, <2>1
<1> QED
  BY <1>1, <1>2, <1>3, <1>4, <1>5, <1>6, <1>7, <1>8, <1>9, <1>10, <1>11 DEF Next, PollStep

LEMMA TimelyInduction == WheelInv /\ TimelyInv /\ [Next]_tvars => TimelyInv'
<1> SUFFICES ASSUME WheelInv, TimelyInv, [Next]_tvars PROVE TimelyInv'
  OBVIOUS
<1>1. Clock'
  BY ClockStep, TimelyParts
<1>2. \A n \in Nodes : Timely(node'[n], current_time', current_jiffies', Ahead')
  BY TimelyStep
<1> QED
  BY <1>1, <1>2 DEF TimelyInv, Timely, Clock
-----------------------------------------------------------------------------
(* The types that depend on the sizes of the wheel.                         *)

LEMMA LodgedStep ==
  ASSUME WheelInv, [Next]_tvars, NEW n \in Nodes, Lodged(node[n])
  PROVE  Lodged(node'[n])
<1> USE TimerAssumption DEF wheel, poll
<1>0. WheelTypeOK /\ (\A m \in Nodes : node[m] \in TimerNode) /\ current_jiffies \in Nat
      /\ cur \in Nodes \cup {None}
  BY DEF WheelInv, WheelTypeOK
<1>a. ASSUME node'[n] = Poison PROVE Lodged(node'[n])
  BY <1>a DEF Lodged, Poison, Size
<1>b. ASSUME NEW x \in TimerNode, node'[n] = Placed(x) PROVE Lodged(node'[n])
  BY <1>0, <1>b, PlacedFacts
<1>c. ASSUME node'[n].level = node[n].level, node'[n].slot = node[n].slot PROVE Lodged(node'[n])
  BY <1>c DEF Lodged
<1>1. CASE PoolCreate \/ BatchEnd \/ PollEnd \/ UNCHANGED tvars
  <2>1. node' = node
    BY <1>1 DEF PoolCreate, BatchEnd, PollEnd, tvars
  <2> QED
    BY <2>1
<1>2. CASE PoolDestroy
  BY <1>2, <1>a DEF PoolDestroy
<1>3. ASSUME NEW m \in Nodes, Delete(m) PROVE Lodged(node'[n])
  <2>1. node'[n] \in {node[n], Poison, [node[n] EXCEPT !.cancelled = TRUE]}
    BY <1>0, <1>3 DEF Delete, WheelTypeOK
  <2>2. CASE node'[n] = [node[n] EXCEPT !.cancelled = TRUE]
    <3>1. node'[n].level = node[n].level /\ node'[n].slot = node[n].slot
      BY <1>0, <2>2 DEF TimerNode
    <3> QED
      BY <1>c, <3>1
  <2> QED
    BY <1>a, <2>1, <2>2
<1>4. ASSUME NEW m \in Nodes, Fire(m) PROVE Lodged(node'[n])
  <2>1. node'[n] \in {node[n], Poison, Placed(node[n]), [node[n] EXCEPT !.fired = @ + 1]}
    BY <1>0, <1>4 DEF Fire, WheelTypeOK
  <2>2. CASE node'[n] = [node[n] EXCEPT !.fired = @ + 1]
    <3>1. node'[n].level = node[n].level /\ node'[n].slot = node[n].slot
      BY <1>0, <2>2 DEF TimerNode
    <3> QED
      BY <1>c, <3>1
  <2> QED
    BY <1>0, <1>a, <1>b, <2>1, <2>2
<1>5. ASSUME NEW m \in Nodes, NEW i \in Intervals, NEW r \in Repeats, Create(m, i, r)
      PROVE  Lodged(node'[n])
  <2> DEFINE x == [Poison EXCEPT !.cancelled = FALSE, !.interval = i,
                     !.expire = current_time + i, !.repeat = r,
                     !.rep0 = r, !.base = current_time, !.seen = current_time]
  <2>1. current_time \in Nat /\ i \in Nat /\ r \in Nat /\ current_time + i \in Nat
    BY <1>0 DEF WheelTypeOK
  <2>2. x \in TimerNode
    BY <2>1, PoisonType DEF TimerNode
  <2>3. node' = [node EXCEPT ![m] = Placed(x)]
    BY <1>5 DEF Create
  <2> HIDE DEF x
  <2>4. node'[n] = node[n] \/ node'[n] = Placed(x)
    BY <1>0, <2>3 DEF WheelTypeOK
  <2> QED
    BY <1>b, <2>2, <2>4
<1>6. CASE PollBegin
  <2>1. node'[n] \in {node[n], [node[n] EXCEPT !.seen = current_time']}
    BY <1>6 DEF PollBegin
  <2>2. node'[n].level = node[n].level /\ node'[n].slot = node[n].slot
    BY <1>0, <2>1 DEF TimerNode
  <2> QED
    BY <1>c, <2>2
<1>7. CASE Advance
  <2> DEFINE y == Cascaded[n]
  <2>1. y = Placed(node[n]) \/ y = node[n]
    BY DEF Cascaded
  <2>2. y \in TimerNode /\ Lodged(y)
    BY <1>0, <2>1, PlacedFacts
  <2>3. node'[n] = y \/ node'[n] = [y EXCEPT !.status = "running"]
    BY <1>7 DEF Advance
  <2> HIDE DEF y
  <2>4. node'[n].level = y.level /\ node'[n].slot = y.slot
    BY <2>2, <2>3 DEF TimerNode
  <2> QED
    BY <2>2, <2>4 DEF Lodged
<1>8. CASE CallbackReturns
  <2> DEFINE x == node[cur]
             y == [x EXCEPT !.repeat = @ - 1, !.expire = @ + x.interval]
  <2>1. cur \in Nodes
    BY <1>0, <1>8 DEF CallbackReturns, WheelInv, PollInv
  <2>2. x \in TimerNode
    BY <1>0, <2>1
  <2>3. node'[n] = node[n] \/ node'[n] = Poison \/ (node'[n] = Placed(y) /\ x.repeat > 1)
    BY <1>0, <1>8, <2>1 DEF CallbackReturns, WheelTypeOK
  <2>4. x.repeat > 1 => y \in TimerNode
    <3> SUFFICES ASSUME x.repeat > 1 PROVE y \in TimerNode
      OBVIOUS
    <3> HIDE DEF x
    <3>1. x.repeat - 1 \in Nat /\ x.expire + x.interval \in Nat
      BY <2>2 DEF TimerNode
    <3> QED
      BY <2>2, <3>1 DEF TimerNode
  <2> HIDE DEF x, y
  <2> QED
    BY <1>a, <1>b, <2>3, <2>4
<1> QED
  BY <1>1, <1>2, <1>3, <1>4, <1>5, <1>6, <1>7, <1>8 DEF Next, PollStep

\* The readings of the clock, and the time a poll returns.
Bounds == /\ current_time \in 0..MaxTime /\ current_jiffies \in 0..MaxTime
          /\ next_timeout \in 0..(TVR_SIZE - 1)

LEMMA BoundsStep == WheelInv /\ Clock /\ Bounds /\ [Next]_tvars => Bounds'
<1> SUFFICES ASSUME WheelInv, Clock, Bounds, [Next]_tvars PROVE Bounds'
  OBVIOUS
<1> USE TimerAssumption DEF Bounds, wheel, poll
<1>1. CASE PoolCreate
  BY <1>1 DEF PoolCreate
<1>2. CASE PoolDestroy
  BY <1>2 DEF PoolDestroy
<1>3. ASSUME NEW n \in Nodes, Delete(n) PROVE Bounds'
  BY <1>3 DEF Delete
<1>4. ASSUME NEW n \in Nodes, Fire(n) PROVE Bounds'
  BY <1>4 DEF Fire
<1>5. ASSUME NEW n \in Nodes, NEW i \in Intervals, NEW r \in Repeats, Create(n, i, r) PROVE Bounds'
  BY <1>5 DEF Create
<1>6. CASE PollBegin
  <2>1. current_time' \in 0..MaxTime
    BY <1>6 DEF PollBegin
  <2>2. TVR_SIZE - 1 \in 0..(TVR_SIZE - 1)
    OBVIOUS
  <2>3. current_jiffies' \in {current_time', current_jiffies}
    BY <1>6 DEF PollBegin
  <2>4. next_timeout' \in {TVR_SIZE - 1, next_timeout}
    BY <1>6 DEF PollBegin
  <2> QED
    BY <2>1, <2>2, <2>3, <2>4
<1>7. CASE Advance
  BY <1>7 DEF Advance
<1>8. CASE BatchEnd
  BY <1>8 DEF BatchEnd, Clock
<1>9. CASE PollEnd
  <2>1. Occupied \subseteq 0..(TVR_SIZE - 1) /\ Occupied \in SUBSET Nat
    BY DEF Occupied
  <2>2. next_timeout' \in 0..(TVR_SIZE - 1)
    <3>1. CASE Occupied = {}
      BY <1>9, <3>1 DEF PollEnd
    <3>2. CASE Occupied # {}
      <4>1. \E i \in Occupied : \A k \in Occupied : i <= k
        BY <2>1, <3>2, LeastNat
      <4>2. next_timeout' = CHOOSE i \in Occupied : \A k \in Occupied : i <= k
        BY <1>9, <3>2 DEF PollEnd
      <4>3. next_timeout' \in Occupied
        BY <4>1, <4>2
      <4> QED
        BY <2>1, <4>3
    <3> QED
      BY <3>1, <3>2
  <2> QED
    BY <1>9, <2>2 DEF PollEnd
<1>10. CASE CallbackReturns
  BY <1>10 DEF CallbackReturns
<1>11. CASE UNCHANGED tvars
  BY <1>11 DEF tvars
<1> QED
  BY <1>1, <1>2, <1>3, <1>4, <1>5, <1>6, <1>7, <1>8, <1>9, <1>10, <1>11 DEF Next, PollStep

\* What the theorems below follow from.
TimerInv == WheelInv /\ TimelyInv /\ Bounds /\ \A n \in Nodes : Lodged(node[n])

LEMMA TimerInvInit == Init => TimerInv
<1> SUFFICES ASSUME Init PROVE TimerInv
  OBVIOUS
<1>1. WheelInv
  BY WheelInit
<1>2. TimelyInv
  BY DEF Init, TimelyInv, Poison
<1>3. Bounds /\ \A n \in Nodes : Lodged(node[n])
  BY TimerAssumption DEF Init, Bounds, Lodged, Poison, Size
<1> QED
  BY <1>1, <1>2, <1>3 DEF TimerInv

LEMMA TimerInvStep == TimerInv /\ [Next]_tvars => TimerInv'
<1> SUFFICES ASSUME TimerInv, [Next]_tvars PROVE TimerInv'
  OBVIOUS
<1>1. WheelInv' /\ TimelyInv'
  BY WheelStep, TimelyInduction DEF TimerInv
<1>2. Bounds'
  BY BoundsStep, TimelyParts DEF TimerInv
<1>3. \A n \in Nodes : Lodged(node'[n])
  BY LodgedStep DEF TimerInv
<1>4. (\A n \in Nodes : Lodged(node[n]))'
  BY <1>3 DEF Lodged
<1> QED
  BY <1>1, <1>2, <1>4 DEF TimerInv

LEMMA TimerInvAlways == Spec => []TimerInv
  BY TimerInvInit, TimerInvStep, PTL DEF Spec

LEMMA TypesFromInv == TimerInv => TimerTypeOK
<1> SUFFICES ASSUME TimerInv PROVE TimerTypeOK
  OBVIOUS
<1>1. WheelTypeOK
  BY DEF TimerInv, WheelInv
<1>2. ASSUME NEW n \in Nodes
      PROVE  /\ node[n].status \in {"free", "pending", "running"}
             /\ node[n].level \in 0..(Levels - 1)
             /\ node[n].slot \in 0..(Size(node[n].level) - 1)
  BY <1>1 DEF TimerInv, Lodged, WheelTypeOK, TimerNode
<1> QED
  BY <1>1, <1>2 DEF TimerInv, Bounds, WheelTypeOK, TimerTypeOK

\* Between polls the clock has not passed the next expiry of any timer.
LEMMA OnTimeFromInv == TimerInv => FiresOnTime
<1> SUFFICES ASSUME TimerInv, pc = "idle", NEW n \in Nodes, node[n].status = "pending",
                    node[n].interval > 0 \/ node[n].rep0 = 1
             PROVE  /\ node[n].fired + node[n].repeat = node[n].rep0
                    /\ Expiry(node[n], node[n].fired + 1) >= node[n].seen
                    /\ node[n].fired > 0 => Expiry(node[n], node[n].fired) <= node[n].seen
  BY DEF FiresOnTime
<1> DEFINE x == node[n]
<1>1. Calls(x, FALSE, current_time)
  BY DEF TimerInv, WheelInv, CallsInv, Calls, Called
<1>2. /\ Timely(x, current_time, current_jiffies, Ahead) /\ current_jiffies = current_time
  BY TimelyParts DEF TimerInv, Clock
<1>3. x \in TimerNode
  BY DEF TimerInv, WheelInv, WheelTypeOK
<1>4. x.expire >= x.seen
  BY <1>2, <1>3 DEF Timely, TimerNode
<1> QED
  BY <1>1, <1>4 DEF Calls
-----------------------------------------------------------------------------
(* Theorems.                                                                *)

\* What a poll leaves behind, from the invariant.
LEMMA ReclaimedFromInv == WheelInv /\ CountInv => Reclaimed
<1> SUFFICES ASSUME WheelInv, CountInv PROVE Reclaimed
  OBVIOUS
<1>1. ASSUME pc = "idle", NEW n \in Nodes
      PROVE  (node[n].status = "pending" /\ ~node[n].cancelled) \/ node[n] = Poison
  BY <1>1 DEF WheelInv, WheelTypeOK, PollInv, Called, TimerNode
<1>2. pc = "idle" => batch = {}
  BY DEF WheelInv, PollInv
<1> QED
  BY <1>1, <1>2 DEF Reclaimed, CountInv

\* A step recycles a timer that was not deleted after its last call only.
LEMMA NoneDroppedStep ==
  ASSUME WheelInv, [Next]_tvars, NEW n \in Nodes,
         node[n].status = "running", ~node[n].cancelled, node'[n].status = "free"
  PROVE  node[n].fired = node[n].rep0 /\ Expiry(node[n], node[n].fired) <= current_time
<1> USE DEF WheelInv, wheel, poll
<1>0. \A m \in Nodes : node[m] \in TimerNode
  BY DEF WheelTypeOK
<1>1. CASE PoolCreate \/ BatchEnd \/ PollEnd \/ UNCHANGED tvars
  BY <1>1 DEF PoolCreate, BatchEnd, PollEnd, tvars
<1>2. CASE PoolDestroy
  BY <1>2 DEF PoolDestroy, PollInv, Called
<1>3. ASSUME NEW m \in Nodes, Delete(m) PROVE FALSE
  BY <1>3, DeleteFacts DEF OthersSame
<1>4. ASSUME NEW m \in Nodes, Fire(m) PROVE FALSE
  <2>1. CASE m # n
    BY <1>4, <2>1, FireFacts DEF OthersSame
  <2>2. CASE m = n
    BY <1>4, <2>2, FireFacts
  <2> QED
    BY <2>1, <2>2
<1>5. ASSUME NEW m \in Nodes, NEW i \in Intervals, NEW r \in Repeats, Create(m, i, r) PROVE FALSE
  BY <1>5, CreateFacts DEF OthersSame
<1>6. CASE PollBegin
  BY <1>6, PollBeginFacts
<1>7. CASE Advance
  BY <1>7, AdvanceFacts
<1>8. CASE CallbackReturns
  <2>1. cur \in Nodes
    BY <1>8, TimerAssumption DEF CallbackReturns, PollInv, WheelTypeOK
  <2>2. cur = n /\ node[n].repeat <= 1
    BY <1>0, <1>8, <2>1, ReturnFacts DEF OthersSame, TimerNode
  <2>3. Calls(node[n], TRUE, current_time)
    <3>1. Called(n)
      BY <1>8, <2>2 DEF CallbackReturns, Called
    <3> QED
      BY <3>1 DEF CallsInv, Calls
  <2>4. node[n].repeat \in Nat /\ node[n].fired \in Nat /\ node[n].rep0 \in Nat
    BY <1>0 DEF TimerNode
  <2> QED
    BY <2>2, <2>3, <2>4 DEF Calls
<1> QED
  BY <1>1, <1>2, <1>3, <1>4, <1>5, <1>6, <1>7, <1>8 DEF Next, PollStep

\* No step calls back a timer that is deleted.
LEMMA NoCallStep ==
  ASSUME WheelInv, [Next]_tvars, NEW n \in Nodes, node[n].cancelled, node'[n].cancelled
  PROVE  node'[n].fired \in {0, node[n].fired}
<1> USE DEF WheelInv, wheel, poll
<1>1. CASE PoolCreate \/ BatchEnd \/ PollEnd \/ UNCHANGED tvars
  BY <1>1 DEF PoolCreate, BatchEnd, PollEnd, tvars
<1>2. CASE PoolDestroy
  BY <1>2 DEF PoolDestroy, Poison
<1>3. ASSUME NEW m \in Nodes, Delete(m) PROVE node'[n].fired \in {0, node[n].fired}
  BY <1>3, DeleteFacts DEF OthersSame, Poison
<1>4. ASSUME NEW m \in Nodes, Fire(m) PROVE node'[n].fired \in {0, node[n].fired}
  <2>1. CASE m # n
    BY <1>4, <2>1, FireFacts DEF OthersSame
  <2>2. CASE m = n
    <3>1. node'[n] = Poison
      BY <1>4, <2>2, FireFacts
    <3> QED
      BY <3>1 DEF Poison
  <2> QED
    BY <2>1, <2>2
<1>5. ASSUME NEW m \in Nodes, NEW i \in Intervals, NEW r \in Repeats, Create(m, i, r)
      PROVE  node'[n].fired \in {0, node[n].fired}
  BY <1>5, CreateFacts DEF OthersSame
<1>6. CASE PollBegin
  BY <1>6, PollBeginFacts DEF PollInv
<1>7. CASE Advance
  BY <1>7, AdvanceFacts DEF SameTimer
<1>8. CASE CallbackReturns
  <2>1. cur \in Nodes
    BY <1>8, TimerAssumption DEF CallbackReturns, PollInv, WheelTypeOK
  <2> QED
    BY <1>8, <2>1, ReturnFacts DEF OthersSame, Poison
<1> QED
  BY <1>1, <1>2, <1>3, <1>4, <1>5, <1>6, <1>7, <1>8 DEF Next, PollStep

\* The invariant of the wheel: what poll holds, and what each timer was called for.
THEOREM TimerInvariant == Spec => []WheelInv
  BY WheelInit, WheelStep, PTL DEF Spec

\* A poll of xtimer.c leaves no node locked and no deleted node behind, and
\* xtimer_count is exact at any time.
THEOREM TimerReclaimed ==
  ASSUME IsFiniteSet(Nodes)
  PROVE  Spec => []Reclaimed
<1>1. WheelInv /\ CountInv /\ [Next]_tvars => CountInv'
  BY CountStep DEF WheelInv
<1> QED
  BY <1>1, WheelInit, TimerInvariant, ReclaimedFromInv, PTL DEF Spec

\* xtimer_poll recycles a timer that was not deleted only when it has made all
\* its calls, the last one no earlier than its last expiry.
THEOREM TimerNoneDropped == Spec => NoneDropped
<1>1. WheelInv /\ [Next]_tvars =>
        [\A n \in Nodes : LET x == node[n] IN
           x.status = "running" /\ ~x.cancelled /\ node'[n].status = "free" =>
             x.fired = x.rep0 /\ Expiry(x, x.fired) <= current_time]_tvars
  BY NoneDroppedStep
<1> QED
  BY <1>1, TimerInvariant, PTL DEF Spec, NoneDropped

\* After xtimer_del a timer is not called back any more, not even one that the
\* running poll had already locked.
THEOREM TimerNoCallAfterDelete == Spec => NoCallAfterDelete
<1>1. WheelInv /\ [Next]_tvars =>
        [\A n \in Nodes :
           node[n].cancelled /\ node'[n].cancelled => node'[n].fired \in {0, node[n].fired}]_tvars
  BY NoCallStep
<1> QED
  BY <1>1, TimerInvariant, PTL DEF Spec, NoCallAfterDelete

\* xtimer_calc_slot, xtimer_cascade and xtimer_poll keep every index inside its
\* level, and the time returned inside one turn of level 0.
THEOREM TimerTypeCorrect == Spec => []TimerTypeOK
  BY TimerInvAlways, TypesFromInv, PTL

\* Between calls of xtimer_poll every timer has been called back for exactly the
\* expiries that the clock has passed: none is skipped while it is cascaded from
\* level to level, waits in a segment of a long delay, is repeated during a
\* catch-up or is overtaken by a clock that was set back, for wheels of any size.
THEOREM TimerFiresOnTime == Spec => []FiresOnTime
  BY TimerInvAlways, OnTimeFromInv, PTL
=============================================================================
