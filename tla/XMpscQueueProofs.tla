-------------------------- MODULE XMpscQueueProofs --------------------------
(***************************************************************************)
(* TLAPS proofs about XMpscQueue.                                          *)
(***************************************************************************)
EXTENDS XMpscQueue, FiniteSetTheorems, SequenceTheorems, WellFoundedInduction, TLAPS

\* A non-empty set of natural numbers has a least element.
LEMMA LeastNat ==
  ASSUME NEW S \in SUBSET Nat, S # {}
  PROVE  \E n \in S : \A m \in S : n <= m
<1>1. PICK n \in S : \A m \in S : ~(<<m, n>> \in OpToRel(<, Nat))
  BY NatLessThanWellFounded, WFMin
<1>2. \A m \in S : ~(m < n)
  BY <1>1 DEF OpToRel
<1> QED
  BY <1>2
-----------------------------------------------------------------------------
(* Lists.                                                                   *)

\* A list is an injective sequence of nodes.
LEMMA PathFacts ==
  ASSUME NEW nx, NEW x, NEW s, IsPath(nx, x, s)
  PROVE  /\ Len(s) \in Nat /\ s \in [1..Len(s) -> Nodes] /\ DOMAIN s = 1..Len(s)
         /\ \A i, j \in 1..Len(s) : s[i] = s[j] => i = j
         /\ s = <<>> <=> Len(s) = 0
         /\ x \in Pointer /\ (x = Null <=> s = <<>>)
<1> USE MpscAssumption
<1>1. /\ Len(s) \in Nat /\ s \in [1..Len(s) -> Nodes] /\ DOMAIN s = 1..Len(s)
      /\ s = <<>> <=> Len(s) = 0
  BY DEF IsPath
<1>2. \A i, j \in 1..Len(s) : s[i] = s[j] => i = j
  BY <1>1 DEF IsPath, IsInjective
<1>3. x \in Pointer /\ (x = Null <=> s = <<>>)
  BY <1>1 DEF IsPath, Pointer
<1> QED
  BY <1>1, <1>2, <1>3

\* No list is longer than there are addresses.
LEMMA PathLength ==
  ASSUME NEW nx, NEW x, NEW s, IsPath(nx, x, s)
  PROVE  Len(s) <= Cardinality(Nodes)
<1>1. Len(s) \in Nat /\ s \in [1..Len(s) -> Nodes]
  BY PathFacts
<1>2. IsFiniteSet(1..Len(s)) /\ Cardinality(1..Len(s)) = Len(s)
  <2>1. 1 \in Int /\ Len(s) \in Int
    BY <1>1
  <2>2. IsFiniteSet(1..Len(s)) /\ Cardinality(1..Len(s)) = IF 1 > Len(s) THEN 0 ELSE Len(s) - 1 + 1
    BY <2>1, FS_Interval, Zenon
  <2> QED
    BY <1>1, <2>2
<1>3. s \in Injection(1..Len(s), Nodes)
  BY <1>1 DEF IsPath, Injection, IsInjective
<1> QED
  BY <1>2, <1>3, FS_Injection, MpscAssumption

\* Chain in terms of the links: the pointers after 0, 1, ... links, and the
\* list of those before the null pointer.
Follow(nx, x, at) ==
  [k \in 0..Cardinality(Nodes) |->
     IF k = 0 THEN x ELSE IF at[k - 1] = Null THEN Null ELSE nx[at[k - 1]]]

ChainOf(nx, x) ==
  LET at  == CHOOSE f : f = Follow(nx, x, f)
      len == CHOOSE k \in DOMAIN at : at[k] = Null /\ \A i \in 0..(k - 1) : at[i] # Null
  IN [i \in 1..len |-> at[i - 1]]

LEMMA ChainDef == \A x : Chain(x) = ChainOf(next, x)
  BY DEF Chain, ChainOf, Follow

LEMMA ChainPath ==
  ASSUME NEW nx, NEW x, NEW s, IsPath(nx, x, s)
  PROVE  ChainOf(nx, x) = s
<1> USE MpscAssumption
<1> DEFINE M == Cardinality(Nodes)
           L == Len(s)
           at == CHOOSE f : f = Follow(nx, x, f)
           g == [k \in 0..M |-> IF k < L THEN s[k + 1] ELSE Null]
<1>0. M \in Nat /\ L \in Nat /\ L <= M /\ s \in [1..L -> Nodes]
  BY PathLength, FS_CardinalityType DEF IsPath
<1>1. g = Follow(nx, x, g)
  <2>1. ASSUME NEW k \in 0..M PROVE g[k] = Follow(nx, x, g)[k]
    <3>1. CASE k = 0
      <4>1. Follow(nx, x, g)[k] = x
        BY <3>1 DEF Follow
      <4>2. g[k] = IF 0 < L THEN s[1] ELSE Null
        BY <1>0, <3>1
      <4>3. s = <<>> <=> L = 0
        BY DEF IsPath
      <4>4. L \in Nat /\ x = IF s = <<>> THEN Null ELSE s[1]
        BY <1>0 DEF IsPath
      <4>5. g[k] = x
        <5> HIDE DEF g, L
        <5> QED
          BY <4>2, <4>3, <4>4
      <4> QED
        BY <4>1, <4>5
    <3>2. CASE k # 0 /\ k - 1 < L
      <4>0. Follow(nx, x, g)[k] = IF g[k - 1] = Null THEN Null ELSE nx[g[k - 1]]
        BY <3>2 DEF Follow
      <4>1. k - 1 \in 0..M /\ g[k - 1] = s[k] /\ k \in 1..L
        BY <1>0, <3>2
      <4>2. s[k] \in Nodes /\ s[k] # Null
        BY <1>0, <4>1
      <4>3. nx[s[k]] = IF k = L THEN Null ELSE s[k + 1]
        BY <4>1 DEF IsPath
      <4>4. g[k] = IF k = L THEN Null ELSE s[k + 1]
        <5>1. g[k] = IF k < L THEN s[k + 1] ELSE Null
          OBVIOUS
        <5>2. k < L <=> k # L
          <6> HIDE DEF L, g, M
          <6>1. k \in 1..L /\ L \in Nat
            BY <1>0, <4>1
          <6> QED
            BY <6>1
        <5> QED
          BY <5>1, <5>2
      <4> QED
        <5> HIDE DEF g, L
        <5> QED
          BY <4>0, <4>1, <4>2, <4>3, <4>4
    <3>3. CASE k # 0 /\ ~(k - 1 < L)
      <4>1. k - 1 \in 0..M /\ g[k - 1] = Null /\ g[k] = Null
        BY <1>0, <3>3
      <4> QED
        BY <3>3, <4>1 DEF Follow
    <3> QED
      BY <3>1, <3>2, <3>3
  <2> HIDE DEF M, L
  <2>2. Follow(nx, x, g) = [k \in 0..M |-> Follow(nx, x, g)[k]]
    BY DEF Follow, M
  <2>3. g = [k \in 0..M |-> g[k]]
    OBVIOUS
  <2> QED
    BY <2>1, <2>2, <2>3
<1>2. at = Follow(nx, x, at)
  BY <1>1
<1> HIDE DEF at
<1>3. at = g
  <2>1. at = [k \in 0..M |-> at[k]]
    BY <1>2 DEF Follow
  <2> DEFINE Bad == {k \in 0..M : at[k] # g[k]}
  <2>2. CASE Bad = {}
    BY <2>1, <2>2
  <2>3. CASE Bad # {}
    <3>1. PICK k \in Bad : \A m \in Bad : k <= m
      <4> HIDE DEF g
      <4>1. Bad \in SUBSET Nat
        BY <1>0
      <4> QED
        BY <2>3, <4>1, LeastNat
    <3>2. k \in 0..M /\ k # 0
      <4>1. k \in 0..M /\ at[k] # g[k]
        OBVIOUS
      <4>2. 0 \in 0..M
        BY <1>0
      <4>3. Follow(nx, x, at)[0] = x /\ Follow(nx, x, g)[0] = x
        BY <4>2 DEF Follow
      <4>4. at[0] = g[0]
        <5> HIDE DEF g
        <5> QED
          BY <1>1, <1>2, <4>3
      <4> HIDE DEF g
      <4> QED
        BY <4>1, <4>4
    <3>3. k - 1 \in 0..M /\ k - 1 \notin Bad
      BY <1>0, <3>1, <3>2
    <3>4. at[k - 1] = g[k - 1]
      BY <3>3
    <3> HIDE DEF g
    <3>5. at[k] = Follow(nx, x, at)[k]
      BY <1>2
    <3>6. g[k] = Follow(nx, x, g)[k]
      BY <1>1
    <3>7. Follow(nx, x, at)[k] = Follow(nx, x, g)[k]
      BY <3>2, <3>4 DEF Follow
    <3> QED
      BY <3>5, <3>6, <3>7
  <2> QED
    BY <2>2, <2>3
<1> DEFINE len == CHOOSE k \in DOMAIN at : at[k] = Null /\ \A i \in 0..(k - 1) : at[i] # Null
<1>4. \A k \in 0..M : at[k] = Null <=> k >= L
  BY <1>0, <1>3
<1>5. DOMAIN at = 0..M
  BY <1>3
<1>6. L \in 0..M /\ \A i \in 0..(L - 1) : i \in 0..M /\ ~(i >= L)
  BY <1>0
<1>7. len \in 0..M /\ at[len] = Null /\ \A i \in 0..(len - 1) : at[i] # Null
  <2> HIDE DEF M, L
  <2>1. L \in DOMAIN at /\ at[L] = Null /\ \A i \in 0..(L - 1) : at[i] # Null
    BY <1>0, <1>4, <1>5, <1>6
  <2> QED
    BY <1>5, <2>1
<1> HIDE DEF len
<1>8. len = L
  <2> HIDE DEF M, L
  <2>1. len >= L /\ len \in Nat
    BY <1>0, <1>4, <1>7
  <2>2. ~(L <= len - 1)
    <3> SUFFICES ASSUME L <= len - 1 PROVE FALSE
      OBVIOUS
    <3>1. L \in 0..(len - 1) /\ L \in 0..M /\ L >= L
      BY <1>0, <1>7, <2>1
    <3> QED
      BY <1>4, <1>7, <3>1
  <2> QED
    BY <1>0, <2>1, <2>2
<1>9. ChainOf(nx, x) = [i \in 1..len |-> at[i - 1]]
  BY DEF ChainOf, at, len
<1>10. \A i \in 1..L : at[i - 1] = s[i]
  BY <1>0, <1>3
<1>11. s = [i \in 1..L |-> s[i]]
  BY <1>0
<1> HIDE DEF L
<1> QED
  BY <1>8, <1>9, <1>10, <1>11

\* A list is not affected by what happens to other nodes.
LEMMA SamePath ==
  ASSUME NEW nx, NEW ny, NEW x, NEW s, IsPath(nx, x, s), \A n \in Range(s) : ny[n] = nx[n]
  PROVE  IsPath(ny, x, s)
<1>1. \A i \in 1..Len(s) : s[i] \in Range(s)
  BY PathFacts DEF Range
<1> QED
  BY <1>1 DEF IsPath

\* A node in front of a list.
LEMMA PushPath ==
  ASSUME NEW nx, NEW x, NEW s, IsPath(nx, x, s),
         NEW n \in Nodes, n \notin Range(s), nx[n] = x
  PROVE  IsPath(nx, n, <<n>> \o s) /\ Range(<<n>> \o s) = Range(s) \cup {n}
<1> DEFINE t == <<n>> \o s
           L == Len(s)
<1>1. L \in Nat /\ s \in [1..L -> Nodes] /\ DOMAIN s = 1..L /\ s \in Seq(Nodes)
  BY PathFacts DEF IsPath
<1>2. t \in Seq(Nodes) /\ Len(t) = L + 1 /\ DOMAIN t = 1..(L + 1) /\ t # <<>>
  BY <1>1
<1>3. t[1] = n /\ \A i \in 2..(L + 1) : t[i] = s[i - 1] /\ i - 1 \in 1..L
  BY <1>1
<1> HIDE DEF t
<1>4. Range(t) = Range(s) \cup {n}
  <2>1. \A i \in 1..L : i + 1 \in 2..(L + 1) /\ i + 1 \in 1..(L + 1) /\ t[i + 1] = s[i]
    BY <1>1, <1>3
  <2>2. \A i \in 1..(L + 1) : i = 1 \/ i \in 2..(L + 1)
    BY <1>1
  <2>3. 1 \in 1..(L + 1)
    BY <1>1
  <2> HIDE DEF L
  <2> QED
    BY <1>1, <1>2, <1>3, <2>1, <2>2, <2>3 DEF Range
<1>5. IsInjective(t)
  <2> SUFFICES ASSUME NEW i \in 1..(L + 1), NEW j \in 1..(L + 1), t[i] = t[j] PROVE i = j
    BY <1>2 DEF IsInjective
  <2>1. \A k \in 2..(L + 1) : t[k] \in Range(s) /\ t[k] # n
    BY <1>1, <1>3 DEF Range
  <2>2. CASE i = 1 \/ j = 1
    BY <1>1, <1>3, <2>1, <2>2
  <2>3. CASE i # 1 /\ j # 1
    <3>1. i \in 2..(L + 1) /\ j \in 2..(L + 1)
      BY <1>1, <2>3
    <3>2. i - 1 = j - 1
      BY <1>3, <3>1, PathFacts
    <3> QED
      BY <1>1, <3>1, <3>2
  <2> QED
    BY <2>2, <2>3
<1>6. ASSUME NEW i \in 1..(L + 1)
      PROVE  nx[t[i]] = IF i = L + 1 THEN Null ELSE t[i + 1]
  <2>0. x = IF L = 0 THEN Null ELSE s[1]
    BY PathFacts DEF IsPath
  <2>1. CASE i = 1 /\ L = 0
    BY <1>3, <2>0, <2>1
  <2>2. CASE i = 1 /\ L # 0
    <3>1. 2 \in 2..(L + 1)
      BY <1>1, <2>2
    <3> QED
      BY <1>3, <2>0, <2>2, <3>1
  <2>3. CASE i # 1
    <3>1. i \in 2..(L + 1) /\ i - 1 \in 1..L /\ (i - 1 = L <=> i = L + 1)
      BY <1>1, <2>3
    <3>2. nx[s[i - 1]] = IF i - 1 = L THEN Null ELSE s[i - 1 + 1]
      BY <3>1 DEF IsPath
    <3>3. i # L + 1 => i + 1 \in 2..(L + 1) /\ t[i + 1] = s[i]
      BY <1>1, <1>3, <3>1
    <3> QED
      BY <1>3, <3>1, <3>2, <3>3
  <2> QED
    BY <2>1, <2>2, <2>3
<1>7. IsPath(nx, n, t)
  BY <1>1, <1>2, <1>3, <1>5, <1>6 DEF IsPath
<1> QED
  BY <1>4, <1>7 DEF t

\* What the owner caches: the nodes of l linked in this order, the first one
\* taken off.
Nth(l, i) == IF i \in DOMAIN l THEN l[i] ELSE Null

LEMMA PopPath ==
  ASSUME NEW nx, NEW l \in Seq(Nodes), IsInjective(l), l # <<>>,
         \A i \in 1..Len(l) : nx[l[i]] = Nth(l, i + 1)
  PROVE  /\ IsPath(nx, Nth(l, 2), Tail(l))
         /\ Nth(l, 1) = l[1] /\ l[1] \in Nodes
         /\ Range(l) = Range(Tail(l)) \cup {l[1]} /\ l[1] \notin Range(Tail(l))
<1> DEFINE t == Tail(l)
           L == Len(l)
<1>1. L \in Nat \ {0} /\ l \in [1..L -> Nodes] /\ DOMAIN l = 1..L
  BY PathFacts DEF IsPath
<1>2. t \in Seq(Nodes) /\ Len(t) = L - 1 /\ DOMAIN t = 1..(L - 1)
  BY <1>1
<1>3. \A i \in 1..(L - 1) : t[i] = l[i + 1] /\ i + 1 \in 1..L
  BY <1>1
<1> HIDE DEF t
<1>4. \A i, j \in 1..L : l[i] = l[j] => i = j
  BY <1>1 DEF IsInjective
<1>5. IsInjective(t)
  <2> SUFFICES ASSUME NEW i \in 1..(L - 1), NEW j \in 1..(L - 1), t[i] = t[j] PROVE i = j
    BY <1>2 DEF IsInjective
  <2>1. i + 1 = j + 1
    BY <1>3, <1>4
  <2> QED
    BY <2>1
<1>6. Nth(l, 2) = IF t = <<>> THEN Null ELSE t[1]
  <2>1. CASE L = 1
    <3>1. t = <<>> /\ 2 \notin 1..L
      BY <1>2, <2>1
    <3> QED
      BY <1>1, <3>1 DEF Nth
  <2>2. CASE L # 1
    <3>1. t # <<>> /\ 2 \in 1..L /\ 1 \in 1..(L - 1)
      BY <1>1, <1>2, <2>2
    <3> QED
      BY <1>1, <1>3, <3>1 DEF Nth
  <2> QED
    BY <2>1, <2>2
<1>7. ASSUME NEW i \in 1..(L - 1)
      PROVE  nx[t[i]] = IF i = L - 1 THEN Null ELSE t[i + 1]
  <2>1. nx[t[i]] = Nth(l, i + 1 + 1)
    BY <1>3
  <2>2. CASE i = L - 1
    <3>1. i + 1 + 1 \notin 1..L
      BY <1>1, <2>2
    <3> QED
      BY <1>1, <2>1, <2>2, <3>1 DEF Nth
  <2>3. CASE i # L - 1
    <3>1. i + 1 \in 1..(L - 1) /\ i + 1 + 1 \in 1..L
      <4> HIDE DEF L
      <4> QED
        BY <1>1, <2>3
    <3> QED
      BY <1>1, <1>3, <2>1, <2>3, <3>1 DEF Nth
  <2> QED
    BY <2>2, <2>3
<1>8. IsPath(nx, Nth(l, 2), t)
  BY <1>2, <1>5, <1>6, <1>7 DEF IsPath
<1>9. 1 \in 1..L /\ Nth(l, 1) = l[1] /\ l[1] \in Nodes
  BY <1>1 DEF Nth
<1>10. Range(l) = Range(t) \cup {l[1]}
  <2>1. \A i \in 1..L : i = 1 \/ (i - 1 \in 1..(L - 1) /\ l[i] = t[i - 1])
    BY <1>1, <1>3
  <2> HIDE DEF L
  <2>2. ASSUME NEW n \in Range(l) PROVE n \in Range(t) \cup {l[1]}
    <3>1. PICK i \in 1..L : n = l[i]
      BY <1>1 DEF Range
    <3>2. \A k \in 1..(L - 1) : t[k] \in Range(t)
      BY <1>2 DEF Range
    <3> QED
      BY <2>1, <3>1, <3>2
  <2>3. \A n \in Range(t) \cup {l[1]} : n \in Range(l)
    BY <1>1, <1>2, <1>3, <1>9 DEF Range
  <2> QED
    BY <2>2, <2>3
<1>11. l[1] \notin Range(t)
  <2> SUFFICES ASSUME NEW i \in 1..(L - 1), t[i] = l[1] PROVE FALSE
    BY <1>2 DEF Range
  <2>1. i + 1 = 1
    BY <1>3, <1>4, <1>9
  <2> QED
    BY <2>1
<1> QED
  BY <1>8, <1>9, <1>10, <1>11 DEF t

\* A reversed list has the same nodes.
LEMMA ReverseFacts ==
  ASSUME NEW S, NEW s \in Seq(S)
  PROVE  /\ Reverse(s) \in Seq(S) /\ Len(Reverse(s)) = Len(s) /\ DOMAIN Reverse(s) = 1..Len(s)
         /\ \A i \in 1..Len(s) : Reverse(s)[i] = s[Len(s) - i + 1] /\ Len(s) - i + 1 \in 1..Len(s)
         /\ Range(Reverse(s)) = Range(s)
         /\ IsInjective(s) => IsInjective(Reverse(s))
<1> DEFINE L == Len(s)
           r == Reverse(s)
<1>1. L \in Nat /\ s \in [1..L -> S] /\ DOMAIN s = 1..L
  OBVIOUS
<1>2. \A i \in 1..L : L - i + 1 \in 1..L
  BY <1>1
<1>3. r = [i \in 1..L |-> s[L - i + 1]]
  BY DEF Reverse
<1>4. r \in [1..L -> S] /\ DOMAIN r = 1..L
  BY <1>1, <1>2, <1>3
<1>5. r \in Seq(S) /\ Len(r) = L
  BY <1>1, <1>4
<1>6. \A i \in 1..L : r[i] = s[L - i + 1]
  BY <1>3
<1>7. Range(r) = Range(s)
  <2>1. \A i \in 1..L : r[L - i + 1] = s[i]
    BY <1>1, <1>2, <1>6
  <2> HIDE DEF r, L
  <2> QED
    BY <1>1, <1>2, <1>4, <1>6, <2>1 DEF Range
<1>8. ASSUME IsInjective(s) PROVE IsInjective(r)
  <2> SUFFICES ASSUME NEW i \in 1..L, NEW j \in 1..L, r[i] = r[j] PROVE i = j
    BY <1>4 DEF IsInjective
  <2>1. L - i + 1 = L - j + 1
    BY <1>1, <1>2, <1>6, <1>8 DEF IsInjective
  <2> QED
    BY <1>1, <2>1
<1> QED
  BY <1>2, <1>4, <1>5, <1>6, <1>7, <1>8
-----------------------------------------------------------------------------
(* What each step does to the two lists.                                    *)

H == Chain(head)
C == Chain(cache)

LEMMA NewLists ==
  /\ \A s : IsPath(next', head', s) => H' = s
  /\ \A s : IsPath(next', cache', s) => C' = s
<1>1. H' = ChainOf(next', head') /\ C' = ChainOf(next', cache')
  BY DEF H, C, Chain, ChainOf, Follow
<1> QED
  BY <1>1, ChainPath

\* The lists of the invariant.
Lists == IsPath(next, head, H) /\ IsPath(next, cache, C)

\* Links of nodes outside the lists can change.
LEMMA KeepLists ==
  ASSUME Lists, UNCHANGED <<head, cache>>, \A n \in Listed \cup Cached : next'[n] = next[n]
  PROVE  Lists' /\ UNCHANGED <<H, C>>
<1>1. Listed = Range(H) /\ Cached = Range(C)
  BY DEF Listed, Cached, H, C
<1>2. IsPath(next', head', H) /\ IsPath(next', cache', C)
  BY <1>1, SamePath DEF Lists
<1>3. UNCHANGED <<H, C>>
  BY <1>2, NewLists
<1> QED
  BY <1>2, <1>3 DEF Lists

\* The producer's node is published in front of the list.
LEMMA PushLists ==
  ASSUME Lists, UNCHANGED <<next, cache>>,
         head' \in Nodes, head' \notin Listed, next[head'] = head
  PROVE  Lists' /\ H' = <<head'>> \o H /\ UNCHANGED C
<1>1. Listed = Range(H)
  BY DEF Listed, H
<1>2. IsPath(next', head', <<head'>> \o H) /\ IsPath(next', cache', C)
  BY <1>1, PushPath DEF Lists
<1>3. H' = <<head'>> \o H /\ C' = C
  BY <1>2, NewLists
<1> QED
  BY <1>2, <1>3 DEF Lists

\* The owner takes the next cached node, or all of the producers' list, reversed.
Taken == IF cache # Null THEN C ELSE Reverse(H)

LEMMA PopLists ==
  ASSUME Lists, Listed \cap Cached = {}, next \in [Nodes -> Pointer], Pop
  PROVE  /\ Lists' /\ Taken \in Seq(Nodes)
         /\ IF Taken = <<>>
            THEN H = <<>> /\ C = <<>> /\ UNCHANGED <<H, C>> /\ cur' = Null /\ cpc' = ret
            ELSE /\ cur' = Taken[1] /\ C' = Tail(Taken) /\ cpc' = "run"
                 /\ H' = IF cache # Null THEN H ELSE <<>>
                 /\ cur' \in Nodes /\ cur' \notin Range(C')
                 /\ Range(Taken) = Range(C') \cup {cur'}
<1> DEFINE l == Taken
<1>0. /\ H \in Seq(Nodes) /\ C \in Seq(Nodes) /\ IsInjective(H) /\ IsInjective(C)
      /\ (head = Null <=> H = <<>>) /\ (cache = Null <=> C = <<>>)
  <2>1. IsPath(next, head, H) /\ IsPath(next, cache, C)
    BY DEF Lists
  <2>2. (head = Null <=> H = <<>>) /\ (cache = Null <=> C = <<>>)
    BY <2>1, PathFacts
  <2> QED
    BY <2>1, <2>2 DEF IsPath
<1>1. l \in Seq(Nodes) /\ IsInjective(l) /\ DOMAIN l = 1..Len(l) /\ Len(l) \in Nat
  <2>1. Reverse(H) \in Seq(Nodes) /\ IsInjective(Reverse(H))
    BY <1>0, ReverseFacts
  <2> QED
    BY <1>0, <2>1 DEF Taken
<1>2. /\ head' = IF cache # Null THEN head ELSE Null
      /\ cache' = Nth(l, 2) /\ cur' = Nth(l, 1)
      /\ cpc' = IF l = <<>> THEN ret ELSE "run"
      /\ next' = [n \in Nodes |->
           IF n \in Range(l) THEN Nth(l, (CHOOSE i \in DOMAIN l : l[i] = n) + 1) ELSE next[n]]
  BY DEF Pop, Nth, Taken, H, C
<1> HIDE DEF l
<1>3. CASE l = <<>>
  <2>1. H = <<>> /\ C = <<>>
    <3>1. C = <<>>
      BY <1>0, <1>3 DEF l, Taken
    <3>2. Reverse(H) = <<>>
      BY <1>0, <1>3, <3>1 DEF l, Taken
    <3>3. Len(H) = 0
      BY <1>0, <3>2, ReverseFacts
    <3> QED
      BY <1>0, <3>1, <3>3
  <2>2. DOMAIN l = {} /\ Range(l) = {}
    BY <1>1, <1>3 DEF Range
  <2>3. next' = next /\ head' = head /\ cache' = cache /\ cur' = Null
    BY <1>0, <1>2, <2>1, <2>2 DEF Nth
  <2>4. Lists' /\ UNCHANGED <<H, C>>
    BY <2>3, KeepLists
  <2> QED
    BY <1>0, <1>2, <1>3, <2>1, <2>3, <2>4, <1>1 DEF l
<1>4. CASE l # <<>>
  <2>1. \A i \in 1..Len(l) : next'[l[i]] = Nth(l, i + 1)
    <3> SUFFICES ASSUME NEW i \in 1..Len(l) PROVE next'[l[i]] = Nth(l, i + 1)
      OBVIOUS
    <3> DEFINE j == CHOOSE k \in DOMAIN l : l[k] = l[i]
    <3>1. l[i] \in Nodes /\ l[i] \in Range(l) /\ i \in DOMAIN l
      BY <1>1 DEF Range
    <3>2. j \in DOMAIN l /\ l[j] = l[i]
      BY <3>1
    <3>3. j = i
      BY <1>1, <3>1, <3>2 DEF IsInjective
    <3>4. next'[l[i]] = Nth(l, j + 1)
      BY <1>2, <3>1
    <3> QED
      BY <3>3, <3>4
  <2>2. /\ IsPath(next', Nth(l, 2), Tail(l)) /\ Nth(l, 1) = l[1] /\ l[1] \in Nodes
        /\ Range(l) = Range(Tail(l)) \cup {l[1]} /\ l[1] \notin Range(Tail(l))
    BY <1>1, <1>4, <2>1, PopPath
  <2>3. C' = Tail(l) /\ cur' = l[1] /\ IsPath(next', cache', C')
    BY <1>2, <2>2, NewLists
  <2>4. H' = (IF cache # Null THEN H ELSE <<>>) /\ IsPath(next', head', H')
    <3>1. CASE cache = Null
      <4>1. head' = Null /\ IsPath(next', Null, <<>>)
        BY <1>2, <3>1 DEF IsPath, IsInjective
      <4> QED
        BY <3>1, <4>1, NewLists
    <3>2. CASE cache # Null
      <4>1. l = C /\ Range(l) = Cached /\ Range(H) = Listed
        BY <3>2 DEF l, Taken, Cached, Listed, C, H
      <4>2. \A n \in Range(H) : n \in Nodes /\ n \notin Range(l)
        <5>1. \A n \in Range(H) : n \in Nodes
          BY <1>0 DEF Range
        <5> QED
          BY <4>1, <5>1
      <4>3. \A n \in Range(H) : next'[n] = next[n]
        BY <1>2, <4>2
      <4>4. IsPath(next', head', H)
        BY <1>2, <3>2, <4>3, SamePath DEF Lists
      <4> QED
        BY <3>2, <4>4, NewLists
    <3> QED
      BY <3>1, <3>2
  <2> QED
    BY <1>1, <1>2, <1>4, <2>2, <2>3, <2>4 DEF l, Lists
<1> QED
  BY <1>3, <1>4

\* xmpscq_drain_destroy leaves two empty lists.
LEMMA EmptyLists ==
  ASSUME head' = Null, cache' = Null
  PROVE  Lists' /\ H' = <<>> /\ C' = <<>>
<1>1. IsPath(next', Null, <<>>)
  BY DEF IsPath, IsInjective
<1> QED
  BY <1>1, NewLists DEF Lists
-----------------------------------------------------------------------------
(* Types.  That the depth is never negative is left to CountInv.            *)

MpscTypeOK ==
  /\ head \in Pointer /\ cache \in Pointer /\ cur \in Pointer
  /\ next \in [Nodes -> Pointer] /\ task \in [Nodes -> Task \cup {NoTask}] /\ free \in SUBSET Nodes
  /\ pending_tasks \in Int /\ notify_pending \in {0, 1}
  /\ running \in BOOLEAN /\ armed \in BOOLEAN /\ pipe \in {0, 1}
  /\ cpc \in {"init", "loop", "reset", "pop", "run", "sub", "poll", "uninit", "stopped"}
  /\ ret \in {"loop", "poll", "uninit"}
  /\ ppc \in [Producers -> Labels]
  /\ pnode \in [Producers -> Pointer] /\ old_head \in [Producers -> Pointer]
  /\ need \in [Producers -> BOOLEAN] /\ posted \in [Producers -> 0..MaxPosts]
  /\ upc \in {"idle", "notify", "write", "join", "freed"}

LEMMA TypeInit == Init => MpscTypeOK
<1> SUFFICES ASSUME Init PROVE MpscTypeOK
  OBVIOUS
<1>1. running \in BOOLEAN /\ armed \in BOOLEAN
  BY Zenon DEF Init
<1>2. /\ head \in Pointer /\ cache \in Pointer /\ cur \in Pointer
      /\ next \in [Nodes -> Pointer] /\ task \in [Nodes -> Task \cup {NoTask}] /\ free \in SUBSET Nodes
  BY DEF Init, Pointer
<1>3. /\ ppc \in [Producers -> Labels]
      /\ pnode \in [Producers -> Pointer] /\ old_head \in [Producers -> Pointer]
      /\ need \in [Producers -> BOOLEAN] /\ posted \in [Producers -> 0..MaxPosts]
  BY MpscAssumption DEF Init, Pointer, Labels
<1>4. /\ pending_tasks \in Int /\ notify_pending \in {0, 1} /\ pipe \in {0, 1}
      /\ cpc \in {"init", "loop", "reset", "pop", "run", "sub", "poll", "uninit", "stopped"}
      /\ ret \in {"loop", "poll", "uninit"} /\ upc \in {"idle", "notify", "write", "join", "freed"}
  BY DEF Init
<1> QED
  BY <1>1, <1>2, <1>3, <1>4 DEF MpscTypeOK

LEMMA TypeStep ==
  ASSUME MpscTypeOK, Lists, Listed \cap Cached = {}, OwnerInv, [Next]_vars
  PROVE  MpscTypeOK'
<1> USE MpscAssumption DEF MpscTypeOK, Labels, Goto, Process, mvars, wvars, cvars, pvars, hvars
<1>1. ASSUME NEW p \in Producers, PostCheck(p) PROVE MpscTypeOK'
  <2>1. PICK k \in Kinds :
          /\ posted[p] < MaxPosts /\ posted' = [posted EXCEPT ![p] = @ + 1]
          /\ \/ UNCHANGED <<free, task, pnode, ppc>>
             \/ \E n \in free :
                  /\ free' = free \ {n}
                  /\ task' = [task EXCEPT ![n] = [from |-> p, n |-> posted[p] + 1, kind |-> k]]
                  /\ pnode' = [pnode EXCEPT ![p] = n]
                  /\ ppc' = [ppc EXCEPT ![p] = "add"]
    BY <1>1 DEF PostCheck
  <2>2. posted[p] + 1 \in 0..MaxPosts /\ posted' \in [Producers -> 0..MaxPosts]
    BY <2>1
  <2>3. [from |-> p, n |-> posted[p] + 1, kind |-> k] \in Task
    BY <2>2 DEF Task
  <2>4. CASE UNCHANGED <<free, task, pnode, ppc>>
    BY <1>1, <2>2, <2>4 DEF PostCheck
  <2>5. ASSUME NEW n \in free, free' = free \ {n},
               task' = [task EXCEPT ![n] = [from |-> p, n |-> posted[p] + 1, kind |-> k]],
               pnode' = [pnode EXCEPT ![p] = n], ppc' = [ppc EXCEPT ![p] = "add"]
        PROVE  MpscTypeOK'
    <3>1. task' \in [Nodes -> Task \cup {NoTask}]
      BY <2>3, <2>5
    <3>2. pnode' \in [Producers -> Pointer] /\ free' \in SUBSET Nodes
      BY <2>5 DEF Pointer
    <3>3. ppc' \in [Producers -> Labels]
      BY <2>5
    <3> QED
      BY <1>1, <2>2, <3>1, <3>2, <3>3 DEF PostCheck
  <2> QED
    BY <2>1, <2>4, <2>5
<1>2. ASSUME NEW p \in Producers, PostAdd(p) \/ PostNotify(p) \/ PostWrite(p) \/ PostUseAfterFree(p)
      PROVE  MpscTypeOK'
  BY <1>2 DEF PostAdd, PostNotify, PostWrite, PostUseAfterFree
<1>3. ASSUME NEW p \in Producers, PostLoad(p) PROVE MpscTypeOK'
  <2>1. /\ old_head' = [old_head EXCEPT ![p] = head]
        /\ next' = [next EXCEPT ![pnode[p]] = head]
        /\ ppc' = [ppc EXCEPT ![p] = "cas"]
    BY <1>3 DEF PostLoad
  <2>2. old_head' \in [Producers -> Pointer] /\ next' \in [Nodes -> Pointer]
    BY <2>1
  <2>3. UNCHANGED <<head, task, pnode, need, free, cur>>
    BY <1>3 DEF PostLoad
  <2> QED
    BY <1>3, <2>1, <2>2, <2>3 DEF PostLoad
<1>4. ASSUME NEW p \in Producers, PostCas(p) PROVE MpscTypeOK'
  <2>1. head' \in Pointer
    BY <1>4 DEF PostCas
  <2>2. ppc' = [ppc EXCEPT ![p] = "xchg"] \/ ppc' = [ppc EXCEPT ![p] = "load"]
    BY <1>4 DEF PostCas
  <2>3. ppc' \in [Producers -> Labels]
    BY <2>2
  <2> QED
    BY <1>4, <2>1, <2>3 DEF PostCas
<1>5. ASSUME NEW p \in Producers, PostExchange(p) PROVE MpscTypeOK'
  BY <1>5 DEF PostExchange
<1>6. CASE WakeupInit \/ LoopHead \/ ResetNotify \/ CountDown \/ PollWake \/ PollReturns \/ Uninit
  <2>1. CASE WakeupInit
    <3>1. armed' \in BOOLEAN /\ ret' \in {"loop", "poll", "uninit"} /\ cpc' \in {"loop", "reset"}
      BY <2>1 DEF WakeupInit
    <3> QED
      BY <2>1, <3>1 DEF WakeupInit
  <2>2. CASE LoopHead \/ ResetNotify \/ PollReturns
    BY <2>2 DEF LoopHead, ResetNotify, PollReturns
  <2>3. CASE CountDown \/ PollWake
    BY <2>3 DEF CountDown, PollWake
  <2>4. CASE Uninit
    <3>1. armed' \in BOOLEAN
      BY <2>4, Zenon DEF Uninit
    <3> QED
      BY <2>4, <3>1 DEF Uninit
  <2> QED
    BY <1>6, <2>1, <2>2, <2>3, <2>4
<1>7. CASE Pop
  <2>1. Lists' /\ cur' \in Pointer /\ cpc' \in {ret, "run"}
    BY <1>7, PopLists DEF Pointer
  <2>2. head' \in Pointer /\ cache' \in Pointer
    BY <2>1, PathFacts DEF Lists
  <2>3. next' \in [Nodes -> Pointer]
    <3> DEFINE l == Taken
               at(n) == Nth(l, (CHOOSE i \in DOMAIN l : l[i] = n) + 1)
    <3>1. next' = [n \in Nodes |-> IF n \in Range(l) THEN at(n) ELSE next[n]]
      BY <1>7 DEF Pop, Nth, Taken, H, C
    <3>2. \A i : Nth(l, i) \in Pointer
      BY <1>7, PopLists DEF Nth, Pointer
    <3> QED
      BY <3>1, <3>2
  <2> QED
    BY <1>7, <2>1, <2>2, <2>3 DEF Pop
<1>8. CASE RunTask
  <2>1. /\ free' = free \cup {cur} /\ next' = [next EXCEPT ![cur] = Null]
        /\ task' = [task EXCEPT ![cur] = NoTask] /\ cur' = Null /\ cpc' = "sub"
    BY <1>8 DEF RunTask
  <2>2. next' \in [Nodes -> Pointer] /\ task' \in [Nodes -> Task \cup {NoTask}] /\ cur' \in Pointer
    BY <2>1 DEF Pointer
  <2>3. cur \in Nodes /\ free' \in SUBSET Nodes
    BY <1>8, <2>1 DEF RunTask, OwnerInv, Pointer
  <2> QED
    BY <1>8, <2>2, <2>3 DEF RunTask
<1>9. CASE Unregister \/ UnregisterNotify \/ UnregisterWrite
  <2>1. /\ upc' \in {"notify", "write", "join"}
        /\ running' \in BOOLEAN /\ pipe' \in {0, 1} /\ armed' = armed
        /\ UNCHANGED <<mvars, pending_tasks, notify_pending, cvars, pvars>>
    <3>1. CASE Unregister
      BY <3>1 DEF Unregister
    <3>2. CASE UnregisterNotify
      BY <3>2 DEF UnregisterNotify
    <3>3. CASE UnregisterWrite
      BY <3>3 DEF UnregisterWrite
    <3> QED
      BY <1>9, <3>1, <3>2, <3>3
  <2> QED
    BY <2>1
<1>10. CASE Destroy
  <2> DEFINE l == Chain(cache) \o Reverse(Chain(head))
  <2>1. /\ free' = free \cup Range(l)
        /\ task' = [n \in Nodes |-> IF n \in Range(l) THEN NoTask ELSE task[n]]
        /\ next' = [n \in Nodes |-> IF n \in Range(l) THEN Null ELSE next[n]]
    BY <1>10 DEF Destroy
  <2>2. Range(l) \in SUBSET Nodes
    <3>1. H \in Seq(Nodes) /\ C \in Seq(Nodes)
      BY DEF Lists, IsPath
    <3>2. l = C \o Reverse(H) /\ Reverse(H) \in Seq(Nodes)
      BY <3>1, ReverseFacts DEF H, C
    <3>3. l \in Seq(Nodes)
      BY <3>1, <3>2
    <3> QED
      BY <3>3 DEF Range
  <2> HIDE DEF l
  <2>3. free' \in SUBSET Nodes /\ task' \in [Nodes -> Task \cup {NoTask}] /\ next' \in [Nodes -> Pointer]
    BY <2>1, <2>2 DEF Pointer
  <2> QED
    BY <1>10, <2>3 DEF Destroy, Pointer
<1>11. CASE UNCHANGED vars
  BY <1>11 DEF vars
<1> QED
  BY <1>1, <1>2, <1>3, <1>4, <1>5, <1>6, <1>7, <1>8, <1>9, <1>10, <1>11
     DEF Next, ProducerStep, OwnerStep, UnregisterStep
-----------------------------------------------------------------------------
(* The lists and the places of the nodes.                                   *)

LEMMA ListNames == Listed = Range(H) /\ Cached = Range(C) /\ Listed' = Range(H') /\ Cached' = Range(C')
  BY DEF Listed, Cached, H, C

\* What xmpscq_drain_destroy frees is both lists.
LEMMA ConcatRange ==
  ASSUME NEW S, NEW s \in Seq(S), NEW t \in Seq(S)
  PROVE  Range(s \o t) = Range(s) \cup Range(t)
<1> DEFINE u == s \o t
<1>1. /\ Len(s) \in Nat /\ Len(t) \in Nat /\ DOMAIN s = 1..Len(s) /\ DOMAIN t = 1..Len(t)
      /\ u \in Seq(S) /\ Len(u) = Len(s) + Len(t) /\ DOMAIN u = 1..(Len(s) + Len(t))
  OBVIOUS
<1>2. /\ \A i \in 1..Len(s) : i \in 1..(Len(s) + Len(t)) /\ u[i] = s[i]
      /\ \A i \in 1..Len(t) : Len(s) + i \in 1..(Len(s) + Len(t)) /\ u[Len(s) + i] = t[i]
  BY <1>1
<1> HIDE DEF u
<1>3. \A i \in 1..(Len(s) + Len(t)) :
        \/ i \in 1..Len(s) /\ u[i] = s[i]
        \/ i - Len(s) \in 1..Len(t) /\ u[i] = t[i - Len(s)]
  <2> TAKE i \in 1..(Len(s) + Len(t))
  <2>1. CASE i \in 1..Len(s)
    BY <1>2, <2>1
  <2>2. CASE ~(i \in 1..Len(s))
    <3> DEFINE j == i - Len(s)
    <3>1. j \in 1..Len(t) /\ i = Len(s) + j
      BY <1>1, <2>2
    <3> QED
      BY <1>2, <3>1
  <2> QED
    BY <2>1, <2>2
<1>4. \A x \in Range(u) : x \in Range(s) \cup Range(t)
  <2> SUFFICES ASSUME NEW x \in Range(u) PROVE x \in Range(s) \cup Range(t)
    OBVIOUS
  <2>1. PICK i \in 1..(Len(s) + Len(t)) : x = u[i]
    BY <1>1 DEF Range
  <2>2. (\A k \in 1..Len(s) : s[k] \in Range(s)) /\ (\A k \in 1..Len(t) : t[k] \in Range(t))
    BY <1>1 DEF Range
  <2> QED
    BY <1>3, <2>1, <2>2
<1>5. \A x \in Range(s) \cup Range(t) : x \in Range(u)
  BY <1>1, <1>2 DEF Range
<1> QED
  BY <1>4, <1>5 DEF u

LEMMA DrainRange ==
  ASSUME Lists
  PROVE  Range(Chain(cache) \o Reverse(Chain(head))) = Listed \cup Cached
<1>1. H \in Seq(Nodes) /\ C \in Seq(Nodes)
  BY DEF Lists, IsPath
<1>2. Reverse(H) \in Seq(Nodes) /\ Range(Reverse(H)) = Range(H)
  BY <1>1, ReverseFacts
<1>3. Range(C \o Reverse(H)) = Range(C) \cup Range(H)
  BY <1>1, <1>2, ConcatRange
<1> QED
  BY <1>3 DEF H, C, Listed, Cached

\* Steps that touch neither a list nor a node.
Quiet == UNCHANGED <<head, cache, next, task, free, cur, pnode, old_head, sent, done, lost>>

LEMMA QuietSteps ==
  ASSUME MpscTypeOK, OwnerInv, [Next]_vars
  PROVE  \/ \E p \in Producers : PostCheck(p) \/ PostLoad(p) \/ PostCas(p)
         \/ Pop \/ RunTask \/ Destroy
         \/ /\ Quiet
            /\ \A p \in Producers :
                 /\ ppc'[p] = "cas" => ppc[p] = "cas"
                 /\ Filling(p)' => Filling(p)
                 /\ upc # "freed" /\ Filling(p) => Filling(p)'
            /\ upc = "freed" => upc' = "freed"
<1> USE DEF mvars, wvars, cvars, pvars, hvars, Goto, Process, Quiet
<1>1. ASSUME NEW p \in Producers, PostAdd(p)
      PROVE  Quiet /\ ppc' = [ppc EXCEPT ![p] = "load"] /\ ppc[p] = "add" /\ UNCHANGED upc
  BY <1>1 DEF PostAdd
<1>2. ASSUME NEW p \in Producers, PostExchange(p) \/ PostNotify(p) \/ PostWrite(p)
      PROVE  Quiet /\ UNCHANGED upc /\ ppc[p] \in {"xchg", "notify", "write"}
             /\ \E l \in {"notify", "write", "idle"} : ppc' = [ppc EXCEPT ![p] = l]
  BY <1>2 DEF PostExchange, PostNotify, PostWrite
<1>3. ASSUME NEW p \in Producers, PostUseAfterFree(p)
      PROVE  Quiet /\ ppc' = [ppc EXCEPT ![p] = "uaf"] /\ upc = "freed" /\ UNCHANGED upc
  BY <1>3 DEF PostUseAfterFree
<1>4. ASSUME \/ WakeupInit \/ LoopHead \/ ResetNotify \/ CountDown \/ PollWake \/ Uninit
             \/ PollReturns \/ Unregister \/ UnregisterNotify \/ UnregisterWrite \/ UNCHANGED vars
      PROVE  Quiet /\ UNCHANGED ppc /\ (upc = "freed" => upc' = "freed")
  BY <1>4 DEF WakeupInit, LoopHead, ResetNotify, CountDown, PollWake, Uninit, PollReturns,
     Unregister, UnregisterNotify, UnregisterWrite, vars
<1>5. \/ \E p \in Producers : PostCheck(p) \/ PostLoad(p) \/ PostCas(p)
      \/ Pop \/ RunTask \/ Destroy
      \/ \E p \in Producers : PostAdd(p)
      \/ \E p \in Producers : PostExchange(p) \/ PostNotify(p) \/ PostWrite(p)
      \/ \E p \in Producers : PostUseAfterFree(p)
      \/ \/ WakeupInit \/ LoopHead \/ ResetNotify \/ CountDown \/ PollWake \/ Uninit
         \/ PollReturns \/ Unregister \/ UnregisterNotify \/ UnregisterWrite \/ UNCHANGED vars
  BY DEF Next, ProducerStep, OwnerStep, UnregisterStep
<1> USE DEF MpscTypeOK, Filling
<1>6. ASSUME NEW p \in Producers, NEW q \in Producers, NEW l, ppc' = [ppc EXCEPT ![p] = l]
      PROVE  ppc'[q] = IF q = p THEN l ELSE ppc[q]
  BY <1>6
<1>7. ASSUME NEW p \in Producers, PostAdd(p), NEW q \in Producers
      PROVE  /\ ppc'[q] = "cas" => ppc[q] = "cas"
             /\ Filling(q)' <=> Filling(q)
  BY <1>1, <1>6, <1>7
<1>8. ASSUME NEW p \in Producers, PostExchange(p) \/ PostNotify(p) \/ PostWrite(p), NEW q \in Producers
      PROVE  /\ ppc'[q] = "cas" => ppc[q] = "cas"
             /\ Filling(q)' <=> Filling(q)
  BY <1>2, <1>6, <1>8
<1>9. ASSUME NEW p \in Producers, PostUseAfterFree(p), NEW q \in Producers
      PROVE  /\ ppc'[q] = "cas" => ppc[q] = "cas"
             /\ Filling(q)' => Filling(q)
  BY <1>3, <1>6, <1>9
<1>10. UNCHANGED ppc => \A q \in Producers : /\ ppc'[q] = "cas" => ppc[q] = "cas"
                                             /\ Filling(q)' <=> Filling(q)
  OBVIOUS
<1> QED
  BY <1>1, <1>2, <1>3, <1>4, <1>5, <1>7, <1>8, <1>9, <1>10

\* Lists end.
LEMMA ListStep ==
  ASSUME MpscTypeOK, ListInv, PlaceInv, OwnerInv, [Next]_vars
  PROVE  ListInv'
<1> DEFINE Cas == \A p \in Producers : ppc[p] = "cas" => next[pnode[p]] = old_head[p]
<1>0. Lists /\ Cas
  BY DEF ListInv, Lists, H, C
<1> SUFFICES Lists' /\ Cas'
  BY DEF ListInv, Lists, H, C
<1> USE DEF Goto
<1>1. ASSUME NEW p \in Producers, PostCheck(p) PROVE Lists' /\ Cas'
  <2>1. UNCHANGED <<head, cache, next, old_head>>
    BY <1>1 DEF PostCheck
  <2>2. \A q \in Producers : ppc'[q] = "cas" => ppc[q] = "cas" /\ pnode'[q] = pnode[q]
    BY <1>1 DEF PostCheck, MpscTypeOK
  <2> QED
    BY <1>0, <2>1, <2>2, KeepLists
<1>2. ASSUME NEW p \in Producers, PostLoad(p) PROVE Lists' /\ Cas'
  <2>1. /\ UNCHANGED <<head, cache, pnode>> /\ ppc[p] = "load"
        /\ next' = [next EXCEPT ![pnode[p]] = head] /\ old_head' = [old_head EXCEPT ![p] = head]
        /\ ppc' = [ppc EXCEPT ![p] = "cas"]
    BY <1>2 DEF PostLoad
  <2>2. pnode[p] \in Nodes /\ pnode[p] \notin Listed \cup Cached
    BY <2>1 DEF PlaceInv, Filling
  <2>3. \A n \in Nodes : next'[n] = IF n = pnode[p] THEN head ELSE next[n]
    BY <2>1, <2>2 DEF MpscTypeOK
  <2>4. Listed \cup Cached \subseteq Nodes
    BY <1>0, ListNames, PathFacts DEF Lists, Range
  <2>5. Lists'
    BY <1>0, <2>1, <2>2, <2>3, <2>4, KeepLists
  <2>6. ASSUME NEW q \in Producers, ppc'[q] = "cas" PROVE next'[pnode'[q]] = old_head'[q]
    <3>1. CASE q = p
      BY <2>1, <2>2, <2>3, <3>1 DEF MpscTypeOK
    <3>2. CASE q # p
      <4>1. ppc[q] = "cas" /\ pnode[q] # pnode[p] /\ pnode[q] \in Nodes
        BY <2>1, <2>6, <3>2 DEF PlaceInv, Filling, MpscTypeOK
      <4> QED
        BY <1>0, <2>1, <2>3, <3>2, <4>1 DEF MpscTypeOK
    <3> QED
      BY <3>1, <3>2
  <2> QED
    BY <2>5, <2>6
<1>3. ASSUME NEW p \in Producers, PostCas(p) PROVE Lists' /\ Cas'
  <2>1. UNCHANGED <<cache, next, pnode, old_head>> /\ ppc[p] = "cas"
    BY <1>3 DEF PostCas
  <2>2. Cas'
    BY <1>0, <1>3 DEF PostCas, MpscTypeOK
  <2>3. CASE head = old_head[p] /\ head' = pnode[p]
    <3>1. head' \in Nodes /\ head' \notin Listed /\ next[head'] = head
      BY <1>0, <2>1, <2>3 DEF PlaceInv, Filling
    <3> QED
      BY <1>0, <2>1, <2>2, <3>1, PushLists
  <2>4. CASE UNCHANGED head
    BY <1>0, <2>1, <2>2, <2>4, KeepLists
  <2> QED
    BY <1>3, <2>3, <2>4 DEF PostCas
<1>4. ASSUME UNCHANGED <<ppc, pnode, old_head>>,
             \A p \in Producers : ppc[p] = "cas" => next'[pnode[p]] = next[pnode[p]]
      PROVE  Cas'
  BY <1>0, <1>4
<1>5. CASE Pop
  <2>1. Lists' /\ Range(Taken) \subseteq Listed \cup Cached
    <3>1. Lists'
      BY <1>0, <1>5, PopLists DEF PlaceInv, MpscTypeOK
    <3>2. H \in Seq(Nodes)
      BY <1>0 DEF Lists, IsPath
    <3> QED
      BY <3>1, <3>2, ListNames, ReverseFacts DEF Taken
  <2>2. \A n \in Nodes : n \notin Range(Taken) => next'[n] = next[n]
    BY <1>5 DEF Pop, Taken, H, C
  <2>3. \A p \in Producers : ppc[p] = "cas" => next'[pnode[p]] = next[pnode[p]]
    BY <2>1, <2>2 DEF PlaceInv, Filling
  <2>4. UNCHANGED <<ppc, pnode, old_head>>
    BY <1>5 DEF Pop, pvars
  <2> QED
    BY <1>4, <2>1, <2>3, <2>4
<1>6. CASE RunTask
  <2>1. /\ UNCHANGED <<ppc, pnode, old_head, head, cache>>
        /\ next' = [next EXCEPT ![cur] = Null]
    BY <1>6 DEF RunTask, pvars
  <2>2. \A n \in Nodes : n # cur => next'[n] = next[n]
    BY <2>1 DEF MpscTypeOK
  <2>3. \A p \in Producers : ppc[p] = "cas" => next'[pnode[p]] = next[pnode[p]]
    BY <2>2 DEF PlaceInv, Filling
  <2>4. Listed \cup Cached \subseteq Nodes
    BY <1>0, ListNames, PathFacts DEF Lists, Range
  <2>5. Lists'
    BY <1>0, <2>1, <2>2, <2>4, KeepLists DEF PlaceInv
  <2> QED
    BY <1>4, <2>1, <2>3, <2>5
<1>7. CASE Destroy
  <2>1. /\ UNCHANGED <<ppc, pnode, old_head>> /\ head' = Null /\ cache' = Null
        /\ next' = [n \in Nodes |->
             IF n \in Range(Chain(cache) \o Reverse(Chain(head))) THEN Null ELSE next[n]]
    BY <1>7 DEF Destroy, pvars
  <2>2. Range(Chain(cache) \o Reverse(Chain(head))) = Listed \cup Cached
    BY <1>0, DrainRange
  <2>3. \A p \in Producers : ppc[p] = "cas" => next'[pnode[p]] = next[pnode[p]]
    BY <2>1, <2>2 DEF PlaceInv, Filling
  <2> QED
    BY <1>4, <2>1, <2>3, EmptyLists
<1>8. CASE Quiet /\ \A p \in Producers : ppc'[p] = "cas" => ppc[p] = "cas"
  BY <1>0, <1>8, KeepLists DEF Quiet
<1> QED
  BY <1>1, <1>2, <1>3, <1>5, <1>6, <1>7, <1>8, QuietSteps

\* Every node stays in one place.
LEMMA PlaceStep ==
  ASSUME MpscTypeOK, ListInv, PlaceInv, OwnerInv, [Next]_vars
  PROVE  PlaceInv'
<1> USE MpscAssumption DEF Goto
<1>0. Lists
  BY DEF ListInv, Lists, H, C
<1>1. ASSUME NEW p \in Producers, PostCheck(p) PROVE PlaceInv'
  <2>1. UNCHANGED <<head, cache, next, cur, upc>> /\ upc # "freed" /\ ppc[p] = "idle"
    BY <1>1 DEF PostCheck, OwnerInv, cvars
  <2>2. UNCHANGED <<Listed, Cached>>
    BY <1>0, <2>1, KeepLists, ListNames
  <2>3. CASE UNCHANGED <<free, task, pnode, ppc>>
    BY <2>1, <2>2, <2>3 DEF PlaceInv, Filling
  <2>4. ASSUME NEW k \in Kinds, NEW n \in free, free' = free \ {n},
               task' = [task EXCEPT ![n] = [from |-> p, n |-> posted[p] + 1, kind |-> k]],
               pnode' = [pnode EXCEPT ![p] = n], ppc' = [ppc EXCEPT ![p] = "add"],
               posted[p] < MaxPosts
        PROVE  PlaceInv'
    <3>1. [from |-> p, n |-> posted[p] + 1, kind |-> k] \in Task
      BY <2>4 DEF Task, MpscTypeOK
    <3>2. n \in Nodes /\ \A m \in Nodes \ free' : task'[m] \in Task
      BY <2>4, <3>1 DEF PlaceInv, MpscTypeOK
    <3>3. pnode'[p] = n /\ Filling(p)' /\ ~Filling(p)
      BY <2>1, <2>4 DEF MpscTypeOK, Filling
    <3>4. \A q \in Producers : q # p => pnode'[q] = pnode[q] /\ (Filling(q)' <=> Filling(q))
      BY <2>4 DEF MpscTypeOK, Filling
    <3>5. \A q \in Producers : Filling(q)' =>
            /\ pnode'[q] \in Nodes \ (Listed \cup Cached \cup free') /\ pnode'[q] # cur
            /\ \A r \in Producers : Filling(r)' /\ pnode'[r] = pnode'[q] => r = q
      BY <2>4, <3>2, <3>3, <3>4 DEF PlaceInv
    <3>6. \A m \in Nodes : m \in Listed \cup Cached \cup free' \cup {cur}
                           \/ \E q \in Producers : Filling(q)' /\ pnode'[q] = m
      <4> TAKE m \in Nodes
      <4>1. CASE m = n
        BY <3>3, <4>1
      <4>2. CASE m # n /\ m \in Listed \cup Cached \cup free \cup {cur}
        BY <2>4, <4>2
      <4>3. CASE \E q \in Producers : Filling(q) /\ pnode[q] = m
        BY <3>3, <3>4, <4>3
      <4> QED
        BY <2>1, <4>1, <4>2, <4>3 DEF PlaceInv
    <3>7. Listed \cap Cached = {} /\ (Listed \cup Cached) \cap free' = {}
          /\ cur \notin Listed \cup Cached \cup free'
      BY <2>4 DEF PlaceInv
    <3> QED
      BY <2>1, <2>2, <3>2, <3>5, <3>6, <3>7 DEF PlaceInv
  <2> QED
    BY <1>1, <2>3, <2>4 DEF PostCheck
<1>2. ASSUME NEW p \in Producers, PostLoad(p) PROVE PlaceInv'
  <2>1. /\ UNCHANGED <<head, cache, pnode, cur, upc, free, task>> /\ ppc[p] = "load"
        /\ next' = [next EXCEPT ![pnode[p]] = head]
        /\ ppc' = [ppc EXCEPT ![p] = "cas"]
    BY <1>2 DEF PostLoad, cvars
  <2>2. pnode[p] \in Nodes /\ pnode[p] \notin Listed \cup Cached
    BY <2>1 DEF PlaceInv, Filling
  <2>3. \A n \in Nodes : n # pnode[p] => next'[n] = next[n]
    BY <2>1, <2>2 DEF MpscTypeOK
  <2>4. Listed \cup Cached \subseteq Nodes
    BY <1>0, ListNames, PathFacts DEF Lists, Range
  <2>5. UNCHANGED <<Listed, Cached>>
    BY <1>0, <2>1, <2>2, <2>3, <2>4, KeepLists, ListNames
  <2>6. \A q \in Producers : Filling(q)' <=> Filling(q)
    BY <2>1 DEF Filling, MpscTypeOK
  <2> QED
    BY <2>1, <2>5, <2>6 DEF PlaceInv
<1>3. ASSUME NEW p \in Producers, PostCas(p) PROVE PlaceInv'
  <2>1. UNCHANGED <<cache, next, pnode, cur, upc, free, task>> /\ ppc[p] = "cas"
    BY <1>3 DEF PostCas, cvars
  <2>2. CASE head = old_head[p] /\ head' = pnode[p] /\ ppc' = [ppc EXCEPT ![p] = "xchg"]
    <3>1. head' \in Nodes /\ head' \notin Listed \cup Cached \cup free \cup {cur} /\ next[head'] = head
      BY <1>0, <2>1, <2>2 DEF PlaceInv, Filling, ListInv
    <3>2. H' = <<head'>> \o H /\ UNCHANGED C
      BY <1>0, <2>1, <3>1, PushLists
    <3>3. Listed' = Listed \cup {pnode[p]} /\ Cached' = Cached
      <4>1. IsPath(next, head, H) /\ head' \notin Range(H)
        BY <1>0, <3>1, ListNames DEF Lists
      <4>2. Range(<<head'>> \o H) = Range(H) \cup {head'}
        BY <3>1, <4>1, PushPath
      <4> QED
        BY <2>2, <3>2, <4>2, ListNames
    <3>4. \A q \in Producers : Filling(q)' <=> Filling(q) /\ q # p
      BY <2>1, <2>2 DEF Filling, MpscTypeOK
    <3>5. Filling(p)
      BY <2>1 DEF Filling
    <3>6. \A q \in Producers : Filling(q)' =>
            /\ pnode[q] \in Nodes \ (Listed' \cup Cached \cup free) /\ pnode[q] # cur
            /\ \A r \in Producers : Filling(r)' /\ pnode[r] = pnode[q] => r = q
      BY <3>3, <3>4, <3>5 DEF PlaceInv
    <3>7. upc # "freed" => \A m \in Nodes : m \in Listed' \cup Cached \cup free \cup {cur}
                           \/ \E q \in Producers : Filling(q)' /\ pnode[q] = m
      BY <3>3, <3>4 DEF PlaceInv
    <3>8. Listed' \cap Cached = {} /\ (Listed' \cup Cached) \cap free = {}
          /\ cur \notin Listed' \cup Cached \cup free
      BY <2>2, <3>1, <3>3 DEF PlaceInv
    <3> QED
      BY <2>1, <3>3, <3>6, <3>7, <3>8 DEF PlaceInv
  <2>3. CASE UNCHANGED head /\ ppc' = [ppc EXCEPT ![p] = "load"]
    <3>1. UNCHANGED <<Listed, Cached>>
      BY <1>0, <2>1, <2>3, KeepLists, ListNames
    <3>2. \A q \in Producers : Filling(q)' <=> Filling(q)
      BY <2>1, <2>3 DEF Filling, MpscTypeOK
    <3> QED
      BY <2>1, <3>1, <3>2 DEF PlaceInv
  <2> QED
    BY <1>3, <2>2, <2>3 DEF PostCas
<1>4. CASE Pop
  <2>1. UNCHANGED <<free, task, ppc, pnode, upc>> /\ cpc = "pop"
    BY <1>4 DEF Pop, pvars
  <2>2. cur = Null /\ next \in [Nodes -> Pointer] /\ Listed \cap Cached = {}
    BY <2>1 DEF OwnerInv, PlaceInv, MpscTypeOK
  <2>3. \A q \in Producers : Filling(q)' <=> Filling(q)
    BY <2>1 DEF Filling
  <2>4. CASE Taken = <<>>
    <3>1. UNCHANGED <<H, C, cur>>
      BY <1>0, <1>4, <2>2, <2>4, PopLists
    <3>2. UNCHANGED <<Listed, Cached>>
      BY <3>1, ListNames
    <3> QED
      BY <2>1, <2>3, <3>1, <3>2 DEF PlaceInv
  <2>5. CASE Taken # <<>>
    <3>1. /\ H' = IF cache # Null THEN H ELSE <<>>
          /\ cur' \in Nodes /\ cur' \notin Range(C')
          /\ Range(Taken) = Range(C') \cup {cur'}
      BY <1>0, <1>4, <2>2, <2>5, PopLists
    <3>2. H \in Seq(Nodes) /\ (cache = Null <=> C = <<>>)
      BY <1>0, PathFacts DEF Lists, IsPath
    <3>3. Range(<<>>) = {}
      BY DEF Range
    <3>4. /\ Listed' \cup Cached' \cup {cur'} = Listed \cup Cached
          /\ Listed' \cap Cached' = {} /\ cur' \notin Listed' \cup Cached'
      <4>1. CASE cache # Null
        <5>1. Listed' = Listed /\ Cached = Cached' \cup {cur'}
          BY <3>1, <4>1, ListNames DEF Taken
        <5> QED
          BY <2>2, <3>1, <5>1, ListNames
      <4>2. CASE cache = Null
        <5>1. Listed' = {} /\ Cached = {}
          BY <3>1, <3>2, <3>3, <4>2, ListNames
        <5>2. Listed = Cached' \cup {cur'}
          BY <3>1, <3>2, <4>2, ListNames, ReverseFacts DEF Taken
        <5> QED
          BY <3>1, <5>1, <5>2, ListNames
      <4> QED
        BY <4>1, <4>2
    <3>5. \A q \in Producers : Filling(q)' =>
            /\ pnode[q] \in Nodes \ (Listed' \cup Cached' \cup free) /\ pnode[q] # cur'
            /\ \A r \in Producers : Filling(r)' /\ pnode[r] = pnode[q] => r = q
      BY <2>3, <3>4 DEF PlaceInv
    <3>6. upc # "freed" => \A m \in Nodes : m \in Listed' \cup Cached' \cup free \cup {cur'}
                           \/ \E q \in Producers : Filling(q)' /\ pnode[q] = m
      BY <2>2, <2>3, <3>4 DEF PlaceInv
    <3>7. (Listed' \cup Cached') \cap free = {} /\ cur' \notin free
      BY <3>4 DEF PlaceInv
    <3> QED
      BY <2>1, <3>4, <3>5, <3>6, <3>7 DEF PlaceInv
  <2> QED
    BY <2>4, <2>5
<1>5. CASE RunTask
  <2>1. /\ UNCHANGED <<head, cache, ppc, pnode, upc>> /\ cpc = "run" /\ cur' = Null
        /\ free' = free \cup {cur} /\ next' = [next EXCEPT ![cur] = Null]
        /\ task' = [task EXCEPT ![cur] = NoTask]
    BY <1>5 DEF RunTask, pvars
  <2>2. cur \in Nodes
    BY <2>1 DEF OwnerInv, MpscTypeOK, Pointer
  <2>3. \A n \in Nodes : n # cur => next'[n] = next[n] /\ task'[n] = task[n]
    BY <2>1, <2>2 DEF MpscTypeOK
  <2>4. Listed \cup Cached \subseteq Nodes
    BY <1>0, ListNames, PathFacts DEF Lists, Range
  <2>5. UNCHANGED <<Listed, Cached>>
    BY <1>0, <2>1, <2>3, <2>4, KeepLists, ListNames DEF PlaceInv
  <2>6. \A q \in Producers : Filling(q)' <=> Filling(q)
    BY <2>1 DEF Filling
  <2>7. \A q \in Producers : Filling(q)' =>
          /\ pnode[q] \in Nodes \ (Listed \cup Cached \cup free') /\ pnode[q] # cur'
          /\ \A r \in Producers : Filling(r)' /\ pnode[r] = pnode[q] => r = q
    BY <2>1, <2>6 DEF PlaceInv
  <2>8. \A m \in Nodes \ free' : task'[m] \in Task
    BY <2>1, <2>3 DEF PlaceInv
  <2>9. upc # "freed" => \A m \in Nodes : m \in Listed \cup Cached \cup free' \cup {cur'}
                           \/ \E q \in Producers : Filling(q)' /\ pnode[q] = m
    BY <2>1, <2>6 DEF PlaceInv
  <2>10. /\ Listed \cap Cached = {} /\ (Listed \cup Cached) \cap free' = {}
         /\ cur' \notin Listed \cup Cached \cup free'
    BY <2>1, <2>2, <2>4 DEF PlaceInv, MpscTypeOK
  <2> QED
    BY <2>1, <2>5, <2>7, <2>8, <2>9, <2>10 DEF PlaceInv
<1>6. CASE Destroy
  <2> DEFINE d == Range(Chain(cache) \o Reverse(Chain(head)))
  <2>1. /\ UNCHANGED <<ppc, pnode, cur>> /\ head' = Null /\ cache' = Null /\ upc' = "freed"
        /\ free' = free \cup d
        /\ task' = [n \in Nodes |-> IF n \in d THEN NoTask ELSE task[n]]
    BY <1>6 DEF Destroy, pvars, cvars
  <2>2. d = Listed \cup Cached
    BY <1>0, DrainRange
  <2>3. Listed' = {} /\ Cached' = {}
    BY <2>1, EmptyLists, ListNames DEF Range
  <2>4. \A q \in Producers : Filling(q)' <=> Filling(q)
    BY <2>1 DEF Filling
  <2> HIDE DEF d
  <2>5. \A m \in Nodes \ free' : task'[m] \in Task
    BY <2>1 DEF PlaceInv
  <2>6. cur' \notin free'
    BY <2>1, <2>2 DEF PlaceInv
  <2>7. \A q \in Producers : Filling(q)' =>
          /\ pnode[q] \in Nodes \ (Listed' \cup Cached' \cup free') /\ pnode[q] # cur'
          /\ \A r \in Producers : Filling(r)' /\ pnode[r] = pnode[q] => r = q
    BY <2>1, <2>2, <2>3, <2>4 DEF PlaceInv
  <2> QED
    BY <2>1, <2>3, <2>5, <2>6, <2>7 DEF PlaceInv
<1>7. CASE /\ Quiet
           /\ \A p \in Producers :
                /\ Filling(p)' => Filling(p)
                /\ upc # "freed" /\ Filling(p) => Filling(p)'
           /\ upc = "freed" => upc' = "freed"
  <2>1. UNCHANGED <<Listed, Cached, free, cur, task, pnode>>
    BY <1>0, <1>7, KeepLists, ListNames DEF Quiet
  <2> QED
    BY <1>7, <2>1 DEF PlaceInv
<1> QED
  BY <1>1, <1>2, <1>3, <1>4, <1>5, <1>6, <1>7, QuietSteps
-----------------------------------------------------------------------------
(* The owner and its wakeups.                                               *)

LEMMA OwnerKept ==
  ASSUME MpscTypeOK, ListInv, PlaceInv, OwnerInv, [Next]_vars
  PROVE  OwnerInv'
<1> USE MpscAssumption DEF Goto, Process, mvars, wvars, cvars, pvars, hvars
<1>0. Lists
  BY DEF ListInv, Lists, H, C
<1>1. ASSUME NEW p \in Producers,
             \/ PostCheck(p) \/ PostAdd(p) \/ PostLoad(p) \/ PostCas(p) \/ PostExchange(p)
             \/ PostNotify(p) \/ PostWrite(p) \/ PostUseAfterFree(p)
      PROVE  OwnerInv'
  <2>1. /\ UNCHANGED <<cpc, ret, cur, cache, armed, running, upc>>
        /\ upc = "freed" => UNCHANGED <<pending_tasks, head>>
    BY <1>1 DEF PostCheck, PostAdd, PostLoad, PostCas, PostExchange, PostNotify, PostWrite,
       PostUseAfterFree
  <2> QED
    BY <2>1 DEF OwnerInv
<1>2. CASE Pop
  <2>1. /\ UNCHANGED <<armed, running, upc, ret, pending_tasks>> /\ cpc = "pop"
        /\ cpc' \in {"run", ret}
    BY <1>2 DEF Pop
  <2>2. /\ Lists'
        /\ \/ C' = <<>> /\ cur' = Null /\ cpc' = ret
           \/ cpc' = "run" /\ cur' \in Nodes
    BY <1>0, <1>2, PopLists DEF PlaceInv, MpscTypeOK
  <2>3. C' = <<>> => cache' = Null
    BY <2>2, PathFacts DEF Lists
  <2> QED
    BY <2>1, <2>2, <2>3 DEF OwnerInv, MpscTypeOK
<1>3. CASE WakeupInit
  BY <1>3 DEF WakeupInit, OwnerInv, MpscTypeOK
<1>4. CASE LoopHead \/ ResetNotify \/ CountDown
  BY <1>4 DEF LoopHead, ResetNotify, CountDown, OwnerInv, MpscTypeOK
<1>5. CASE PollWake \/ PollReturns \/ Uninit
  BY <1>5 DEF PollWake, PollReturns, Uninit, OwnerInv, MpscTypeOK
<1>6. CASE RunTask
  BY <1>6 DEF RunTask, OwnerInv, MpscTypeOK
<1>7. CASE Unregister \/ UnregisterNotify \/ UnregisterWrite
  BY <1>7 DEF Unregister, UnregisterNotify, UnregisterWrite, OwnerInv, MpscTypeOK
<1>8. CASE Destroy
  BY <1>8 DEF Destroy, OwnerInv
<1>9. CASE UNCHANGED vars
  BY <1>9 DEF vars, OwnerInv
<1> QED
  BY <1>1, <1>2, <1>3, <1>4, <1>5, <1>6, <1>7, <1>8, <1>9
     DEF Next, ProducerStep, OwnerStep, UnregisterStep

\* Who keeps an announcement: everyone but the producer that writes it.
LEMMA AnnouncedKept ==
  ASSUME Announced, pipe' = pipe,
         \A p \in Producers : ppc[p] \in {"notify", "write"} /\ need[p] =>
           ppc'[p] \in {"notify", "write"} /\ need'[p]
  PROVE  Announced'
  BY DEF Announced

LEMMA WakeStep ==
  ASSUME MpscTypeOK, ListInv, PlaceInv, OwnerInv, WakeInv, [Next]_vars
  PROVE  WakeInv'
<1> USE MpscAssumption DEF Goto, Process, mvars, wvars, cvars, pvars, hvars
<1>0. Lists
  BY DEF ListInv, Lists, H, C
<1>t. /\ \A p \in Producers : ppc[p] \in Labels /\ need[p] \in BOOLEAN
      /\ DOMAIN ppc = Producers /\ DOMAIN need = Producers /\ pipe \in {0, 1}
  BY DEF MpscTypeOK
<1>1. ASSUME NEW p \in Producers, PostCheck(p) \/ PostAdd(p) \/ PostLoad(p)
      PROVE  WakeInv'
  <2>1. /\ UNCHANGED <<cpc, armed, notify_pending, head, pipe, need>>
        /\ ppc[p] \in {"idle", "add", "load"}
        /\ \A q \in Producers : q # p => ppc'[q] = ppc[q]
    BY <1>1, <1>t DEF PostCheck, PostAdd, PostLoad
  <2>2. Announced => Announced'
    BY <2>1, AnnouncedKept
  <2> QED
    BY <2>1, <2>2 DEF WakeInv
<1>2. ASSUME NEW p \in Producers, PostCas(p) PROVE WakeInv'
  <2>1. /\ UNCHANGED <<cpc, armed, notify_pending, pipe, need>> /\ ppc[p] = "cas"
        /\ ppc'[p] = "xchg" \/ UNCHANGED head
        /\ \A q \in Producers : q # p => ppc'[q] = ppc[q]
    BY <1>2, <1>t DEF PostCas
  <2>2. Announced => Announced'
    BY <2>1, AnnouncedKept
  <2> QED
    BY <2>1, <2>2 DEF WakeInv
<1>3. ASSUME NEW p \in Producers, PostExchange(p) PROVE WakeInv'
  <2>1. /\ UNCHANGED <<cpc, armed, pipe, head>> /\ ppc[p] = "xchg" /\ ppc'[p] = "notify"
        /\ need'[p] = (notify_pending = 0)
        /\ \A q \in Producers : q # p => ppc'[q] = ppc[q] /\ need'[q] = need[q]
    BY <1>3, <1>t DEF PostExchange
  <2>2. Announced => Announced'
    BY <2>1, AnnouncedKept
  <2>3. notify_pending = 0 => Announced'
    BY <2>1 DEF Announced
  <2>4. notify_pending \in {0, 1} /\ (cpc = "poll" => armed)
    BY DEF MpscTypeOK, OwnerInv
  <2> QED
    BY <2>1, <2>2, <2>3, <2>4 DEF WakeInv
<1>4. ASSUME NEW p \in Producers, PostNotify(p) PROVE WakeInv'
  <2>1. /\ UNCHANGED <<cpc, armed, pipe, head, need, notify_pending>> /\ ppc[p] = "notify"
        /\ need[p] /\ armed => ppc'[p] = "write"
        /\ \A q \in Producers : q # p => ppc'[q] = ppc[q]
    BY <1>4, <1>t DEF PostNotify
  <2>2. Announced /\ armed => Announced'
    BY <2>1 DEF Announced
  <2>3. cpc = "poll" => armed
    BY DEF OwnerInv
  <2> QED
    BY <2>1, <2>2, <2>3 DEF WakeInv
<1>5. ASSUME NEW p \in Producers, PostWrite(p) PROVE WakeInv'
  <2>1. /\ UNCHANGED <<cpc, armed, head, need, notify_pending>> /\ ppc[p] = "write"
        /\ pipe' = IF armed THEN 1 ELSE pipe
        /\ \A q \in Producers : q # p => ppc'[q] = ppc[q]
    BY <1>5, <1>t DEF PostWrite
  <2>2. armed => Announced'
    BY <2>1 DEF Announced
  <2>3. cpc = "poll" => armed
    BY DEF OwnerInv
  <2> QED
    BY <2>1, <2>2, <2>3 DEF WakeInv
<1>6. ASSUME NEW p \in Producers, PostUseAfterFree(p) PROVE WakeInv'
  <2>1. UNCHANGED <<cpc, armed>> /\ cpc = "stopped"
    BY <1>6 DEF PostUseAfterFree, OwnerInv
  <2> QED
    BY <2>1 DEF WakeInv
<1>7. CASE Pop
  <2>1. UNCHANGED <<ppc, need, pipe, armed, notify_pending>> /\ cpc = "pop" /\ cpc' \in {"run", ret}
    BY <1>7 DEF Pop
  <2>2. cpc' = "poll" => head' = Null
    <3>1. Lists' /\ (cpc' = "poll" => H' = <<>>)
      BY <1>0, <1>7, PopLists DEF PlaceInv, MpscTypeOK
    <3> QED
      BY <3>1, PathFacts DEF Lists
  <2>3. Announced => Announced'
    BY <2>1 DEF Announced
  <2> QED
    BY <2>1, <2>2, <2>3 DEF WakeInv
<1>8. CASE ResetNotify
  BY <1>8 DEF ResetNotify, WakeInv
<1>9. CASE WakeupInit \/ LoopHead \/ PollWake \/ Uninit
  BY <1>9 DEF WakeupInit, LoopHead, PollWake, Uninit, WakeInv, OwnerInv
<1>10. CASE RunTask \/ CountDown \/ PollReturns
  <2>1. /\ UNCHANGED <<ppc, need, pipe, armed, notify_pending, head>>
        /\ cpc \in {"run", "sub", "poll"} /\ cpc' \in {"sub", "pop", "loop"}
    BY <1>10 DEF RunTask, CountDown, PollReturns
  <2>2. Announced => Announced'
    BY <2>1 DEF Announced
  <2> QED
    BY <2>1, <2>2 DEF WakeInv
<1>11. CASE Unregister \/ UnregisterNotify \/ UnregisterWrite
  <2>1. /\ UNCHANGED <<cpc, ppc, need, armed, notify_pending, head>> /\ pipe' \in {pipe, 1}
    BY <1>11 DEF Unregister, UnregisterNotify, UnregisterWrite
  <2>2. Announced => Announced'
    BY <2>1 DEF Announced
  <2> QED
    BY <2>1, <2>2 DEF WakeInv
<1>12. CASE Destroy
  BY <1>12 DEF Destroy, WakeInv
<1>13. CASE UNCHANGED vars
  BY <1>13 DEF vars, WakeInv, Announced
<1> QED
  BY <1>1, <1>2, <1>3, <1>4, <1>5, <1>6, <1>7, <1>8, <1>9, <1>10, <1>11, <1>12, <1>13
     DEF Next, ProducerStep, OwnerStep, UnregisterStep
-----------------------------------------------------------------------------
(* The box: the tasks of the nodes in the order they will be taken.         *)

Order(c, cs, hs) == ((IF c = Null THEN <<>> ELSE <<c>>) \o cs) \o Reverse(hs)

O == Order(cur, C, H)

TasksOf(tk, ns) == [i \in DOMAIN ns |-> tk[ns[i]]]

LEMMA TasksFacts ==
  ASSUME NEW T, NEW tk \in [Nodes -> T], NEW s \in Seq(Nodes)
  PROVE  /\ TasksOf(tk, s) \in Seq(T) /\ Len(TasksOf(tk, s)) = Len(s)
         /\ DOMAIN TasksOf(tk, s) = 1..Len(s)
         /\ \A i \in 1..Len(s) : TasksOf(tk, s)[i] = tk[s[i]] /\ s[i] \in Nodes
         /\ TasksOf(tk, s) = <<>> <=> s = <<>>
<1>1. Len(s) \in Nat /\ s \in [1..Len(s) -> Nodes] /\ DOMAIN s = 1..Len(s)
  OBVIOUS
<1>2. TasksOf(tk, s) = [i \in 1..Len(s) |-> tk[s[i]]]
  BY <1>1 DEF TasksOf
<1>3. TasksOf(tk, s) \in [1..Len(s) -> T]
  BY <1>1, <1>2
<1>4. TasksOf(tk, s) \in Seq(T) /\ Len(TasksOf(tk, s)) = Len(s)
  BY <1>1, <1>3
<1> QED
  BY <1>1, <1>2, <1>4

\* Tasks of a part of the list, of the list reversed, and of other memory.
LEMMA TasksConcat ==
  ASSUME NEW T, NEW tk \in [Nodes -> T], NEW s \in Seq(Nodes), NEW t \in Seq(Nodes)
  PROVE  TasksOf(tk, s \o t) = TasksOf(tk, s) \o TasksOf(tk, t)
<1> DEFINE u == s \o t
           a == TasksOf(tk, s)
           b == TasksOf(tk, t)
           m == Len(s)
           k == Len(t)
<1>1. /\ u \in Seq(Nodes) /\ Len(u) = m + k
      /\ \A i \in 1..(m + k) : u[i] = IF i <= m THEN s[i] ELSE t[i - m]
  BY ConcatProperties
<1>2. /\ a \in Seq(T) /\ Len(a) = m /\ \A i \in 1..m : a[i] = tk[s[i]]
      /\ b \in Seq(T) /\ Len(b) = k /\ \A i \in 1..k : b[i] = tk[t[i]]
  BY TasksFacts
<1>3. a \o b \in Seq(T) /\ Len(a \o b) = Len(a) + Len(b)
  <2>1. a \in Seq(T) /\ b \in Seq(T)
    BY <1>2
  <2> HIDE DEF a, b
  <2> QED
    BY <2>1, ConcatProperties
<1>4. \A i \in 1..(Len(a) + Len(b)) : (a \o b)[i] = IF i <= Len(a) THEN a[i] ELSE b[i - Len(a)]
  <2>1. a \in Seq(T) /\ b \in Seq(T)
    BY <1>2
  <2> HIDE DEF a, b
  <2> QED
    BY <2>1, ConcatProperties
<1>5. m \in Nat /\ k \in Nat
  OBVIOUS
<1>6. TasksOf(tk, u) \in Seq(T) /\ Len(TasksOf(tk, u)) = m + k
  <2> HIDE DEF u, m, k
  <2> QED
    BY <1>1, TasksFacts
<1>7. \A i \in 1..(m + k) : TasksOf(tk, u)[i] = tk[u[i]]
  <2> HIDE DEF u, m, k
  <2>1. DOMAIN u = 1..(m + k)
    BY <1>1, LenProperties
  <2>2. TasksOf(tk, u) = [i \in 1..(m + k) |-> tk[u[i]]]
    BY <2>1 DEF TasksOf
  <2> QED
    BY <2>2
<1> HIDE DEF u, a, b, m, k
<1>8. ASSUME NEW i \in 1..(m + k) PROVE TasksOf(tk, u)[i] = (a \o b)[i]
  <2>1. CASE i <= m
    <3>1. i \in 1..m
      BY <1>5, <2>1
    <3> QED
      BY <1>1, <1>2, <1>4, <1>7, <2>1, <3>1
  <2>2. CASE ~(i <= m)
    <3>1. i - m \in 1..k
      BY <1>5, <2>2
    <3>2. b[i - m] = tk[t[i - m]]
      BY <1>2, <3>1
    <3>3. (a \o b)[i] = b[i - m]
      BY <1>2, <1>4, <2>2
    <3>4. u[i] = t[i - m]
      BY <1>1, <2>2
    <3> QED
      BY <1>7, <3>2, <3>3, <3>4
  <2> QED
    BY <2>1, <2>2
<1>9. TasksOf(tk, u) = a \o b
  BY <1>2, <1>3, <1>6, <1>8, SeqEqual
<1> QED
  BY <1>9 DEF u, a, b

LEMMA TasksReverse ==
  ASSUME NEW T, NEW tk \in [Nodes -> T], NEW s \in Seq(Nodes)
  PROVE  Reverse(TasksOf(tk, s)) = TasksOf(tk, Reverse(s))
<1> DEFINE a == TasksOf(tk, s)
           r == Reverse(s)
           m == Len(s)
<1>1. a \in Seq(T) /\ Len(a) = m /\ \A i \in 1..m : a[i] = tk[s[i]]
  <2>1. a \in Seq(T)
    BY TasksFacts
  <2>2. Len(a) = m
    BY TasksFacts
  <2>3. \A i \in 1..m : a[i] = tk[s[i]]
    BY TasksFacts
  <2> QED
    BY <2>1, <2>2, <2>3
<1>2. /\ r \in Seq(Nodes) /\ Len(r) = m
      /\ \A i \in 1..m : r[i] = s[m - i + 1] /\ m - i + 1 \in 1..m
  BY ReverseFacts
<1>3. /\ Reverse(a) \in Seq(T) /\ Len(Reverse(a)) = m
      /\ \A i \in 1..m : Reverse(a)[i] = a[m - i + 1]
  <2> HIDE DEF a, m
  <2> QED
    BY <1>1, ReverseFacts
<1>4. TasksOf(tk, r) \in Seq(T) /\ Len(TasksOf(tk, r)) = m
  <2> HIDE DEF r, m
  <2> QED
    BY <1>2, TasksFacts
<1>5. \A i \in 1..m : TasksOf(tk, r)[i] = tk[r[i]]
  <2> HIDE DEF r, m
  <2>1. DOMAIN r = 1..m
    BY <1>2, LenProperties
  <2> QED
    BY <2>1 DEF TasksOf
<1> HIDE DEF a, r, m
<1>6. ASSUME NEW i \in 1..m PROVE Reverse(a)[i] = TasksOf(tk, r)[i]
  <2>1. r[i] = s[m - i + 1] /\ m - i + 1 \in 1..m
    BY <1>2
  <2>2. a[m - i + 1] = tk[s[m - i + 1]]
    BY <1>1, <2>1
  <2> QED
    BY <1>3, <1>5, <2>1, <2>2
<1>7. Reverse(a) = TasksOf(tk, r)
  BY <1>3, <1>4, <1>6, SeqEqual
<1> QED
  BY <1>7 DEF a, r

LEMMA TasksSame ==
  ASSUME NEW T, NEW tk \in [Nodes -> T], NEW tl \in [Nodes -> T], NEW s \in Seq(Nodes),
         \A n \in Range(s) : tl[n] = tk[n]
  PROVE  TasksOf(tl, s) = TasksOf(tk, s)
<1>1. \A i \in 1..Len(s) : s[i] \in Range(s)
  BY DEF Range
<1>2. \A i \in DOMAIN s : tl[s[i]] = tk[s[i]]
  BY <1>1
<1> QED
  BY <1>2 DEF TasksOf

\* The box is the tasks of the nodes in this order.
LEMMA BoxOrder ==
  ASSUME NEW T, NEW tk \in [Nodes -> T], NEW c \in Pointer, NEW cs \in Seq(Nodes), NEW hs \in Seq(Nodes)
  PROVE  /\ ((IF c = Null THEN <<>> ELSE <<tk[c]>>) \o TasksOf(tk, cs)) \o Reverse(TasksOf(tk, hs))
              = TasksOf(tk, Order(c, cs, hs))
         /\ Order(c, cs, hs) \in Seq(Nodes)
<1> DEFINE a == IF c = Null THEN <<>> ELSE <<c>>
<1>1. a \in Seq(Nodes) /\ TasksOf(tk, a) = IF c = Null THEN <<>> ELSE <<tk[c]>>
  BY MpscAssumption DEF Pointer, TasksOf
<1>2. Reverse(hs) \in Seq(Nodes)
  BY ReverseFacts
<1> HIDE DEF a
<1>3. a \o cs \in Seq(Nodes) /\ (a \o cs) \o Reverse(hs) \in Seq(Nodes)
  BY <1>1, <1>2, ConcatProperties
<1>4. TasksOf(tk, (a \o cs) \o Reverse(hs)) = TasksOf(tk, a \o cs) \o TasksOf(tk, Reverse(hs))
  BY <1>2, <1>3, TasksConcat
<1>5. TasksOf(tk, a \o cs) = TasksOf(tk, a) \o TasksOf(tk, cs)
  BY <1>1, TasksConcat
<1> QED
  BY <1>1, <1>3, <1>4, <1>5, TasksReverse DEF Order, a

\* Concatenations of lists of nodes.
LEMMA NodesConcat ==
  ASSUME NEW x \in Seq(Nodes), NEW y \in Seq(Nodes)
  PROVE  /\ x \o y \in Seq(Nodes) /\ Len(x \o y) = Len(x) + Len(y)
         /\ \A i \in 1..(Len(x) + Len(y)) : (x \o y)[i] = IF i <= Len(x) THEN x[i] ELSE y[i - Len(x)]
         /\ Range(x \o y) = Range(x) \cup Range(y)
  BY ConcatProperties, ConcatRange

LEMMA NodesAssociative ==
  ASSUME NEW x \in Seq(Nodes), NEW y \in Seq(Nodes), NEW z \in Seq(Nodes)
  PROVE  (x \o y) \o z = x \o (y \o z)
  BY ConcatAssociative

\* Publishing in front of the producers' list adds at the end.
LEMMA ReversePush ==
  ASSUME NEW S, NEW n \in S, NEW s \in Seq(S)
  PROVE  Reverse(<<n>> \o s) = Reverse(s) \o <<n>>
<1> DEFINE o == <<n>>
           u == o \o s
           r == Reverse(s)
           v == r \o o
           m == Len(s)
<1>1. o \in Seq(S) /\ Len(o) = 1 /\ o[1] = n /\ m \in Nat
  OBVIOUS
<1>2. r \in Seq(S) /\ Len(r) = m /\ \A i \in 1..m : r[i] = s[m - i + 1]
  BY ReverseFacts
<1> HIDE DEF o, r, m
<1>3. u \in Seq(S) /\ Len(u) = 1 + m
      /\ \A i \in 1..(1 + m) : u[i] = IF i <= 1 THEN o[i] ELSE s[i - 1]
  <2>1. /\ u \in Seq(S) /\ Len(u) = Len(o) + Len(s)
        /\ \A i \in 1..(Len(o) + Len(s)) : u[i] = IF i <= Len(o) THEN o[i] ELSE s[i - Len(o)]
    BY <1>1, ConcatProperties, Zenon
  <2> HIDE DEF u
  <2> QED
    BY <1>1, <2>1 DEF m
<1>4. v \in Seq(S) /\ Len(v) = m + 1
      /\ \A i \in 1..(m + 1) : v[i] = IF i <= m THEN r[i] ELSE o[i - m]
  <2>1. /\ v \in Seq(S) /\ Len(v) = Len(r) + Len(o)
        /\ \A i \in 1..(Len(r) + Len(o)) : v[i] = IF i <= Len(r) THEN r[i] ELSE o[i - Len(r)]
    BY <1>1, <1>2, ConcatProperties
  <2> HIDE DEF v
  <2> QED
    BY <1>1, <1>2, <2>1
<1> HIDE DEF u, v
<1>5. /\ Reverse(u) \in Seq(S) /\ Len(Reverse(u)) = m + 1
      /\ \A i \in 1..(m + 1) : Reverse(u)[i] = u[m + 1 - i + 1]
  <2> DEFINE w == Reverse(u)
             k == Len(u)
  <2>1. w \in Seq(S) /\ Len(w) = k /\ \A i \in 1..k : w[i] = u[k - i + 1]
    BY <1>3, ReverseFacts
  <2>2. k = m + 1
    BY <1>1, <1>3
  <2> HIDE DEF w, k
  <2>3. w \in Seq(S) /\ Len(w) = m + 1 /\ \A i \in 1..(m + 1) : w[i] = u[m + 1 - i + 1]
    BY <1>1, <2>1, <2>2
  <2> QED
    BY <2>3 DEF w
<1>6. ASSUME NEW i \in 1..(m + 1) PROVE Reverse(u)[i] = v[i]
  <2>1. CASE i <= m
    <3>1. /\ i \in 1..m /\ m + 1 - i + 1 \in 1..(1 + m) /\ ~(m + 1 - i + 1 <= 1)
          /\ (m + 1 - i + 1) - 1 = m - i + 1
      BY <1>1, <2>1
    <3>2. u[m + 1 - i + 1] = s[m - i + 1]
      BY <1>3, <3>1
    <3>3. r[i] = s[m - i + 1]
      BY <1>2, <3>1
    <3>4. v[i] = r[i] /\ Reverse(u)[i] = u[m + 1 - i + 1]
      BY <1>4, <1>5, <2>1
    <3> QED
      BY <3>2, <3>3, <3>4
  <2>2. CASE ~(i <= m)
    <3>1. /\ i = m + 1 /\ (m + 1 - i) + 1 = 1 /\ i - m = 1 /\ 1 \in 1..(1 + m)
          /\ i \in 1..(m + 1)
      BY <1>1, <2>2
    <3>2. u[1] = o[1]
      BY <1>3, <3>1
    <3> QED
      BY <1>4, <1>5, <2>2, <3>1, <3>2
  <2> QED
    BY <2>1, <2>2
<1>7. Reverse(u) = v
  BY <1>4, <1>5, <1>6, SeqEqual
<1> QED
  BY <1>7 DEF u, v, r, o

LEMMA OrderPush ==
  ASSUME NEW c \in Pointer, NEW cs \in Seq(Nodes), NEW hs \in Seq(Nodes), NEW n \in Nodes
  PROVE  Order(c, cs, <<n>> \o hs) = Order(c, cs, hs) \o <<n>>
<1> DEFINE a == (IF c = Null THEN <<>> ELSE <<c>>) \o cs
           r == Reverse(hs)
           o == <<n>>
<1>1. a \in Seq(Nodes)
  <2>1. (IF c = Null THEN <<>> ELSE <<c>>) \in Seq(Nodes)
    BY DEF Pointer
  <2> QED
    BY <2>1, ConcatProperties
<1>2. r \in Seq(Nodes) /\ o \in Seq(Nodes)
  BY ReverseFacts
<1>3. Reverse(<<n>> \o hs) = r \o o
  BY ReversePush
<1> HIDE DEF a, r, o
<1>4. (a \o r) \o o = a \o (r \o o)
  BY <1>1, <1>2, NodesAssociative
<1> QED
  BY <1>3, <1>4 DEF Order, a, r, o

\* The head of a list, put in front of its tail.
LEMMA HeadThenTail ==
  ASSUME NEW l \in Seq(Nodes), l # <<>>
  PROVE  l[1] \in Nodes /\ Tail(l) \in Seq(Nodes) /\ <<l[1]>> \o Tail(l) = l
<1> DEFINE o == <<l[1]>>
           t == Tail(l)
<1>1. Len(l) \in Nat \ {0} /\ l[1] \in Nodes
  BY EmptySeq, ElementOfSeq
<1>2. t \in Seq(Nodes) /\ Len(t) = Len(l) - 1 /\ \A i \in 1..Len(t) : t[i] = l[i + 1]
  BY HeadTailProperties
<1>3. o \in Seq(Nodes) /\ Len(o) = 1 /\ o[1] = l[1]
  BY <1>1
<1> HIDE DEF o, t
<1>4. /\ o \o t \in Seq(Nodes) /\ Len(o \o t) = Len(o) + Len(t)
      /\ \A i \in 1..(Len(o) + Len(t)) : (o \o t)[i] = IF i <= Len(o) THEN o[i] ELSE t[i - Len(o)]
  BY <1>2, <1>3, NodesConcat
<1>5. ASSUME NEW i \in 1..Len(l) PROVE (o \o t)[i] = l[i]
  <2>1. CASE i = 1
    BY <1>1, <1>2, <1>3, <1>4, <2>1
  <2>2. CASE i # 1
    <3>1. i - 1 \in 1..Len(t) /\ (i - 1) + 1 = i /\ ~(i <= 1) /\ i \in 1..(1 + Len(t))
      BY <1>1, <1>2, <2>2
    <3>2. t[i - 1] = l[i]
      BY <1>2, <3>1
    <3> QED
      BY <1>3, <1>4, <3>1, <3>2
  <2> QED
    BY <2>1, <2>2
<1>6. Len(o \o t) = Len(l)
  BY <1>1, <1>2, <1>3, <1>4
<1>7. o \o t = l
  BY <1>4, <1>5, <1>6, SeqEqual
<1> QED
  BY <1>1, <1>2, <1>7 DEF o, t

\* The node being run comes first.
LEMMA OrderRun ==
  ASSUME NEW c \in Nodes, NEW cs \in Seq(Nodes), NEW hs \in Seq(Nodes)
  PROVE  Order(c, cs, hs) = <<c>> \o Order(Null, cs, hs)
<1> DEFINE r == Reverse(hs)
           o == <<c>>
           e == <<>>
<1>1. r \in Seq(Nodes) /\ o \in Seq(Nodes) /\ c # Null
  BY ReverseFacts, MpscAssumption
<1>2. e \o cs = cs
  BY ConcatEmptySeq
<1> HIDE DEF r, o, e
<1>3. (o \o cs) \o r = o \o (cs \o r)
  BY <1>1, NodesAssociative
<1> QED
  BY <1>1, <1>2, <1>3 DEF Order, r, o, e

\* Taking a node, and reversing the list first, moves no task.
LEMMA OrderPop ==
  ASSUME NEW cs \in Seq(Nodes), NEW hs \in Seq(Nodes)
  PROVE  /\ cs # <<>> => Order(cs[1], Tail(cs), hs) = Order(Null, cs, hs)
         /\ LET l == Reverse(hs)
            IN  l # <<>> => Order(l[1], Tail(l), <<>>) = Order(Null, <<>>, hs)
<1> DEFINE e == <<>>
<1>1. ASSUME NEW l \in Seq(Nodes), l # <<>>
      PROVE  (IF l[1] = Null THEN <<>> ELSE <<l[1]>>) \o Tail(l) = l
  BY <1>1, HeadThenTail, MpscAssumption
<1>2. e \o cs = cs
  BY ConcatEmptySeq
<1>3. cs # <<>> => Order(cs[1], Tail(cs), hs) = Order(Null, cs, hs)
  BY <1>1, <1>2 DEF Order, e
<1>4. Reverse(hs) \in Seq(Nodes) /\ Reverse(e) = e /\ e \o e = e
  BY DEF Reverse
<1>5. Reverse(hs) \o e = Reverse(hs) /\ e \o Reverse(hs) = Reverse(hs)
  BY <1>4, ConcatEmptySeq
<1>6. ASSUME Reverse(hs) # <<>>
      PROVE  Order(Reverse(hs)[1], Tail(Reverse(hs)), <<>>) = Order(Null, <<>>, hs)
  <2>1. (IF Reverse(hs)[1] = Null THEN e ELSE <<Reverse(hs)[1]>>) \o Tail(Reverse(hs)) = Reverse(hs)
    BY <1>1, <1>4, <1>6
  <2> HIDE DEF e
  <2> QED
    BY <1>4, <1>5, <2>1 DEF Order, e
<1> QED
  BY <1>3, <1>6
-----------------------------------------------------------------------------
(* What each step does to the box.                                          *)

LEMMA NowBox ==
  ASSUME MpscTypeOK, Lists
  PROVE  Box = TasksOf(task, O) /\ O \in Seq(Nodes)
<1> DEFINE T == Task \cup {NoTask}
<1>1. task \in [Nodes -> T] /\ cur \in Pointer /\ H \in Seq(Nodes) /\ C \in Seq(Nodes)
  BY DEF MpscTypeOK, Lists, IsPath
<1> HIDE DEF T
<1>2. /\ ((IF cur = Null THEN <<>> ELSE <<task[cur]>>) \o TasksOf(task, C)) \o Reverse(TasksOf(task, H))
           = TasksOf(task, Order(cur, C, H))
      /\ Order(cur, C, H) \in Seq(Nodes)
  BY <1>1, BoxOrder
<1> QED
  BY <1>2 DEF Box, O, H, C, TasksOf, Tasks

LEMMA ThenBox ==
  ASSUME MpscTypeOK', Lists'
  PROVE  Box' = TasksOf(task', O') /\ O' \in Seq(Nodes)
<1> DEFINE T == Task \cup {NoTask}
<1>1. task' \in [Nodes -> T] /\ cur' \in Pointer /\ H' \in Seq(Nodes) /\ C' \in Seq(Nodes)
  BY DEF MpscTypeOK, Lists, IsPath
<1> HIDE DEF T
<1>2. /\ ((IF cur' = Null THEN <<>> ELSE <<task'[cur']>>) \o TasksOf(task', C')) \o Reverse(TasksOf(task', H'))
           = TasksOf(task', Order(cur', C', H'))
      /\ Order(cur', C', H') \in Seq(Nodes)
  BY <1>1, BoxOrder
<1> QED
  BY <1>2 DEF Box, O, H, C, TasksOf, Tasks, Order

LEMMA OrderRange ==
  ASSUME NEW c \in Pointer, NEW cs \in Seq(Nodes), NEW hs \in Seq(Nodes),
         NEW n \in Range(Order(c, cs, hs))
  PROVE  n \in Nodes /\ (n = c \/ n \in Range(cs) \/ n \in Range(hs))
<1> DEFINE a == IF c = Null THEN <<>> ELSE <<c>>
<1>1. a \in Seq(Nodes) /\ \A m \in Range(a) : m = c
  BY DEF Pointer, Range
<1>2. Reverse(hs) \in Seq(Nodes) /\ Range(Reverse(hs)) = Range(hs)
  BY ReverseFacts
<1> HIDE DEF a
<1>3. a \o cs \in Seq(Nodes) /\ Range(a \o cs) = Range(a) \cup Range(cs)
  BY <1>1, NodesConcat
<1>4. /\ (a \o cs) \o Reverse(hs) \in Seq(Nodes)
      /\ Range((a \o cs) \o Reverse(hs)) = Range(a \o cs) \cup Range(Reverse(hs))
  BY <1>2, <1>3, NodesConcat
<1>5. Order(c, cs, hs) = (a \o cs) \o Reverse(hs)
  BY DEF Order, a
<1>6. n \in Nodes
  BY <1>4, <1>5, RangeOfSeq
<1> QED
  BY <1>1, <1>2, <1>3, <1>4, <1>5, <1>6

LEMMA OrderNodes ==
  ASSUME MpscTypeOK, Lists, NEW n \in Range(O)
  PROVE  n \in Nodes /\ (n = cur \/ n \in Listed \cup Cached)
<1>1. cur \in Pointer /\ H \in Seq(Nodes) /\ C \in Seq(Nodes)
  BY DEF MpscTypeOK, Lists, IsPath
<1>2. n \in Range(Order(cur, C, H))
  BY DEF O
<1>3. n \in Nodes /\ (n = cur \/ n \in Range(C) \/ n \in Range(H))
  BY <1>1, <1>2, OrderRange
<1> QED
  BY <1>3, ListNames

LEMMA KeepBox ==
  ASSUME MpscTypeOK, MpscTypeOK', Lists, Lists', UNCHANGED O,
         \A n \in Range(O) : task'[n] = task[n]
  PROVE  UNCHANGED Box
<1> DEFINE T == Task \cup {NoTask}
<1>1. task \in [Nodes -> T] /\ task' \in [Nodes -> T]
  BY DEF MpscTypeOK
<1>2. Box = TasksOf(task, O) /\ Box' = TasksOf(task', O') /\ O \in Seq(Nodes)
  BY NowBox, ThenBox
<1> HIDE DEF T
<1>3. TasksOf(task', O) = TasksOf(task, O)
  BY <1>1, <1>2, TasksSame
<1> QED
  BY <1>2, <1>3

\* What is not free or being filled carries a task.
LEMMA BoxTasks ==
  ASSUME MpscTypeOK, Lists, PlaceInv
  PROVE  Box \in Seq(Task) /\ Len(Box) = Len(O)
<1> DEFINE T == Task \cup {NoTask}
           b == TasksOf(task, O)
<1>1. task \in [Nodes -> T] /\ O \in Seq(Nodes) /\ Box = b
  BY NowBox DEF MpscTypeOK
<1> HIDE DEF T
<1>2. b \in Seq(T) /\ Len(b) = Len(O) /\ DOMAIN b = 1..Len(O)
      /\ \A i \in 1..Len(O) : b[i] = task[O[i]] /\ O[i] \in Nodes
  BY <1>1, TasksFacts
<1> HIDE DEF b
<1>3. ASSUME NEW i \in 1..Len(O) PROVE b[i] \in Task
  <2>1. O[i] \in Range(O)
    BY <1>1 DEF Range
  <2>2. O[i] \in Nodes /\ (O[i] = cur \/ O[i] \in Listed \cup Cached)
    BY <2>1, OrderNodes
  <2>3. O[i] \notin free
    BY <2>2 DEF PlaceInv
  <2> QED
    BY <1>2, <2>2, <2>3 DEF PlaceInv
<1>4. Len(O) \in Nat /\ b \in [1..Len(O) -> Task]
  BY <1>1, <1>2, <1>3
<1> QED
  BY <1>1, <1>2, <1>4

LEMMA ConsHeadTail ==
  ASSUME NEW S, NEW e \in S, NEW s \in Seq(S)
  PROVE  <<e>> \o s # <<>> /\ Head(<<e>> \o s) = e /\ Tail(<<e>> \o s) = s
<1> DEFINE u == <<e>> \o s
<1>1. <<e>> \in Seq(S) /\ Len(<<e>>) = 1 /\ Len(s) \in Nat
  OBVIOUS
<1>2. u \in Seq(S) /\ Len(u) = 1 + Len(s) /\ u[1] = e /\ \A i \in 1..Len(s) : u[i + 1] = s[i]
  BY <1>1
<1> HIDE DEF u
<1>3. u # <<>> /\ Head(u) = e
  BY <1>1, <1>2
<1>4. Tail(u) \in Seq(S) /\ Len(Tail(u)) = Len(s) /\ \A i \in 1..Len(s) : Tail(u)[i] = u[i + 1]
  BY <1>1, <1>2, <1>3, HeadTailProperties
<1>5. Tail(u) = s
  BY <1>2, <1>4, SeqEqual
<1> QED
  BY <1>3, <1>5 DEF u

\* A CAS that succeeds is a post to the mailbox.
LEMMA PushBox ==
  ASSUME MpscTypeOK, MpscTypeOK', ListInv, Lists, PlaceInv,
         NEW p \in Producers, PostCas(p), ppc'[p] = "xchg"
  PROVE  /\ task[pnode[p]] \in Task
         /\ Box' = Append(Box, task[pnode[p]]) /\ sent' = Append(sent, task[pnode[p]])
<1> DEFINE n == pnode[p]
           T == Task \cup {NoTask}
<1>1. /\ ppc[p] = "cas" /\ head = old_head[p] /\ head' = n /\ sent' = Append(sent, task[n])
      /\ UNCHANGED <<cache, next, task, cur>>
  BY DEF PostCas, Goto, MpscTypeOK, cvars
<1>2. n \in Nodes /\ n \notin Listed \cup Cached \cup free /\ next[n] = head
  BY <1>1 DEF PlaceInv, ListInv, Filling
<1>3. Lists' /\ H' = <<n>> \o H /\ C' = C
  BY <1>1, <1>2, PushLists
<1>4. /\ cur \in Pointer /\ H \in Seq(Nodes) /\ C \in Seq(Nodes) /\ task \in [Nodes -> T]
      /\ task[n] \in Task
  BY <1>2 DEF MpscTypeOK, Lists, IsPath, PlaceInv
<1>5. Box = TasksOf(task, O) /\ O \in Seq(Nodes) /\ Box' = TasksOf(task, O')
  BY <1>1, <1>3, NowBox, ThenBox
<1> HIDE DEF n, T
<1>6. O' = O \o <<n>>
  <2>1. O' = Order(cur, C, <<n>> \o H)
    BY <1>1, <1>3 DEF O, Order
  <2>2. Order(cur, C, <<n>> \o H) = Order(cur, C, H) \o <<n>>
    BY <1>2, <1>4, OrderPush
  <2> QED
    BY <2>1, <2>2 DEF O
<1>7. TasksOf(task, O \o <<n>>) = TasksOf(task, O) \o TasksOf(task, <<n>>)
  <2>1. <<n>> \in Seq(Nodes)
    BY <1>2
  <2> QED
    BY <1>4, <1>5, <2>1, TasksConcat
<1>8. TasksOf(task, <<n>>) = <<task[n]>>
  BY DEF TasksOf
<1>9. Box \in Seq(Task)
  BY BoxTasks
<1>10. Box' = Box \o <<task[n]>>
  BY <1>5, <1>6, <1>7, <1>8
<1> QED
  BY <1>1, <1>4, <1>9, <1>10, AppendIsConcat DEF n

\* Running a task takes the oldest of the box.
LEMMA RunBox ==
  ASSUME MpscTypeOK, MpscTypeOK', Lists, Lists', PlaceInv, OwnerInv, RunTask
  PROVE  Box # <<>> /\ Box' = Tail(Box) /\ done' = Append(done, Head(Box))
<1> DEFINE T == Task \cup {NoTask}
           r == Order(Null, C, H)
<1>1. /\ cur \in Nodes /\ cur' = Null /\ UNCHANGED <<head, cache>>
      /\ next' = [next EXCEPT ![cur] = Null] /\ task' = [task EXCEPT ![cur] = NoTask]
      /\ done' = Append(done, task[cur])
  BY DEF RunTask, OwnerInv, MpscTypeOK, Pointer
<1>2. /\ H \in Seq(Nodes) /\ C \in Seq(Nodes) /\ Null \in Pointer
      /\ task \in [Nodes -> T] /\ task' \in [Nodes -> T]
      /\ cur \notin Range(H) /\ cur \notin Range(C) /\ cur # Null
  BY <1>1, ListNames, MpscAssumption DEF MpscTypeOK, Lists, IsPath, PlaceInv, Pointer
<1>3. \A n \in Nodes : n # cur => next'[n] = next[n] /\ task'[n] = task[n]
  BY <1>1, <1>2 DEF MpscTypeOK
<1>4. UNCHANGED <<H, C>>
  <2>1. Listed \cup Cached \subseteq Nodes /\ cur \notin Listed \cup Cached
    BY <1>2, ListNames, RangeOfSeq
  <2> QED
    BY <1>1, <1>3, <2>1, KeepLists
<1>5. O' = r
  BY <1>1, <1>4 DEF O, Order
<1>6. O = <<cur>> \o r
  BY <1>1, <1>2, OrderRun DEF O
<1>7. r \in Seq(Nodes) /\ Box = TasksOf(task, O) /\ Box' = TasksOf(task', r)
  BY <1>5, NowBox, ThenBox
<1>8. \A n \in Range(r) : task'[n] = task[n]
  <2> SUFFICES ASSUME NEW n \in Range(r) PROVE task'[n] = task[n]
    OBVIOUS
  <2>1. n \in Nodes /\ (n = Null \/ n \in Range(C) \/ n \in Range(H))
    BY <1>2, OrderRange
  <2> QED
    BY <1>2, <1>3, <2>1, MpscAssumption
<1> HIDE DEF T, r
<1>9. TasksOf(task', r) = TasksOf(task, r)
  BY <1>2, <1>7, <1>8, TasksSame
<1>10. TasksOf(task, <<cur>> \o r) = TasksOf(task, <<cur>>) \o TasksOf(task, r)
  <2>1. <<cur>> \in Seq(Nodes)
    BY <1>1
  <2> QED
    BY <1>2, <1>7, <2>1, TasksConcat
<1>11. TasksOf(task, <<cur>>) = <<task[cur]>>
  BY DEF TasksOf
<1>12. Box = <<task[cur]>> \o Box'
  BY <1>6, <1>7, <1>9, <1>10, <1>11
<1>13. Box' \in Seq(T) /\ task[cur] \in T
  BY <1>1, <1>2, <1>7, TasksFacts
<1>14. Box # <<>> /\ Head(Box) = task[cur] /\ Tail(Box) = Box'
  BY <1>12, <1>13, ConsHeadTail
<1> QED
  BY <1>1, <1>14

\* Taking a node moves no task.
LEMMA PopBox ==
  ASSUME MpscTypeOK, MpscTypeOK', Lists, Lists', PlaceInv, OwnerInv, Pop
  PROVE  UNCHANGED Box /\ (Box = <<>> <=> Taken = <<>>)
<1>1. /\ cur = Null /\ UNCHANGED task /\ next \in [Nodes -> Pointer]
      /\ H \in Seq(Nodes) /\ C \in Seq(Nodes) /\ Null \in Pointer
      /\ Listed \cap Cached = {}
  BY DEF Pop, OwnerInv, MpscTypeOK, Lists, IsPath, PlaceInv, Pointer
<1>2. /\ Taken \in Seq(Nodes)
      /\ IF Taken = <<>>
         THEN H = <<>> /\ C = <<>> /\ UNCHANGED <<H, C>> /\ cur' = Null
         ELSE /\ cur' = Taken[1] /\ C' = Tail(Taken)
              /\ H' = IF cache # Null THEN H ELSE <<>>
  BY <1>1, PopLists
<1>3. cache = Null <=> C = <<>>
  BY PathFacts DEF Lists
<1>4. O = Order(Null, C, H) /\ O' = Order(cur', C', H')
  BY <1>1 DEF O, Order
<1>5. Reverse(H) \in Seq(Nodes) /\ C \o Reverse(H) \in Seq(Nodes) /\ O = C \o Reverse(H)
  <2>1. Reverse(H) \in Seq(Nodes) /\ <<>> \o C = C
    BY <1>1, ReverseFacts, ConcatEmptySeq
  <2>2. C \o Reverse(H) \in Seq(Nodes)
    BY <1>1, <2>1, NodesConcat
  <2>3. O = (<<>> \o C) \o Reverse(H)
    BY <1>4 DEF Order
  <2> QED
    BY <2>1, <2>2, <2>3
<1>6. O' = O /\ (O = <<>> <=> Taken = <<>>)
  <2>1. CASE Taken = <<>>
    <3>1. O' = O
      BY <1>1, <1>2, <1>4, <2>1
    <3>2. O = <<>>
      BY <1>2, <1>5, <2>1 DEF Reverse
    <3> QED
      BY <2>1, <3>1, <3>2
  <2>2. CASE Taken # <<>> /\ cache # Null
    <3>1. Taken = C /\ C # <<>>
      BY <1>3, <2>2 DEF Taken
    <3>2. O' = Order(C[1], Tail(C), H)
      BY <1>2, <1>4, <2>2, <3>1
    <3>3. Order(C[1], Tail(C), H) = Order(Null, C, H)
      BY <1>1, <3>1, OrderPop
    <3>4. O # <<>>
      BY <1>1, <1>5, <3>1, ConcatEqualIffEmpty
    <3> QED
      BY <1>4, <2>2, <3>2, <3>3, <3>4
  <2>3. CASE Taken # <<>> /\ cache = Null
    <3>1. Taken = Reverse(H) /\ C = <<>>
      BY <1>3, <2>3 DEF Taken
    <3>2. O' = Order(Reverse(H)[1], Tail(Reverse(H)), <<>>)
      BY <1>2, <1>4, <2>3, <3>1
    <3>3. Order(Reverse(H)[1], Tail(Reverse(H)), <<>>) = Order(Null, <<>>, H)
      BY <1>1, <2>3, <3>1, OrderPop
    <3>4. O # <<>>
      BY <1>1, <1>5, <2>3, <3>1, ConcatEqualIffEmpty
    <3> QED
      BY <1>4, <2>3, <3>1, <3>2, <3>3, <3>4
  <2> QED
    BY <2>1, <2>2, <2>3
<1>7. UNCHANGED Box
  BY <1>1, <1>6, KeepBox
<1>8. Box = <<>> <=> O = <<>>
  <2> DEFINE T == Task \cup {NoTask}
  <2>1. task \in [Nodes -> T] /\ O \in Seq(Nodes) /\ Box = TasksOf(task, O)
    BY NowBox DEF MpscTypeOK
  <2> HIDE DEF T
  <2> QED
    BY <2>1, TasksFacts
<1> QED
  BY <1>6, <1>7, <1>8

\* xmpscq_drain_destroy takes what is left.
LEMMA DropBox ==
  ASSUME MpscTypeOK, MpscTypeOK', Lists, Lists', OwnerInv, Destroy
  PROVE  Box' = <<>> /\ lost' = lost \o Box
<1>1. /\ cur = Null /\ cur' = Null /\ head' = Null /\ cache' = Null
      /\ lost' = lost \o Tasks(Chain(cache) \o Reverse(Chain(head)))
  BY DEF Destroy, OwnerInv, cvars
<1>2. H \in Seq(Nodes) /\ C \in Seq(Nodes)
  BY DEF Lists, IsPath
<1>3. O = C \o Reverse(H)
  <2>1. <<>> \o C = C
    BY <1>2, ConcatEmptySeq
  <2>2. O = (<<>> \o C) \o Reverse(H)
    BY <1>1 DEF O, Order
  <2> QED
    BY <2>1, <2>2
<1>4. lost' = lost \o TasksOf(task, O)
  BY <1>1, <1>3 DEF Tasks, TasksOf, H, C
<1>5. H' = <<>> /\ C' = <<>>
  BY <1>1, EmptyLists
<1>6. O' = <<>>
  BY <1>1, <1>5 DEF O, Order, Reverse
<1>7. TasksOf(task', <<>>) = <<>>
  BY DEF TasksOf
<1> QED
  BY <1>4, <1>6, <1>7, NowBox, ThenBox

\* Nothing else changes the contents.
LEMMA OtherBox ==
  ASSUME MpscTypeOK, MpscTypeOK', ListInv, Lists, Lists', PlaceInv,
         \/ \E p \in Producers : PostCheck(p) \/ PostLoad(p) \/ (PostCas(p) /\ ppc'[p] # "xchg")
         \/ Quiet
  PROVE  UNCHANGED <<Box, sent, done, lost>>
<1> USE DEF hvars, mvars, cvars, Goto
<1>0. Listed \cup Cached \subseteq Nodes
  BY ListNames, RangeOfSeq DEF Lists, IsPath
<1>1. ASSUME NEW p \in Producers, PostCheck(p) PROVE UNCHANGED <<Box, sent, done, lost>>
  <2>1. /\ UNCHANGED <<head, cache, next, cur, sent, done, lost>>
        /\ \A n \in Nodes \ free : task'[n] = task[n]
    BY <1>1 DEF PostCheck, MpscTypeOK
  <2>2. UNCHANGED <<H, C>>
    BY <1>0, <2>1, KeepLists
  <2>3. \A n \in Range(O) : task'[n] = task[n]
    BY <2>1, OrderNodes DEF PlaceInv
  <2>4. UNCHANGED O
    BY <2>1, <2>2 DEF O, Order
  <2> QED
    BY <2>1, <2>3, <2>4, KeepBox
<1>2. ASSUME NEW p \in Producers, PostLoad(p) PROVE UNCHANGED <<Box, sent, done, lost>>
  <2>1. /\ UNCHANGED <<head, cache, task, cur, sent, done, lost>>
        /\ pnode[p] \in Nodes \ (Listed \cup Cached)
        /\ next' = [next EXCEPT ![pnode[p]] = head]
    BY <1>2 DEF PostLoad, PlaceInv, Filling
  <2>2. \A n \in Listed \cup Cached : next'[n] = next[n]
    BY <1>0, <2>1 DEF MpscTypeOK
  <2>3. UNCHANGED <<H, C>>
    BY <2>1, <2>2, KeepLists
  <2>4. UNCHANGED O
    BY <2>1, <2>3 DEF O, Order
  <2> QED
    BY <2>1, <2>4, KeepBox
<1>3. ASSUME NEW p \in Producers, PostCas(p), ppc'[p] # "xchg"
      PROVE  UNCHANGED <<Box, sent, done, lost>>
  <2>1. UNCHANGED <<head, cache, next, task, cur, sent, done, lost>>
    BY <1>3 DEF PostCas, MpscTypeOK
  <2>2. UNCHANGED <<H, C>>
    BY <2>1, KeepLists
  <2>3. UNCHANGED O
    BY <2>1, <2>2 DEF O, Order
  <2> QED
    BY <2>1, <2>3, KeepBox
<1>4. CASE Quiet
  <2>1. UNCHANGED <<H, C>>
    BY <1>4, KeepLists DEF Quiet
  <2>2. UNCHANGED O
    BY <1>4, <2>1 DEF O, Order, Quiet
  <2> QED
    BY <1>4, <2>2, KeepBox DEF Quiet
<1> QED
  BY <1>1, <1>2, <1>3, <1>4
-----------------------------------------------------------------------------
(* The depth counter.                                                       *)

\* Counted and not yet published; run and not yet subtracted.
Raised == {p \in Producers : ppc[p] \in {"load", "cas"}}
Unsubtracted == IF cpc = "sub" THEN 1 ELSE 0

LEMMA SubsetCount ==
  ASSUME NEW A \in SUBSET Producers
  PROVE  /\ IsFiniteSet(A) /\ Cardinality(A) \in Nat
         /\ Cardinality(Producers) \in Nat /\ Cardinality(A) <= Cardinality(Producers)
  BY MpscAssumption, FS_Subset, FS_CardinalityType

LEMMA CountStep ==
  ASSUME MpscTypeOK, MpscTypeOK', ListInv, Lists, Lists', PlaceInv, OwnerInv, CountInv, [Next]_vars
  PROVE  CountInv'
<1> USE DEF Goto, mvars, cvars, wvars, pvars, hvars
<1> SUFFICES ASSUME upc' # "freed"
             PROVE  pending_tasks' = Len(Box') + Unsubtracted' + Cardinality(Raised')
  BY DEF CountInv, Raised, Unsubtracted
<1>1. /\ IsFiniteSet(Raised) /\ Cardinality(Raised) \in Nat
      /\ Box \in Seq(Task) /\ Len(Box) \in Nat
      /\ pending_tasks \in Int /\ Unsubtracted \in {0, 1}
  <2>1. Box \in Seq(Task)
    BY BoxTasks
  <2>2. Raised \in SUBSET Producers
    BY DEF Raised
  <2>3. Len(Box) \in Nat
    BY <2>1, LenProperties
  <2> HIDE DEF Raised
  <2> QED
    BY <2>1, <2>2, <2>3, SubsetCount DEF MpscTypeOK, Unsubtracted
<1>2. upc # "freed" => pending_tasks = Len(Box) + Unsubtracted + Cardinality(Raised)
  BY DEF CountInv, Raised, Unsubtracted
<1>3. ASSUME UNCHANGED <<pending_tasks, cpc, upc, Box, Raised>>
      PROVE  pending_tasks' = Len(Box') + Unsubtracted' + Cardinality(Raised')
  BY <1>2, <1>3 DEF Unsubtracted
<1>4. ASSUME NEW p \in Producers, PostCheck(p)
      PROVE  UNCHANGED <<pending_tasks, cpc, upc, Box, Raised>>
  <2>1. UNCHANGED Box
    BY <1>4, OtherBox
  <2>2. /\ UNCHANGED <<pending_tasks, cpc, upc>>
        /\ \A q \in Producers : ppc'[q] = ppc[q] \/ {ppc[q], ppc'[q]} = {"idle", "add"}
    BY <1>4 DEF PostCheck, MpscTypeOK
  <2>3. UNCHANGED Raised
    BY <2>2 DEF Raised
  <2> QED
    BY <2>1, <2>2, <2>3
<1>5. ASSUME NEW p \in Producers, PostAdd(p)
      PROVE  pending_tasks' = Len(Box') + Unsubtracted' + Cardinality(Raised')
  <2>1. /\ Quiet /\ UNCHANGED <<cpc, upc>> /\ pending_tasks' = pending_tasks + 1 /\ ppc[p] = "add"
        /\ \A q \in Producers : ppc'[q] = IF q = p THEN "load" ELSE ppc[q]
    BY <1>5 DEF PostAdd, MpscTypeOK, Quiet
  <2>2. UNCHANGED Box
    BY <2>1, OtherBox
  <2>3. Raised' = Raised \cup {p} /\ p \notin Raised
    BY <2>1 DEF Raised
  <2>4. Cardinality(Raised') = Cardinality(Raised) + 1
    BY <1>1, <2>3, FS_AddElement
  <2>5. Unsubtracted' = Unsubtracted
    BY <2>1 DEF Unsubtracted
  <2> QED
    BY <1>1, <1>2, <2>1, <2>2, <2>4, <2>5
<1>6. ASSUME NEW p \in Producers, PostLoad(p)
      PROVE  UNCHANGED <<pending_tasks, cpc, upc, Box, Raised>>
  <2>1. UNCHANGED Box
    BY <1>6, OtherBox
  <2>2. /\ UNCHANGED <<pending_tasks, cpc, upc>>
        /\ \A q \in Producers : ppc'[q] = ppc[q] \/ (ppc[q] = "load" /\ ppc'[q] = "cas")
    BY <1>6 DEF PostLoad, MpscTypeOK
  <2>3. UNCHANGED Raised
    BY <2>2 DEF Raised
  <2> QED
    BY <2>1, <2>2, <2>3
<1>7. ASSUME NEW p \in Producers, PostCas(p)
      PROVE  pending_tasks' = Len(Box') + Unsubtracted' + Cardinality(Raised')
  <2>1. /\ UNCHANGED <<cpc, upc, pending_tasks>> /\ ppc[p] = "cas"
        /\ ppc'[p] \in {"xchg", "load"} /\ \A q \in Producers \ {p} : ppc'[q] = ppc[q]
    BY <1>7 DEF PostCas, MpscTypeOK
  <2>2. CASE ppc'[p] = "xchg"
    <3>1. task[pnode[p]] \in Task /\ Box' = Append(Box, task[pnode[p]])
      BY <1>7, <2>2, PushBox
    <3>2. Len(Box') = Len(Box) + 1
      BY <1>1, <3>1, AppendProperties
    <3>3. Raised' = Raised \ {p} /\ p \in Raised
      BY <2>1, <2>2 DEF Raised
    <3>4. Cardinality(Raised') = Cardinality(Raised) - 1
      BY <1>1, <3>3, FS_RemoveElement
    <3>5. Unsubtracted' = Unsubtracted
      BY <2>1 DEF Unsubtracted
    <3> QED
      BY <1>1, <1>2, <2>1, <3>2, <3>4, <3>5
  <2>3. CASE ppc'[p] # "xchg"
    <3>1. UNCHANGED Box
      BY <1>7, <2>3, OtherBox
    <3>2. UNCHANGED Raised
      BY <2>1, <2>3 DEF Raised
    <3> QED
      BY <1>3, <2>1, <3>1, <3>2
  <2> QED
    BY <2>2, <2>3
<1>8. ASSUME NEW p \in Producers,
             PostExchange(p) \/ PostNotify(p) \/ PostWrite(p) \/ PostUseAfterFree(p)
      PROVE  UNCHANGED <<pending_tasks, cpc, upc, Box, Raised>>
  <2>1. /\ Quiet /\ UNCHANGED <<pending_tasks, cpc, upc>>
        /\ ppc[p] \in {"xchg", "notify", "write"}
        /\ ppc'[p] \notin {"load", "cas"} /\ \A q \in Producers \ {p} : ppc'[q] = ppc[q]
    BY <1>8 DEF PostExchange, PostNotify, PostWrite, PostUseAfterFree, Quiet, MpscTypeOK
  <2>2. UNCHANGED Box
    BY <2>1, OtherBox
  <2>3. UNCHANGED Raised
    BY <2>1 DEF Raised
  <2> QED
    BY <2>1, <2>2, <2>3
<1>9. CASE RunTask
  <2>1. /\ UNCHANGED <<pending_tasks, upc, ppc>> /\ cpc = "run" /\ cpc' = "sub"
    BY <1>9 DEF RunTask
  <2>2. Box # <<>> /\ Box' = Tail(Box)
    BY <1>9, RunBox
  <2>3. Len(Box') = Len(Box) - 1
    BY <1>1, <2>2, HeadTailProperties
  <2>4. UNCHANGED Raised /\ Unsubtracted = 0 /\ Unsubtracted' = 1
    BY <2>1 DEF Raised, Unsubtracted
  <2> QED
    BY <1>1, <1>2, <2>1, <2>3, <2>4
<1>10. CASE CountDown
  <2>1. /\ Quiet /\ UNCHANGED <<upc, ppc>> /\ pending_tasks' = pending_tasks - 1
        /\ cpc = "sub" /\ cpc' = "pop"
    BY <1>10 DEF CountDown, Quiet
  <2>2. UNCHANGED Box
    BY <2>1, OtherBox
  <2>3. UNCHANGED Raised /\ Unsubtracted = 1 /\ Unsubtracted' = 0
    BY <2>1 DEF Raised, Unsubtracted
  <2> QED
    BY <1>1, <1>2, <2>1, <2>2, <2>3
<1>11. CASE Pop
  <2>1. UNCHANGED <<pending_tasks, upc, ppc>> /\ cpc = "pop" /\ cpc' \in {"run", ret}
    BY <1>11 DEF Pop
  <2>2. UNCHANGED Box
    BY <1>11, PopBox
  <2>3. UNCHANGED Raised /\ Unsubtracted = 0 /\ Unsubtracted' = 0
    BY <2>1 DEF Raised, Unsubtracted, MpscTypeOK
  <2> QED
    BY <1>1, <1>2, <2>1, <2>2, <2>3
<1>12. CASE Destroy
  BY <1>12 DEF Destroy
<1>13. CASE \/ WakeupInit \/ LoopHead \/ ResetNotify \/ PollWake \/ PollReturns \/ Uninit
            \/ Unregister \/ UnregisterNotify \/ UnregisterWrite \/ UNCHANGED vars
  <2>1. /\ Quiet /\ UNCHANGED <<pending_tasks, ppc>> /\ (upc = "freed" => upc' = "freed")
        /\ (cpc' = cpc \/ (cpc # "sub" /\ cpc' # "sub"))
    BY <1>13 DEF WakeupInit, LoopHead, ResetNotify, PollWake, PollReturns, Uninit,
       Unregister, UnregisterNotify, UnregisterWrite, vars, Quiet, Process, MpscTypeOK
  <2>2. UNCHANGED Box
    BY <2>1, OtherBox
  <2>3. UNCHANGED Raised /\ UNCHANGED Unsubtracted
    BY <2>1 DEF Raised, Unsubtracted
  <2> QED
    BY <1>1, <1>2, <2>1, <2>2, <2>3
<1> QED
  BY <1>3, <1>4, <1>5, <1>6, <1>7, <1>8, <1>9, <1>10, <1>11, <1>12, <1>13
     DEF Next, ProducerStep, OwnerStep, UnregisterStep
-----------------------------------------------------------------------------
(* The soft cap.                                                            *)

\* The places of a box that count against the cap, and the posts that will.
Capped(b) == {i \in DOMAIN b : b[i].kind # "reply"}
Admitted == {p \in Producers : Filling(p) /\ task[pnode[p]].kind # "reply"}

LEMMA CappedCount ==
  ASSUME NEW b \in Seq(Task)
  PROVE  /\ IsFiniteSet(Capped(b)) /\ Cardinality(Capped(b)) \in Nat
         /\ Cardinality(Capped(b)) <= Len(b)
<1>1. Len(b) \in Nat /\ DOMAIN b = 1..Len(b)
  OBVIOUS
<1>2. IsFiniteSet(1..Len(b)) /\ Cardinality(1..Len(b)) = Len(b)
  <2>1. 1 \in Int /\ Len(b) \in Int
    BY <1>1
  <2>2. /\ IsFiniteSet(1..Len(b))
        /\ Cardinality(1..Len(b)) = IF 1 > Len(b) THEN 0 ELSE Len(b) - 1 + 1
    BY <2>1, FS_Interval, Zenon
  <2> QED
    BY <1>1, <2>2
<1>3. Capped(b) \in SUBSET (1..Len(b))
  BY <1>1 DEF Capped
<1> QED
  BY <1>2, <1>3, FS_Subset, FS_CardinalityType

\* A task appended counts once; one taken counts no more.
LEMMA CappedAppend ==
  ASSUME NEW b \in Seq(Task), NEW t \in Task
  PROVE  Cardinality(Capped(Append(b, t)))
           = Cardinality(Capped(b)) + (IF t.kind # "reply" THEN 1 ELSE 0)
<1> DEFINE c == Append(b, t)
           n == Len(b) + 1
<1>1. /\ DOMAIN b = 1..Len(b) /\ Len(b) \in Nat /\ DOMAIN c = DOMAIN b \cup {n}
      /\ n \notin DOMAIN b /\ c[n] = t /\ \A i \in DOMAIN b : c[i] = b[i]
  OBVIOUS
<1>2. IsFiniteSet(Capped(b)) /\ Cardinality(Capped(b)) \in Nat
  BY CappedCount
<1> HIDE DEF c, n
<1>3. CASE t.kind # "reply"
  <2>1. Capped(c) = Capped(b) \cup {n} /\ n \notin Capped(b)
    BY <1>1, <1>3 DEF Capped
  <2> QED
    BY <1>2, <1>3, <2>1, FS_AddElement DEF c
<1>4. CASE t.kind = "reply"
  <2>1. Capped(c) = Capped(b)
    BY <1>1, <1>4 DEF Capped
  <2> QED
    BY <1>2, <1>4, <2>1 DEF c
<1> QED
  BY <1>3, <1>4

LEMMA CappedTail ==
  ASSUME NEW b \in Seq(Task), b # <<>>
  PROVE  Cardinality(Capped(Tail(b))) <= Cardinality(Capped(b))
<1> DEFINE t == Tail(b)
           f == [i \in Capped(t) |-> i + 1]
<1>1. t \in Seq(Task) /\ Len(t) = Len(b) - 1 /\ \A i \in 1..Len(t) : t[i] = b[i + 1]
  BY HeadTailProperties
<1>2. DOMAIN t = 1..Len(t) /\ DOMAIN b = 1..Len(b) /\ Len(t) \in Nat /\ Len(b) \in Nat
  BY <1>1, LenProperties
<1> HIDE DEF t
<1>3. \A i \in Capped(t) : i \in Nat /\ i + 1 \in Capped(b)
  BY <1>1, <1>2 DEF Capped
<1>4. f \in Injection(Capped(t), Capped(b))
  <2>1. f \in [Capped(t) -> Capped(b)]
    BY <1>3
  <2>2. \A i, j \in Capped(t) : f[i] = f[j] => i = j
    BY <1>3
  <2> HIDE DEF f
  <2> QED
    BY <2>1, <2>2 DEF Injection, IsInjective
<1>5. IsFiniteSet(Capped(b))
  BY CappedCount
<1> HIDE DEF f
<1> QED
  BY <1>4, <1>5, FS_Injection DEF t

LEMMA CapNow == CapInv <=> (MaxPending > 0 =>
  Cardinality(Capped(Box)) + Cardinality(Admitted) < MaxPending + Cardinality(Producers))
  BY DEF CapInv, Capped, Admitted

LEMMA CapThen == CapInv' <=> (MaxPending > 0 =>
  Cardinality(Capped(Box')) + Cardinality(Admitted') < MaxPending + Cardinality(Producers))
  BY DEF CapInv, Capped, Admitted

LEMMA CountsOfState ==
  /\ IsFiniteSet(Admitted) /\ Cardinality(Admitted) \in Nat
  /\ Cardinality(Admitted') \in Nat /\ Cardinality(Producers) \in Nat
  /\ Cardinality(Admitted') <= Cardinality(Producers)
<1>1. Admitted \in SUBSET Producers /\ Admitted' \in SUBSET Producers
  BY DEF Admitted
<1> HIDE DEF Admitted
<1> QED
  BY <1>1, SubsetCount

\* A step that admits no post, and adds none to the box, keeps the cap.
LEMMA CapFrame ==
  ASSUME CapInv, Box \in Seq(Task), Admitted' \subseteq Admitted,
         \/ Box' = Box
         \/ Box' = <<>>
         \/ Box # <<>> /\ Box' = Tail(Box)
  PROVE  CapInv'
<1>1. /\ Cardinality(Admitted) \in Nat /\ Cardinality(Producers) \in Nat
      /\ Cardinality(Admitted') \in Nat /\ Cardinality(Admitted') <= Cardinality(Admitted)
  <2>1. Admitted' \in SUBSET Admitted
    OBVIOUS
  <2> HIDE DEF Admitted
  <2> QED
    BY <2>1, CountsOfState, FS_Subset
<1>2. /\ Cardinality(Capped(Box)) \in Nat /\ Cardinality(Capped(Box')) \in Nat
      /\ Cardinality(Capped(Box')) <= Cardinality(Capped(Box))
  <2>1. Cardinality(Capped(Box)) \in Nat
    BY CappedCount
  <2>2. CASE Box' = Box
    BY <2>1, <2>2
  <2>3. CASE Box' = <<>>
    <3>1. Capped(Box') = {}
      BY <2>3 DEF Capped
    <3> QED
      BY <2>1, <3>1, FS_EmptySet
  <2>4. CASE Box # <<>> /\ Box' = Tail(Box)
    <3>1. Tail(Box) \in Seq(Task)
      BY <2>4, HeadTailProperties
    <3> QED
      BY <2>1, <2>4, <3>1, CappedCount, CappedTail
  <2> QED
    BY <2>2, <2>3, <2>4
<1>3. MaxPending \in Nat
  BY MpscAssumption
<1> QED
  BY <1>1, <1>2, <1>3, CapNow, CapThen

LEMMA CapStep ==
  ASSUME MpscTypeOK, MpscTypeOK', ListInv, Lists, Lists', PlaceInv, OwnerInv,
         CountInv, CapInv, [Next]_vars
  PROVE  CapInv'
<1> USE DEF Goto, mvars, cvars, wvars, pvars, hvars
<1>1. Box \in Seq(Task) /\ Len(Box) \in Nat /\ MaxPending \in Nat
  BY BoxTasks, LenProperties, MpscAssumption
<1>2. \A p \in Producers : Filling(p) => pnode[p] \in Nodes \ free /\ pnode[p] # cur
  BY DEF PlaceInv
<1>3. ASSUME NEW p \in Producers, PostCheck(p) PROVE CapInv'
  <2>1. UNCHANGED Box
    BY <1>3, OtherBox
  <2>2. PICK k \in Kinds :
          /\ ppc[p] = "idle" /\ running
          /\ \/ UNCHANGED <<free, task, pnode, ppc>>
             \/ /\ ~AboveCap(k)
                /\ \E n \in free :
                     /\ free' = free \ {n}
                     /\ task' = [task EXCEPT ![n] = [from |-> p, n |-> posted[p] + 1, kind |-> k]]
                     /\ pnode' = [pnode EXCEPT ![p] = n]
                     /\ ppc' = [ppc EXCEPT ![p] = "add"]
    BY <1>3 DEF PostCheck
  <2>3. CASE UNCHANGED <<free, task, pnode, ppc>>
    <3>1. Admitted' = Admitted
      BY <2>3 DEF Admitted, Filling
    <3> QED
      BY <1>1, <2>1, <3>1, CapFrame
  <2>4. CASE k = "reply" /\ ~UNCHANGED <<free, task, pnode, ppc>>
    <3>1. PICK n \in free :
            /\ task' = [task EXCEPT ![n] = [from |-> p, n |-> posted[p] + 1, kind |-> k]]
            /\ pnode' = [pnode EXCEPT ![p] = n]
            /\ ppc' = [ppc EXCEPT ![p] = "add"]
      BY <2>2, <2>4
    <3>2. n \in Nodes /\ task'[n].kind = "reply" /\ \A m \in Nodes : m # n => task'[m] = task[m]
      BY <2>4, <3>1 DEF MpscTypeOK
    <3>3. \A q \in Producers : q # p => (Filling(q)' <=> Filling(q)) /\ pnode'[q] = pnode[q]
      BY <3>1 DEF Filling, MpscTypeOK
    <3>4. pnode'[p] = n
      BY <3>1 DEF MpscTypeOK
    <3>5. Admitted' \subseteq Admitted
      <4> SUFFICES ASSUME NEW q \in Producers, Filling(q)', task'[pnode'[q]].kind # "reply"
                   PROVE  Filling(q) /\ task[pnode[q]].kind # "reply"
        BY DEF Admitted
      <4>1. q # p
        BY <3>2, <3>4
      <4>2. Filling(q) /\ pnode'[q] = pnode[q] /\ pnode[q] \in Nodes \ free
        BY <1>2, <3>3, <4>1
      <4> QED
        BY <3>2, <4>2
    <3> QED
      BY <1>1, <2>1, <3>5, CapFrame
  <2>5. CASE k # "reply" /\ ~UNCHANGED <<free, task, pnode, ppc>>
    <3>1. MaxPending > 0 => pending_tasks < MaxPending
      BY <1>1, <2>2, <2>5 DEF AboveCap, MpscTypeOK
    <3>2. upc # "freed"
      BY <2>2 DEF OwnerInv
    <3>3. pending_tasks \in Int /\ pending_tasks >= Len(Box)
      <4>1. pending_tasks = Len(Box) + Unsubtracted + Cardinality(Raised)
        BY <3>2 DEF CountInv, Raised, Unsubtracted
      <4>2. Cardinality(Raised) \in Nat
        <5>1. Raised \in SUBSET Producers
          BY DEF Raised
        <5> QED
          BY <5>1, SubsetCount
      <4>3. Unsubtracted \in {0, 1} /\ pending_tasks \in Int
        BY DEF Unsubtracted, MpscTypeOK
      <4> QED
        BY <1>1, <4>1, <4>2, <4>3
    <3>4. Cardinality(Capped(Box)) \in Nat /\ Cardinality(Capped(Box)) <= Len(Box)
      BY <1>1, CappedCount
    <3>5. MaxPending > 0 =>
            Cardinality(Capped(Box)) + Cardinality(Admitted') < MaxPending + Cardinality(Producers)
      BY <1>1, <3>1, <3>3, <3>4, CountsOfState
    <3> QED
      BY <2>1, <3>5, CapThen
  <2> QED
    BY <2>3, <2>4, <2>5
<1>4. ASSUME NEW p \in Producers, PostLoad(p) \/ (PostCas(p) /\ ppc'[p] # "xchg") PROVE CapInv'
  <2>1. UNCHANGED Box
    BY <1>4, OtherBox
  <2>2. UNCHANGED <<task, pnode>> /\ \A q \in Producers : Filling(q)' => Filling(q)
    BY <1>4 DEF PostLoad, PostCas, Filling, MpscTypeOK
  <2>3. Admitted' \subseteq Admitted
    BY <2>2 DEF Admitted
  <2> QED
    BY <1>1, <2>1, <2>3, CapFrame
<1>5. ASSUME NEW p \in Producers, PostCas(p), ppc'[p] = "xchg" PROVE CapInv'
  <2> DEFINE t == task[pnode[p]]
  <2>1. t \in Task /\ Box' = Append(Box, t)
    BY <1>5, PushBox
  <2>2. /\ UNCHANGED <<task, pnode>> /\ ppc[p] = "cas"
        /\ \A q \in Producers : q # p => ppc'[q] = ppc[q]
    BY <1>5 DEF PostCas, MpscTypeOK
  <2>3. Cardinality(Capped(Box')) = Cardinality(Capped(Box)) + (IF t.kind # "reply" THEN 1 ELSE 0)
    BY <1>1, <2>1, CappedAppend
  <2>4. Admitted' = Admitted \ {p} /\ (p \in Admitted <=> t.kind # "reply")
    BY <1>5, <2>2 DEF Admitted, Filling
  <2>5. Cardinality(Admitted') = IF t.kind # "reply" THEN Cardinality(Admitted) - 1
                                                     ELSE Cardinality(Admitted)
    <3>1. IsFiniteSet(Admitted)
      BY CountsOfState
    <3> QED
      BY <2>4, <3>1, FS_RemoveElement
  <2>6. Cardinality(Capped(Box)) \in Nat /\ Cardinality(Admitted) \in Nat
    BY <1>1, CappedCount, CountsOfState
  <2> HIDE DEF t
  <2>7. Cardinality(Capped(Box')) + Cardinality(Admitted')
          = Cardinality(Capped(Box)) + Cardinality(Admitted)
    BY <2>3, <2>5, <2>6
  <2> QED
    BY <2>7, CapNow, CapThen
<1>6. CASE RunTask
  <2>1. Box # <<>> /\ Box' = Tail(Box)
    BY <1>6, RunBox
  <2>2. /\ UNCHANGED <<ppc, pnode>> /\ cur \in Nodes
        /\ task' = [task EXCEPT ![cur] = NoTask]
    BY <1>6 DEF RunTask, OwnerInv, MpscTypeOK, Pointer
  <2>3. \A n \in Nodes : n # cur => task'[n] = task[n]
    BY <2>2 DEF MpscTypeOK
  <2>4. Admitted' \subseteq Admitted
    BY <1>2, <2>2, <2>3 DEF Admitted, Filling
  <2> QED
    BY <1>1, <2>1, <2>4, CapFrame
<1>7. CASE Destroy
  <2>1. Box' = <<>>
    BY <1>7, DropBox
  <2> DEFINE d == Range(Chain(cache) \o Reverse(Chain(head)))
  <2>2. /\ UNCHANGED <<ppc, pnode>>
        /\ task' = [n \in Nodes |-> IF n \in d THEN NoTask ELSE task[n]]
    BY <1>7 DEF Destroy
  <2>3. d = Listed \cup Cached
    BY DrainRange
  <2> HIDE DEF d
  <2>4. \A p \in Producers : Filling(p) => pnode[p] \in Nodes /\ pnode[p] \notin d
    BY <2>3 DEF PlaceInv
  <2>5. Admitted' \subseteq Admitted
    BY <2>2, <2>4 DEF Admitted, Filling
  <2> QED
    BY <1>1, <2>1, <2>5, CapFrame
<1>8. CASE Pop
  <2>1. UNCHANGED Box
    BY <1>8, PopBox
  <2>2. UNCHANGED <<ppc, pnode, task>>
    BY <1>8 DEF Pop
  <2>3. Admitted' = Admitted
    BY <2>2 DEF Admitted, Filling
  <2> QED
    BY <1>1, <2>1, <2>3, CapFrame
<1>9. CASE Quiet /\ \A p \in Producers : Filling(p)' => Filling(p)
  <2>1. UNCHANGED Box
    BY <1>9, OtherBox
  <2>2. Admitted' \subseteq Admitted
    BY <1>9 DEF Admitted, Quiet
  <2> QED
    BY <1>1, <2>1, <2>2, CapFrame
<1> QED
  BY <1>3, <1>4, <1>5, <1>6, <1>7, <1>8, <1>9, QuietSteps
-----------------------------------------------------------------------------
(* The inductive invariant, and what follows from it.                       *)

IInv == MpscTypeOK /\ MpscInv

LEMMA InitInv == Init => IInv
<1> SUFFICES ASSUME Init PROVE IInv
  OBVIOUS
<1>1. MpscTypeOK
  BY TypeInit
<1>2. IsPath(next, Null, <<>>)
  BY DEF IsPath, IsInjective
<1>3. Chain(Null) = <<>>
  BY <1>2, ChainDef, ChainPath
<1>4. /\ head = Null /\ cache = Null /\ cur = Null /\ free = Nodes /\ pending_tasks = 0
      /\ cpc = "init" /\ armed = FALSE /\ running = TRUE /\ upc = "idle" /\ notify_pending = 0
      /\ \A p \in Producers : ppc[p] = "idle"
  BY Zenon DEF Init
<1>5. Chain(head) = <<>> /\ Chain(cache) = <<>> /\ Listed = {} /\ Cached = {}
  BY <1>3, <1>4 DEF Listed, Cached, Range
<1>6. Box = <<>>
  BY <1>4, <1>5 DEF Box, Tasks, Reverse
<1>7. ListInv
  BY <1>2, <1>4, <1>5 DEF ListInv
<1>8. PlaceInv
  BY <1>4, <1>5, MpscAssumption DEF PlaceInv, Filling
<1>9. OwnerInv
  BY <1>4 DEF OwnerInv
<1>10. WakeInv
  BY <1>4 DEF WakeInv
<1>11. CountInv
  <2>1. {p \in Producers : ppc[p] \in {"load", "cas"}} = {}
    BY <1>4
  <2> QED
    BY <1>4, <1>6, <2>1, FS_EmptySet DEF CountInv
<1>12. CapInv
  <2>1. Capped(Box) = {} /\ Admitted = {}
    BY <1>4, <1>6 DEF Capped, Admitted, Filling
  <2>2. Cardinality(Capped(Box)) = 0 /\ Cardinality(Admitted) = 0 /\ Cardinality(Producers) \in Nat
    BY <2>1, FS_EmptySet, CountsOfState
  <2> QED
    BY <2>2, CapNow, MpscAssumption
<1> QED
  BY <1>1, <1>7, <1>8, <1>9, <1>10, <1>11, <1>12 DEF IInv, MpscInv

LEMMA StepInv == IInv /\ [Next]_vars => IInv'
<1> SUFFICES ASSUME IInv, [Next]_vars PROVE IInv'
  OBVIOUS
<1>1. MpscTypeOK /\ ListInv /\ PlaceInv /\ OwnerInv /\ WakeInv /\ CountInv /\ CapInv
  BY DEF IInv, MpscInv
<1>2. Lists /\ Listed \cap Cached = {}
  BY <1>1 DEF ListInv, Lists, H, C, PlaceInv
<1>3. MpscTypeOK'
  BY <1>1, <1>2, TypeStep
<1>4. ListInv' /\ PlaceInv' /\ OwnerInv' /\ WakeInv'
  BY <1>1, ListStep, PlaceStep, OwnerKept, WakeStep
<1>5. Lists'
  BY <1>4 DEF ListInv, Lists, H, C
<1>6. CountInv'
  BY <1>1, <1>2, <1>3, <1>5, CountStep
<1>7. CapInv'
  BY <1>1, <1>2, <1>3, <1>5, CapStep
<1> QED
  BY <1>3, <1>4, <1>6, <1>7 DEF IInv, MpscInv

\* xmpsc_push, xmpsc_pop and the notify_pending protocol keep the inductive
\* invariant, for any producers, addresses, cap and number of posts.
THEOREM MpscInvariant == Spec => []IInv
  BY InitInv, StepInv, PTL DEF Spec

\* What the proofs below use of it.
LEMMA InvParts ==
  ASSUME IInv
  PROVE  /\ MpscTypeOK /\ ListInv /\ PlaceInv /\ OwnerInv /\ WakeInv /\ CountInv /\ CapInv /\ Lists
         /\ Box \in Seq(Task) /\ Len(Box) \in Nat /\ Cardinality(Raised) \in Nat
<1>1. MpscTypeOK /\ ListInv /\ PlaceInv /\ OwnerInv /\ WakeInv /\ CountInv /\ CapInv /\ Lists
  BY DEF IInv, MpscInv, ListInv, Lists, H, C
<1>2. Box \in Seq(Task)
  BY <1>1, BoxTasks
<1>3. Raised \in SUBSET Producers
  BY DEF Raised
<1>4. Cardinality(Raised) \in Nat
  BY <1>3, SubsetCount
<1> QED
  BY <1>1, <1>2, <1>4, LenProperties

\* Every shared word keeps its type; above all pending_tasks, which is added to
\* and subtracted from by threads that do not wait for each other, is never
\* negative (the counter of the code is signed).
THEOREM MpscTypeCorrect == Spec => []TypeOK
<1>1. IInv => TypeOK
  <2> SUFFICES ASSUME IInv PROVE TypeOK
    OBVIOUS
  <2>1. pending_tasks \in Nat
    <3>1. upc = "freed" => pending_tasks = 0
      BY InvParts DEF OwnerInv
    <3>2. upc # "freed" => pending_tasks = Len(Box) + Unsubtracted + Cardinality(Raised)
      BY InvParts DEF CountInv, Raised, Unsubtracted
    <3>3. Unsubtracted \in Nat
      BY DEF Unsubtracted
    <3> QED
      BY <3>1, <3>2, <3>3, InvParts
  <2>2. MpscTypeOK
    BY InvParts
  <2> QED
    BY <2>1, <2>2 DEF MpscTypeOK, TypeOK
<1> QED
  BY <1>1, MpscInvariant, PTL

\* The owner never sleeps on a post that nobody will announce (ordering rule 1
\* of xmpscq_push_internal, against the reset in process_tasks).
THEOREM MpscNoLostWakeup == Spec => []NoLostWakeup
<1>1. IInv => NoLostWakeup
  <2> SUFFICES ASSUME IInv, cpc = "poll", Box # <<>>
               PROVE  pipe > 0 \/ \E p \in Producers : ppc[p] \in {"xchg", "notify", "write"} /\
                                    (ppc[p] # "xchg" => need[p])
    BY DEF NoLostWakeup
  <2>1. MpscTypeOK /\ Lists /\ OwnerInv /\ WakeInv
    BY InvParts
  <2>2. cur = Null /\ cache = Null
    BY <2>1 DEF OwnerInv
  <2>3. head # Null
    <3> SUFFICES ASSUME head = Null PROVE FALSE
      OBVIOUS
    <3>1. H = <<>> /\ C = <<>>
      BY <2>1, <2>2, PathFacts DEF Lists
    <3>2. Box = <<>>
      BY <2>2, <3>1 DEF Box, H, C, Tasks, Reverse
    <3> QED
      BY <3>2
  <2> QED
    BY <2>1, <2>3 DEF WakeInv, Announced
<1> QED
  BY <1>1, MpscInvariant, PTL

\* The depth that the cap is tested against is exact up to the posts in progress
\* and the task just run; the cap is passed by fewer posts than there are threads.
THEOREM MpscDepthKept == Spec => []DepthKept
<1>1. IInv => DepthBounds
  <2> SUFFICES ASSUME IInv, upc # "freed" PROVE
        /\ pending_tasks >= Len(Box)
        /\ pending_tasks <= Len(Box) + Unsubtracted + Cardinality(Raised)
    BY DEF DepthBounds, Unsubtracted, Raised
  <2>1. pending_tasks = Len(Box) + Unsubtracted + Cardinality(Raised)
    BY InvParts DEF CountInv, Raised, Unsubtracted
  <2>2. Unsubtracted \in Nat
    BY DEF Unsubtracted
  <2> QED
    BY <2>1, <2>2, InvParts
<1>2. IInv => SoftCap
  <2> SUFFICES ASSUME IInv, MaxPending > 0
               PROVE  Cardinality(Capped(Box)) < MaxPending + Cardinality(Producers)
    BY DEF SoftCap, Capped
  <2>1. Cardinality(Capped(Box)) + Cardinality(Admitted) < MaxPending + Cardinality(Producers)
    BY InvParts, CapNow
  <2>2. Cardinality(Capped(Box)) \in Nat
    BY InvParts, CappedCount
  <2> QED
    BY <2>1, <2>2, CountsOfState, MpscAssumption
<1> QED
  BY <1>1, <1>2, MpscInvariant, PTL DEF DepthKept

\* No node has two holders, and none is lost: what xmpsc_push publishes is freed
\* once, by the owner or by xmpscq_drain_destroy.
THEOREM MpscNodesConserved == Spec => []NodesConserved
<1>1. IInv => NodesConserved
  <2> SUFFICES ASSUME IInv, upc # "freed", NEW n \in Nodes
               PROVE  \E h : Holders(n) = {h}
    BY FS_Singleton, Zenon DEF NodesConserved
  <2> DEFINE Free == {<<"free", 0>> : x \in free \cap {n}}
             Run  == {<<"run", 0>> : x \in {cur} \cap {n}}
             Prod == {<<"producer", p>> : p \in {q \in Producers : ppc[q] \in {"add", "load", "cas"} /\ pnode[q] = n}}
             InC  == {<<"cache", i>> : i \in {j \in DOMAIN C : C[j] = n}}
             InH  == {<<"head", i>> : i \in {j \in DOMAIN H : H[j] = n}}
  <2>1. Holders(n) = Free \cup Run \cup Prod \cup InC \cup InH
    BY DEF Holders, C, H
  <2>2. PlaceInv /\ Lists
    BY InvParts
  <2>3. /\ \A i, j \in DOMAIN C : C[i] = C[j] => i = j
        /\ \A i, j \in DOMAIN H : H[i] = H[j] => i = j
    BY <2>2, PathFacts DEF Lists
  <2>4. /\ Listed = {H[i] : i \in DOMAIN H} /\ Cached = {C[i] : i \in DOMAIN C}
    BY ListNames DEF Range
  <2>5. /\ IF n \in free THEN Free = {<<"free", 0>>} ELSE Free = {}
        /\ IF n = cur THEN Run = {<<"run", 0>>} ELSE Run = {}
    OBVIOUS
  <2>6. IF n \in Listed THEN \E i : InH = {<<"head", i>>} ELSE InH = {}
    <3>1. n \notin Listed => InH = {}
      BY <2>4
    <3>2. ASSUME n \in Listed PROVE \E i : InH = {<<"head", i>>}
      <4>1. PICK i \in DOMAIN H : H[i] = n
        BY <2>4, <3>2
      <4>2. {j \in DOMAIN H : H[j] = n} = {i}
        BY <2>3, <4>1
      <4> QED
        BY <4>2
    <3> QED
      BY <3>1, <3>2
  <2>7. IF n \in Cached THEN \E i : InC = {<<"cache", i>>} ELSE InC = {}
    <3>1. n \notin Cached => InC = {}
      BY <2>4
    <3>2. ASSUME n \in Cached PROVE \E i : InC = {<<"cache", i>>}
      <4>1. PICK i \in DOMAIN C : C[i] = n
        BY <2>4, <3>2
      <4>2. {j \in DOMAIN C : C[j] = n} = {i}
        BY <2>3, <4>1
      <4> QED
        BY <4>2
    <3> QED
      BY <3>1, <3>2
  <2> DEFINE Held == \E p \in Producers : Filling(p) /\ pnode[p] = n
  <2>8. IF Held THEN \E p : Prod = {<<"producer", p>>} ELSE Prod = {}
    <3>1. ~Held => Prod = {}
      BY DEF Filling
    <3>2. ASSUME Held PROVE \E p : Prod = {<<"producer", p>>}
      <4>1. PICK p \in Producers : Filling(p) /\ pnode[p] = n
        BY <3>2
      <4>2. \A q \in Producers : Filling(q) /\ pnode[q] = n => q = p
        BY <2>2, <4>1 DEF PlaceInv
      <4>3. {q \in Producers : ppc[q] \in {"add", "load", "cas"} /\ pnode[q] = n} = {p}
        BY <4>1, <4>2 DEF Filling
      <4> QED
        BY <4>3
    <3> QED
      BY <3>1, <3>2
  <2>9. Held => n \notin Listed \cup Cached \cup free /\ n # cur
    BY <2>2 DEF PlaceInv
  <2>10. /\ Held \/ n \in Listed \cup Cached \cup free \cup {cur}
         /\ Listed \cap Cached = {} /\ (Listed \cup Cached) \cap free = {}
         /\ cur \notin Listed \cup Cached \cup free
    BY <2>2 DEF PlaceInv
  <2> HIDE DEF Free, Run, Prod, InC, InH, Held
  <2>11. CASE Held
    BY <2>1, <2>5, <2>6, <2>7, <2>8, <2>9, <2>11
  <2>12. CASE ~Held /\ n \in Listed
    BY <2>1, <2>5, <2>6, <2>7, <2>8, <2>10, <2>12
  <2>13. CASE ~Held /\ n \in Cached
    BY <2>1, <2>5, <2>6, <2>7, <2>8, <2>10, <2>13
  <2>14. CASE ~Held /\ n \in free \cup {cur}
    BY <2>1, <2>5, <2>6, <2>7, <2>8, <2>10, <2>14
  <2> QED
    BY <2>10, <2>11, <2>12, <2>13, <2>14
<1> QED
  BY <1>1, MpscInvariant, PTL
-----------------------------------------------------------------------------
(* The lock-free list implements the mailbox.                               *)

LEMMA MailboxStep == IInv /\ IInv' /\ [Next]_vars => [Mailbox!Next]_(Mailbox!vars)
<1> SUFFICES ASSUME IInv, IInv', [Next]_vars PROVE [Mailbox!Next]_(Mailbox!vars)
  OBVIOUS
<1>1. /\ MpscTypeOK /\ ListInv /\ PlaceInv /\ OwnerInv /\ Lists
      /\ MpscTypeOK' /\ Lists'
  BY InvParts DEF IInv, MpscInv, ListInv, Lists, H, C
<1>2. ASSUME NEW p \in Producers, PostCas(p), ppc'[p] = "xchg" PROVE Mailbox!Next
  <2>1. /\ task[pnode[p]] \in Task /\ Box' = Append(Box, task[pnode[p]])
        /\ sent' = Append(sent, task[pnode[p]])
    BY <1>1, <1>2, PushBox
  <2>2. UNCHANGED <<done, lost>>
    BY <1>2 DEF PostCas
  <2>3. Mailbox!Send(task[pnode[p]])
    BY <2>1, <2>2 DEF Mailbox!Send
  <2> QED
    BY <2>1, <2>3 DEF Mailbox!Next
<1>3. CASE RunTask
  <2>1. Box # <<>> /\ Box' = Tail(Box) /\ done' = Append(done, Head(Box))
    BY <1>1, <1>3, RunBox
  <2>2. UNCHANGED <<sent, lost>>
    BY <1>3 DEF RunTask
  <2> QED
    BY <2>1, <2>2 DEF Mailbox!Next, Mailbox!Deliver
<1>4. CASE Destroy
  <2>1. Box' = <<>> /\ lost' = lost \o Box
    BY <1>1, <1>4, DropBox
  <2>2. UNCHANGED <<sent, done>>
    BY <1>4 DEF Destroy
  <2> QED
    BY <2>1, <2>2 DEF Mailbox!Next, Mailbox!Discard
<1>5. CASE Pop
  <2>1. UNCHANGED Box
    BY <1>1, <1>5, PopBox
  <2> QED
    BY <1>5, <2>1 DEF Pop, hvars, Mailbox!vars
<1>6. CASE \/ \E p \in Producers : PostCheck(p) \/ PostLoad(p) \/ (PostCas(p) /\ ppc'[p] # "xchg")
           \/ Quiet
  <2>1. UNCHANGED <<Box, sent, done, lost>>
    BY <1>1, <1>6, OtherBox
  <2> QED
    BY <2>1 DEF Mailbox!vars
<1> QED
  BY <1>1, <1>2, <1>3, <1>4, <1>5, <1>6, QuietSteps

\* xmpsc_push, xmpsc_pop and xmpscq_drain_destroy are a first-in first-out
\* mailbox in the order of the successful CASes: nothing is taken twice, skipped
\* or reordered, although addresses are reused under the producers' feet.
THEOREM MpscImplementsMailbox == Spec => MailboxSpec
<1>1. Init => Mailbox!Init
  <2> SUFFICES ASSUME Init PROVE Mailbox!Init
    OBVIOUS
  <2>1. IInv /\ cur = Null /\ head = Null /\ cache = Null
    BY InitInv DEF Init
  <2>2. H = <<>> /\ C = <<>>
    BY <2>1, InvParts, PathFacts DEF Lists
  <2>3. Box = <<>>
    BY <2>1, <2>2 DEF Box, H, C, Tasks, Reverse
  <2> QED
    BY <2>3 DEF Init, Mailbox!Init
<1>2. IInv /\ IInv' /\ [Next]_vars => [Mailbox!Next]_(Mailbox!vars)
  BY MailboxStep
<1> QED
  BY <1>1, <1>2, MpscInvariant, PTL DEF Spec, MailboxSpec, Mailbox!Spec
=============================================================================
