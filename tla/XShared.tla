------------------------------ MODULE XShared -------------------------------
(***************************************************************************)
(* A process-global dictionary (xshared.c): shards of chained buckets with *)
(* an LRU list, a byte budget and lazily reaped expiries, used by several  *)
(* threads and swept by the main thread.                                   *)
(*                                                                         *)
(* A call reads the clock, waits for the lock of its shard and does all    *)
(* its work in one critical section.  Its action is that section.  Any     *)
(* number of threads call, so the reading may be of any earlier time when  *)
(* the lock is got.                                                        *)
(*                                                                         *)
(* Values are told apart by their string length, which is 0 for scalars,   *)
(* and by whether they are numbers.  An entry is charged for the length of *)
(* its string when it is inserted, and for the length modulo 2^32 that its *)
(* header keeps when it is removed.                                        *)
(***************************************************************************)
EXTENDS Integers, FiniteSets, SequencesExt

CONSTANTS
  Keys,
  ShardOf,      \* shard of each key, 0..NShards-1
  Hash,         \* hash that selects the bucket of each key
  NShards,      \* shards of the dictionary
  KeyLen,       \* length of each key
  EntrySize,    \* sizeof(entry)
  Lengths,      \* lengths of the string values set for each key
  VlenRange,    \* 2^32: vlen is a uint32_t
  Budget,       \* budget_bytes of a shard
  InitBuckets,  \* XSHARED_INIT_BUCKETS
  GrowFails,    \* TRUE: the allocation of a larger bucket array may fail
  SweepBudget,  \* XSHARED_SWEEP_BUDGET
  TTLs,         \* time to live; 0 = for ever
  MaxLost,      \* bound: a shard losing this much gets no more strings of VlenRange and more
  MaxTime       \* bound: the clock

ASSUME SharedAssumption ==
  /\ NShards \in Nat \ {0} /\ ShardOf \in [Keys -> 0..(NShards - 1)] /\ Hash \in [Keys -> Nat]
  /\ KeyLen \in [Keys -> Nat] /\ EntrySize \in Nat \ {0}
  /\ Lengths \in [Keys -> SUBSET Nat] /\ VlenRange \in Nat \ {0} /\ MaxLost \in Nat
  /\ Budget \in Nat \ {0} /\ InitBuckets \in Nat \ {0}
  /\ GrowFails \in BOOLEAN /\ SweepBudget \in Nat \ {0} /\ TTLs \subseteq Nat /\ MaxTime \in Nat \ {0}

VARIABLES
  shards,   \* the shards; ent = the entries in memory, lost (history) = the bytes that
            \* removed entries were charged and not given back
  clock,    \* time_clock_ms()
  cursor,   \* sweep_shard and sweep_bucket
  sweep,    \* the locals of sweep_expired while it runs
  missing   \* keys reported absent, or deleted, and not inserted since

vars == <<shards, clock, cursor, sweep, missing>>

Idle == [running |-> FALSE, si |-> 0, bi |-> 0, visited |-> 0, scanned |-> 0, now |-> 0]

\* create_locked
Init ==
  /\ shards = [i \in 0..(NShards - 1) |->
                 [buckets |-> [b \in 0..(InitBuckets - 1) |-> <<>>], nbuckets |-> InitBuckets,
                  count |-> 0, lru |-> <<>>, used |-> 0, ent |-> <<>>, lost |-> 0]]
  /\ clock = 1
  /\ cursor = [si |-> 0, bi |-> 0] /\ sweep = Idle
  /\ missing = {}
-----------------------------------------------------------------------------
(* Operations on a shard.                                                   *)

\* The size of an entry of k whose string is so long: need.
Need(k, len) == EntrySize + KeyLen[k] + len

\* The sum of f over K, counted one by one.
Total(f, K) == Cardinality(UNION {{k} \X (1..f[k]) : k \in K})

\* The memory of the entries in K, as malloc got it and as entry_bytes computes it
\* from vlen.
Memory(s, K) == Total([k \in DOMAIN s.ent |-> Need(k, s.ent[k].len)], K)
Bytes(s, K)  == Total([k \in DOMAIN s.ent |-> Need(k, s.ent[k].len % VlenRange)], K)

\* The list q after the keys in K have been unlinked.
Without(q, K) ==
  LET kept[i \in 0..Len(q)] ==
        IF i = 0 THEN <<>> ELSE IF q[i] \in K THEN kept[i - 1] ELSE Append(kept[i - 1], q[i])
  IN kept[Len(q)]

\* entry_drop of the keys in K: bucket_remove, lru_unlink and the counters.
Drop(s, K) ==
  [s EXCEPT !.buckets = [b \in DOMAIN @ |-> Without(@[b], K)], !.lru = Without(@, K),
            !.used = @ - Bytes(s, K), !.lost = @ + Memory(s, K) - Bytes(s, K),
            !.count = @ - Cardinality(K),
            !.ent = [k \in DOMAIN @ \ K |-> @[k]]]

Expired(e, now) == e.expire # 0 /\ e.expire <= now

\* shard_lookup finds k, expired or not.
InChain(s, k) == k \in Range(s.buckets[Hash[k] % s.nbuckets])

\* What shard_lookup leaves: an expired entry is reaped.
Reap(s, k, now) == IF InChain(s, k) /\ Expired(s.ent[k], now) THEN Drop(s, {k}) ELSE s

\* lru_touch
Touch(s, k) == [s EXCEPT !.lru = <<k>> \o Without(@, {k})]

\* Mutant: room is made for the entry as if it weighed nothing.
EvictUnweighed(s, need) ==
  LET n    == Len(s.lru)
      Tl(v) == {s.lru[i] : i \in (n - v + 1)..n}
      v    == CHOOSE x \in 0..n : /\ x = n \/ s.used - Bytes(s, Tl(x)) <= Budget
                                  /\ \A y \in 0..(x - 1) : s.used - Bytes(s, Tl(y)) > Budget
  IN IF s.used <= Budget THEN s ELSE Drop(s, Tl(v))

\* The loop over evict_tail: as many entries of the LRU tail as it takes.
Evict(s, need) ==
  LET n    == Len(s.lru)
      Tl(v) == {s.lru[i] : i \in (n - v + 1)..n}
      v    == CHOOSE x \in 0..n : /\ x = n \/ s.used - Bytes(s, Tl(x)) + need <= Budget
                                  /\ \A y \in 0..(x - 1) : s.used - Bytes(s, Tl(y)) + need > Budget
  IN IF s.used + need <= Budget THEN s ELSE Drop(s, Tl(v))

\* shard_maybe_grow: every chain is split between two buckets and reversed.
Grown(s) ==
  [s EXCEPT !.nbuckets = 2 * @,
            !.buckets = [b \in 0..(2 * s.nbuckets - 1) |->
               Reverse(Without(s.buckets[b % s.nbuckets],
                               {k \in Keys : Hash[k] % (2 * s.nbuckets) # b}))]]

\* Evict, then insert k unless there is no memory for it.  The outcomes are pairs
\* of a shard and whether the entry is in.
Insert(s, k, e) ==
  LET v == Evict(s, Need(k, e.len))
      b == Hash[k] % v.nbuckets
      w == [v EXCEPT !.buckets[b] = <<k>> \o @, !.lru = <<k>> \o @,
                     !.used = @ + Need(k, e.len), !.count = @ + 1,
                     !.ent = [x \in DOMAIN @ \cup {k} |-> IF x = k THEN e ELSE @[x]]]
      crowded == w.count > w.nbuckets
  IN {<<v, FALSE>>} \cup (IF crowded THEN {<<Grown(w), TRUE>>} ELSE {})
                   \cup (IF crowded /\ ~GrowFails THEN {} ELSE {<<w, TRUE>>})

Expiry(now, ttl) == IF ttl > 0 THEN now + ttl ELSE 0
-----------------------------------------------------------------------------
(* The calls.  Each names its clock reading now.                            *)

\* The call replaces the shard of k by s; m is the new value of missing.
Done(k, s, m) ==
  /\ shards' = [shards EXCEPT ![ShardOf[k]] = s]
  /\ missing' = m
  /\ UNCHANGED <<clock, cursor, sweep>>

Shard(k) == shards[ShardOf[k]]

Present(i) == DOMAIN shards[i].ent

\* do_set: a replaced entry is dropped before the new one is allocated.
DoSet(k, now, mode, e) ==
  LET s     == Reap(Shard(k), k, now)
      found == InChain(s, k)
      base  == IF found THEN Drop(s, {k}) ELSE s
      m     == IF found THEN missing ELSE missing \cup {k}
  IN IF Need(k, e.len) > Budget THEN Done(k, Shard(k), missing)             \* TOOBIG
     ELSE IF (mode = "add" /\ found) \/ (mode = "replace" /\ ~found)
     THEN Done(k, s, m)                                               \* EXISTS, NOTFOUND
     ELSE \E r \in Insert(base, k, e) : Done(k, r[1], IF r[2] THEN m \ {k} ELSE m)

Set(k, now) == \E mode \in {"set", "add", "replace"}, ttl \in TTLs :
  \/ DoSet(k, now, mode, [len |-> 0, num |-> TRUE, expire |-> Expiry(now, ttl)])
  \/ \E l \in Lengths[k] :
       /\ l >= VlenRange => Shard(k).used - Bytes(Shard(k), Present(ShardOf[k])) < MaxLost
       /\ DoSet(k, now, mode, [len |-> l, num |-> FALSE, expire |-> Expiry(now, ttl)])

\* Mutant: an expired entry is reported absent but left in the table.
GetKeepsExpired(k, now) ==
  LET s == Shard(k)
  IN IF InChain(s, k) /\ ~Expired(s.ent[k], now) THEN Done(k, Touch(s, k), missing)
     ELSE Done(k, s, missing \cup {k})

\* xshared_get
Get(k, now) ==
  LET s == Reap(Shard(k), k, now)
  IN IF InChain(s, k) THEN Done(k, Touch(s, k), missing) ELSE Done(k, s, missing \cup {k})

\* xshared_delete
Delete(k, now) ==
  LET s == Reap(Shard(k), k, now)
  IN Done(k, IF InChain(s, k) THEN Drop(s, {k}) ELSE s, missing \cup {k})

\* xshared_incr: of a number, of another value (NOTNUM), or creating the number.
Incr(k, now) ==
  LET s == Reap(Shard(k), k, now)
      m == missing \cup {k}
  IN IF InChain(s, k) THEN Done(k, IF s.ent[k].num THEN Touch(s, k) ELSE s, missing)
     ELSE IF Need(k, 0) > Budget THEN Done(k, s, m)                   \* TOOBIG
     ELSE \E ttl \in TTLs :
       \E r \in Insert(s, k, [len |-> 0, num |-> TRUE, expire |-> Expiry(now, ttl)]) :
         Done(k, r[1], IF r[2] THEN m \ {k} ELSE m)

\* xshared_expire
Expire(k, now) == \E ttl \in TTLs :
  LET s == Reap(Shard(k), k, now)
  IN IF InChain(s, k) THEN Done(k, [s EXCEPT !.ent[k].expire = Expiry(now, ttl)], missing)
     ELSE Done(k, s, missing \cup {k})

\* xshared_ttl
Ttl(k, now) ==
  LET s == Reap(Shard(k), k, now)
  IN Done(k, s, IF InChain(s, k) THEN missing ELSE missing \cup {k})

Call == \E k \in Keys, now \in 1..clock :
  \/ Get(k, now) \/ Set(k, now) \/ Delete(k, now)
  \/ Incr(k, now) \/ Expire(k, now) \/ Ttl(k, now)
-----------------------------------------------------------------------------
(* The main thread.                                                         *)

\* xshared_tick calls sweep_expired, which reads the clock and the cursor.  The
\* interval between two sweeps is left out.
SweepBegin ==
  /\ ~sweep.running
  /\ sweep' = [Idle EXCEPT !.running = TRUE, !.si = cursor.si, !.bi = cursor.bi, !.now = clock]
  /\ UNCHANGED <<shards, clock, cursor, missing>>

\* The chains of the buckets from b on, one after the other.
Chains(s, b) ==
  LET first[n \in 0..(s.nbuckets - b)] ==
        IF n = 0 THEN <<>> ELSE first[n - 1] \o s.buckets[b + n - 1]
  IN first[s.nbuckets - b]

\* Mutant: the cursor always restarts at the first shard.
SweepShardRestarts ==
  /\ sweep.running
  /\ LET s     == shards[sweep.si]
         chain == Chains(s, IF sweep.bi >= s.nbuckets THEN 0 ELSE sweep.bi)
         left  == SweepBudget - sweep.scanned
         seen  == SubSeq(chain, 1, IF Len(chain) < left THEN Len(chain) ELSE left)
         next  == (sweep.si + 1) % NShards
         done  == sweep.visited + 1 = NShards
     IN /\ shards' = [shards EXCEPT ![sweep.si] =
                        Drop(s, {k \in Range(seen) : Expired(s.ent[k], sweep.now)})]
        /\ IF Len(chain) >= left
           THEN cursor' = [si |-> 0, bi |-> 0] /\ sweep' = Idle
           ELSE /\ cursor' = IF done THEN [si |-> next, bi |-> 0] ELSE cursor
                /\ sweep' = IF done THEN Idle
                            ELSE [sweep EXCEPT !.si = next, !.bi = 0, !.visited = @ + 1,
                                               !.scanned = @ + Len(seen)]
  /\ UNCHANGED <<clock, missing>>

\* One shard of sweep_expired, under its lock: scan from the cursor until the
\* shard or the budget ends; in the latter case the cursor stays on the bucket.
SweepShard ==
  /\ sweep.running
  /\ LET s     == shards[sweep.si]
         chain == Chains(s, IF sweep.bi >= s.nbuckets THEN 0 ELSE sweep.bi)
         left  == SweepBudget - sweep.scanned
         seen  == SubSeq(chain, 1, IF Len(chain) < left THEN Len(chain) ELSE left)
         next  == (sweep.si + 1) % NShards
         done  == sweep.visited + 1 = NShards
     IN /\ shards' = [shards EXCEPT ![sweep.si] =
                        Drop(s, {k \in Range(seen) : Expired(s.ent[k], sweep.now)})]
        /\ IF Len(chain) >= left
           THEN /\ cursor' = [si |-> sweep.si, bi |-> Hash[seen[left]] % s.nbuckets]
                /\ sweep' = Idle
           ELSE /\ cursor' = IF done THEN [si |-> next, bi |-> 0] ELSE cursor
                /\ sweep' = IF done THEN Idle
                            ELSE [sweep EXCEPT !.si = next, !.bi = 0, !.visited = @ + 1,
                                               !.scanned = @ + Len(seen)]
  /\ UNCHANGED <<clock, missing>>

\* Time passes.
Tick ==
  /\ clock < MaxTime
  /\ clock' = clock + 1
  /\ UNCHANGED <<shards, cursor, sweep, missing>>
-----------------------------------------------------------------------------
Next == Call \/ SweepBegin \/ SweepShard \/ Tick

\* The main loop ticks for ever and a sweep under way goes on; callers need not
\* call.
Fairness == WF_vars(SweepBegin) /\ WF_vars(SweepShard)

Spec == Init /\ [][Next]_vars

FairSpec == Spec /\ Fairness
-----------------------------------------------------------------------------
(* Properties.                                                              *)

\* Every entry is once in the bucket in which shard_lookup seeks it, and once in
\* the LRU list.
Linked(s) ==
  /\ DOMAIN s.buckets = 0..(s.nbuckets - 1)
  /\ \A b \in DOMAIN s.buckets :
       /\ IsInjective(s.buckets[b])
       /\ Range(s.buckets[b]) = {k \in DOMAIN s.ent : Hash[k] % s.nbuckets = b}
  /\ IsInjective(s.lru) /\ Range(s.lru) = DOMAIN s.ent

Counted(s) ==
  /\ s.count = Cardinality(DOMAIN s.ent)
  /\ s.used = Memory(s, DOMAIN s.ent) + s.lost
  /\ Memory(s, DOMAIN s.ent) <= Budget

\* Whatever is inserted, replaced, evicted, reaped, swept and rehashed: every
\* entry in memory is once in the bucket in which shard_lookup seeks it and once
\* in the LRU list, nothing else is, count is exact, and the entries fit into the
\* budget.  used_bytes is what they take, but for what strings of 4 GiB and more
\* left behind: a shard that never held one is exact, one that did loses room for
\* good, and none ever takes more memory than its budget.
Accounting == \A i \in DOMAIN shards :
  /\ \A k \in Present(i) : ShardOf[k] = i
  /\ Linked(shards[i]) /\ Counted(shards[i])

\* A key that some thread was told is absent, expired or deleted stays absent for
\* every thread, also for one whose clock reading is older than the expiry, until
\* it is inserted again.
NoResurrection == \A k \in missing : k \notin Present(ShardOf[k])

\* No expired entry stays: the sweep reclaims it when nobody asks for it, wherever
\* its cursor stopped and however the buckets were rehashed meanwhile (as long as no chain
\* is as long as its budget).
ExpiredReclaimed == \A k \in Keys :
  []<>~(k \in Present(ShardOf[k]) /\ Expired(Shard(k).ent[k], clock))
-----------------------------------------------------------------------------
(* The inductive invariant.                                                 *)

Entry == [len : Nat, num : BOOLEAN, expire : Nat]

ShardRecord ==
  [buckets : UNION {[0..n -> Seq(Keys)] : n \in Nat}, nbuckets : Nat \ {0}, count : Int,
   lru : Seq(Keys), used : Int, ent : UNION {[K -> Entry] : K \in SUBSET Keys},
   lost : Nat]

TypeOK ==
  /\ shards \in [0..(NShards - 1) -> ShardRecord]
  /\ clock \in Nat \ {0} /\ missing \in SUBSET Keys
  /\ cursor \in [si : 0..(NShards - 1), bi : Nat]
  /\ sweep \in [running : BOOLEAN, si : 0..(NShards - 1), bi : Nat, visited : Nat,
                scanned : 0..(SweepBudget - 1), now : Nat]

IInv == TypeOK /\ Accounting /\ NoResurrection
=============================================================================
