------------------------------- MODULE XTimer -------------------------------
(***************************************************************************)
(* The hierarchical timing wheel of one thread (xtimer.c): creation,       *)
(* deletion, and the poll loop with the callbacks it runs, which may       *)
(* create and delete timers themselves.                                    *)
(*                                                                         *)
(* A slot's list is the set of pending nodes whose level and slot name it; *)
(* the order inside a slot is left open.  The clock is an input of every   *)
(* poll.  Wheel sizes are constants: the code has TVR_SIZE = 256, TVN_SIZE *)
(* = 64, Levels = 5 and MAX_DELTA = 2^31 - 1, one bit below the top level. *)
(* Its shifts and masks by the bits of these powers of two are divisions   *)
(* and remainders here.                                                    *)
(***************************************************************************)
EXTENDS Integers, FiniteSets

CONSTANTS
  TVR_SIZE, TVN_SIZE, Levels, MAX_DELTA,
  Nodes, None,  \* timer nodes (preallocated freelist), and no node
  Intervals,    \* interval_ms arguments
  Repeats,      \* repeat_num after normalisation (-1 is INT_MAX)
  Steps, Backs, \* how far the clock moves between two polls, and falls back
  MaxTime       \* bound: last clock value

ASSUME TimerAssumption ==
  /\ TVR_SIZE \in Nat \ {0} /\ TVN_SIZE \in Nat \ {0} /\ Levels \in Nat \ {0, 1}
  /\ MAX_DELTA \in Nat \ {0} /\ MaxTime \in Nat
  /\ Intervals \subseteq Nat /\ Repeats \subseteq Nat \ {0} 
  /\ Steps \subseteq Nat /\ Backs \subseteq Nat /\ None \notin Nodes

VARIABLES
  pool,                          \* _cur: this thread has a timer set
  current_time, current_jiffies, \* the last clock reading; the wheel's position
  node, active_count,            \* the nodes with the slot each one is in
  pc, batch, cur,                \* xtimer_poll: position, temp_list, running node
  next_timeout                   \* what the last poll returned

wheel == <<pool, current_time, current_jiffies, node, active_count>>
poll  == <<pc, batch, cur, next_timeout>>
tvars == <<wheel, poll>>

\* A recycled node (xtimer_node_release): every field is poisoned.  The last four
\* are history: repeat_num and clock at creation, callbacks made, and the latest
\* clock reading since.
Poison == [status |-> "free", cancelled |-> TRUE, expire |-> 0, interval |-> 0,
           repeat |-> 0, level |-> 0, slot |-> 0,
           rep0 |-> 0, base |-> 0, fired |-> 0, seen |-> 0]
-----------------------------------------------------------------------------
(* xtimer_calc_slot and xtimer_cascade.                                     *)

\* The slots of level l.
Size(l) == IF l = 0 THEN TVR_SIZE ELSE TVN_SIZE

\* One slot of level l stands for Span[l] ms, 1 << (TVR_BITS + (l - 1) * TVN_BITS)
\* above level 0; the level turns once in Span[l + 1] ms.
Span[l \in 0..Levels] == IF l = 0 THEN 1 ELSE Span[l - 1] * Size(l - 1)

\* Mutant: the slot index is not masked.
SlotUnmasked(t, l) == t \div Span[l]

Slot(t, l) == (t \div Span[l]) % Size(l)

LevelOf(delta) ==
  CHOOSE l \in 0..(Levels - 1) :
    /\ l = Levels - 1 \/ delta < Span[l + 1]
    /\ \A m \in 0..(l - 1) : delta >= Span[m + 1]

Delta(expire) ==
  IF expire <= current_jiffies THEN 0
  ELSE IF expire - current_jiffies > MAX_DELTA THEN MAX_DELTA
  ELSE expire - current_jiffies

\* Node x linked into the slot for its expiry, as seen from current_jiffies.
Placed(x) ==
  LET d == Delta(x.expire)
  IN [x EXCEPT !.status = "pending", !.level = LevelOf(d),
               !.slot = Slot(current_jiffies + d, LevelOf(d))]

\* Mutant: the slot after the current one is cascaded.
DueLate(x) ==
  /\ x.status = "pending" /\ x.level > 0
  /\ x.slot = (Slot(current_jiffies, x.level) + 1) % TVN_SIZE
  /\ \A m \in 0..(x.level - 1) : Slot(current_jiffies, m) = 0

\* The slots cascaded at current_jiffies: that of level l when all lower indices
\* are 0.  A node is placed by its expiry alone, so the order of the levels and
\* placing a node twice make no difference.
Due(x) ==
  /\ x.status = "pending" /\ x.level > 0
  /\ x.slot = Slot(current_jiffies, x.level)
  /\ \A m \in 0..(x.level - 1) : Slot(current_jiffies, m) = 0

Cascaded == [n \in Nodes |-> IF Due(node[n]) THEN Placed(node[n]) ELSE node[n]]
-----------------------------------------------------------------------------
Init ==
  /\ pool = FALSE /\ current_time = 0 /\ current_jiffies = 0
  /\ node = [n \in Nodes |-> Poison] /\ active_count = 0
  /\ pc = "idle" /\ batch = {} /\ cur = None /\ next_timeout = 0

\* Timer functions can be called by the thread between polls, or by a callback.
CanCall == pool /\ pc \in {"idle", "callback"}

\* xtimer_init, or the first xtimer_add: an empty wheel at the current time.
PoolCreate == \E t \in 0..MaxTime :
  /\ ~pool /\ pool' = TRUE
  /\ t >= current_time
  /\ current_time' = t /\ current_jiffies' = t /\ active_count' = 0
  /\ UNCHANGED <<node, poll>>

\* xtimer_uninit: every node is freed.
PoolDestroy ==
  /\ pool /\ pc = "idle"
  /\ pool' = FALSE
  /\ node' = [n \in Nodes |-> Poison]
  /\ UNCHANGED <<current_time, current_jiffies, active_count, poll>>

\* xtimer_add: the expiry counts from the cached current_time.
Create(n, i, r) ==
  /\ CanCall /\ node[n].status = "free"
  /\ node' = [node EXCEPT ![n] = Placed([Poison EXCEPT !.cancelled = FALSE, !.interval = i,
                !.expire = current_time + i, !.repeat = r,
                !.rep0 = r, !.base = current_time, !.seen = current_time])]
  /\ active_count' = active_count + 1
  /\ UNCHANGED <<pool, current_time, current_jiffies, poll>>

\* xtimer_del: recycle a pending node, only mark one that poll holds.
Delete(n) ==
  /\ CanCall /\ node[n].status # "free" /\ ~node[n].cancelled
  /\ \/ /\ node[n].status = "pending"
        /\ node' = [node EXCEPT ![n] = Poison]
        /\ active_count' = active_count - 1
     \/ /\ node[n].status = "running"
        /\ node' = [node EXCEPT ![n].cancelled = TRUE]
        /\ UNCHANGED active_count
  /\ UNCHANGED <<pool, current_time, current_jiffies, poll>>
-----------------------------------------------------------------------------
(* xtimer_poll.                                                             *)

\* Read the clock; a clock that went backwards only moves the wheel back.
PollBegin ==
  /\ pool /\ pc = "idle"
  /\ current_time' \in 0..MaxTime \cap ({current_time + d : d \in Steps}
                                        \cup {current_time - b : b \in Backs})
  /\ node' = [n \in Nodes |->
       IF node[n].status = "pending" /\ current_time' > node[n].seen
       THEN [node[n] EXCEPT !.seen = current_time'] ELSE node[n]]
  /\ \/ /\ current_time' < current_jiffies
        /\ current_jiffies' = current_time'
        /\ next_timeout' = TVR_SIZE - 1
        /\ UNCHANGED pc
     \/ /\ current_time' >= current_jiffies
        /\ pc' = "advance"
        /\ UNCHANGED <<current_jiffies, next_timeout>>
  /\ UNCHANGED <<pool, active_count, batch, cur>>

\* One jiffy: cascade, then lock the nodes of its slot as the batch.
Advance ==
  /\ pc = "advance" /\ current_jiffies < current_time
  /\ LET c == Cascaded
         b == {n \in Nodes : c[n].status = "pending" /\ c[n].level = 0
                               /\ c[n].slot = Slot(current_jiffies, 0)}
     IN /\ batch' = b
        /\ node' = [n \in Nodes |-> IF n \in b THEN [c[n] EXCEPT !.status = "running"] ELSE c[n]]
        /\ pc' = IF b = {} THEN "advance" ELSE "fire"
        /\ current_jiffies' = IF b = {} THEN current_jiffies + 1 ELSE current_jiffies
  /\ UNCHANGED <<pool, current_time, active_count, cur, next_timeout>>

\* Mutant: a segment of a long timer is taken for its expiry.
FireSegment(n) ==
  /\ pc = "fire" /\ n \in batch
  /\ batch' = batch \ {n} /\ active_count' = active_count - 1
  /\ \/ /\ node[n].cancelled
        /\ node' = [node EXCEPT ![n] = Poison]
        /\ UNCHANGED <<pc, cur>>
     \/ /\ ~node[n].cancelled
        /\ pc' = "callback" /\ cur' = n
        /\ node' = [node EXCEPT ![n].fired = @ + 1]
  /\ UNCHANGED <<pool, current_time, current_jiffies, next_timeout>>

\* Mutant: the callback is made without looking at cancelled.
FireCancelled(n) ==
  /\ pc = "fire" /\ n \in batch
  /\ batch' = batch \ {n} /\ active_count' = active_count - 1
  /\ pc' = "callback" /\ cur' = n
  /\ node' = [node EXCEPT ![n].fired = @ + 1]
  /\ UNCHANGED <<pool, current_time, current_jiffies, next_timeout>>

\* One node of the batch: recycle it if it was deleted meanwhile, put it back if
\* it is not due yet (a segment of a long delay), else call back.
Fire(n) ==
  /\ pc = "fire" /\ n \in batch
  /\ batch' = batch \ {n}
  /\ \/ /\ node[n].cancelled
        /\ node' = [node EXCEPT ![n] = Poison] /\ active_count' = active_count - 1
        /\ UNCHANGED <<pc, cur>>
     \/ /\ ~node[n].cancelled /\ node[n].expire > current_time
        /\ node' = [node EXCEPT ![n] = Placed(@)] /\ UNCHANGED active_count
        /\ UNCHANGED <<pc, cur>>
     \/ /\ ~node[n].cancelled /\ node[n].expire <= current_time
        /\ pc' = "callback" /\ cur' = n
        /\ node' = [node EXCEPT ![n].fired = @ + 1] /\ active_count' = active_count - 1
  /\ UNCHANGED <<pool, current_time, current_jiffies, next_timeout>>

\* Mutant: a timer deleted by its own callback is forgotten instead of recycled.
CallbackReturnsLeaks ==
  /\ pc = "callback"
  /\ LET x == node[cur]
         again == ~x.cancelled /\ x.repeat > 1
     IN /\ node' = [node EXCEPT ![cur] = IF again
             THEN Placed([x EXCEPT !.repeat = @ - 1, !.expire = @ + x.interval])
             ELSE IF x.cancelled THEN x ELSE Poison]
        /\ active_count' = IF again THEN active_count + 1 ELSE active_count
  /\ pc' = "fire" /\ cur' = None
  /\ UNCHANGED <<pool, current_time, current_jiffies, batch, next_timeout>>

\* After the callback: recycle, or arm the next repetition from the last expiry.
CallbackReturns ==
  /\ pc = "callback"
  /\ LET x == node[cur]
         again == ~x.cancelled /\ x.repeat > 1
     IN /\ node' = [node EXCEPT ![cur] = IF again
             THEN Placed([x EXCEPT !.repeat = @ - 1, !.expire = @ + x.interval])
             ELSE Poison]
        /\ active_count' = IF again THEN active_count + 1 ELSE active_count
  /\ pc' = "fire" /\ cur' = None
  /\ UNCHANGED <<pool, current_time, current_jiffies, batch, next_timeout>>

BatchEnd ==
  /\ pc = "fire" /\ batch = {}
  /\ current_jiffies' = current_jiffies + 1
  /\ pc' = "advance"
  /\ UNCHANGED <<pool, current_time, node, active_count, batch, cur, next_timeout>>

\* Distances from the wheel's position to the occupied slots of level 0.
Occupied == {i \in 0..(TVR_SIZE - 1) : \E n \in Nodes :
               /\ node[n].status = "pending" /\ node[n].level = 0
               /\ node[n].slot = (current_jiffies + i) % TVR_SIZE}

PollEnd ==
  /\ pc = "advance" /\ current_jiffies >= current_time
  /\ next_timeout' = IF Occupied = {} THEN TVR_SIZE - 1
                     ELSE CHOOSE i \in Occupied : \A k \in Occupied : i <= k
  /\ pc' = "idle"
  /\ UNCHANGED <<wheel, batch, cur>>
-----------------------------------------------------------------------------
PollStep == PollBegin \/ Advance \/ BatchEnd \/ PollEnd

Next ==
  \/ PoolCreate \/ PoolDestroy
  \/ \E n \in Nodes : Delete(n) \/ Fire(n) \/ \E i \in Intervals, r \in Repeats : Create(n, i, r)
  \/ PollStep \/ CallbackReturns

Spec == Init /\ [][Next]_tvars
-----------------------------------------------------------------------------
(* Properties.                                                              *)

\* The types of the wheel, the nodes and the poll loop's position.
TimerTypeOK ==
  /\ pool \in BOOLEAN /\ current_time \in 0..MaxTime /\ current_jiffies \in 0..MaxTime
  /\ \A n \in Nodes :
       /\ node[n].status \in {"free", "pending", "running"}
       /\ node[n].level \in 0..(Levels - 1)
       /\ node[n].slot \in 0..(Size(node[n].level) - 1)
  /\ pc \in {"idle", "advance", "fire", "callback"} /\ batch \subseteq Nodes
  /\ cur \in Nodes \cup {None} /\ next_timeout \in 0..(TVR_SIZE - 1)

\* When the k-th callback of timer x is due.
Expiry(x, k) == x.base + k * x.interval

\* Between polls every timer has been called back exactly for the expiries the
\* clock has passed: none is skipped while it moves down through the levels,
\* waits in a segment of a long delay, or is repeated during a long catch-up,
\* and none comes early.  (An expiry equal to the last reading may be on either
\* side.)  A repetition of interval 0 is left out:
\* Placed puts it into the slot just emptied, one turn of level 0 away.
FiresOnTime ==
  pc = "idle" => \A n \in Nodes : LET x == node[n] IN
    x.status = "pending" /\ (x.interval > 0 \/ x.rep0 = 1) =>
      /\ x.fired + x.repeat = x.rep0
      /\ Expiry(x, x.fired + 1) >= x.seen
      /\ x.fired > 0 => Expiry(x, x.fired) <= x.seen

\* A timer that poll recycles without it having been deleted made all its
\* callbacks, the last one no earlier than its last expiry.
NoneDropped == [][\A n \in Nodes : LET x == node[n] IN
  x.status = "running" /\ ~x.cancelled /\ node'[n].status = "free" =>
    x.fired = x.rep0 /\ Expiry(x, x.fired) <= current_time]_tvars

\* A poll leaves no node locked and no deleted node behind, whatever its
\* callbacks deleted: only pending and recycled nodes exist between polls; and
\* xtimer_count is exact at any time: the timers in a slot and those of the batch
\* still to be looked at.
Reclaimed ==
  /\ pc = "idle" => batch = {} /\ \A n \in Nodes :
       \/ node[n].status = "pending" /\ ~node[n].cancelled
       \/ node[n] = Poison
  /\ pool => active_count = Cardinality({n \in Nodes : node[n].status = "pending"} \cup batch)

\* After xtimer_del a timer is not called back any more, not even one that was
\* already locked in the batch when an earlier callback deleted it.
NoCallAfterDelete == [][\A n \in Nodes :
  node[n].cancelled /\ node'[n].cancelled => node'[n].fired \in {0, node[n].fired}]_tvars

\* xtimer.h of xtimer_update: "returns ms until next expiry (0 if none / due)".
\* A thread that sleeps for the returned time is awake at the next expiry.
SleepsToNextExpiry ==
  pc = "idle" /\ pool => \A n \in Nodes :
    node[n].status = "pending" => current_jiffies + next_timeout <= node[n].expire
      \/ node[n].base = current_time

(* The inductive invariants behind Reclaimed, NoneDropped and NoCallAfterDelete. *)

\* The node whose callback runs.
Called(n) == pc = "callback" /\ cur = n

\* What poll holds: the batch, and the node it calls back.
PollInv ==
  /\ pc # "idle" => pool
  /\ pc \in {"idle", "advance"} => batch = {}
  /\ (cur # None) <=> (pc = "callback")
  /\ cur \notin batch
  /\ \A n \in Nodes :
       /\ node[n].status = "running" <=> (n \in batch \/ Called(n))
       /\ node[n].status = "pending" => pool /\ ~node[n].cancelled
       /\ node[n].status = "free" => node[n] = Poison

\* The nodes that xtimer_count counts.
CountInv == pool => active_count = Cardinality({n \in Nodes : node[n].status = "pending"} \cup batch)

\* A timer has made the calls its repetitions are short of, expires next at its
\* next expiry, and has been called back for expiries of the past only.
CallsInv ==
  \A n \in Nodes : LET x == node[n] IN
    x.status # "free" =>
      /\ x.repeat >= 1
      /\ IF Called(n)
         THEN /\ x.fired + x.repeat = x.rep0 + 1
              /\ x.expire = Expiry(x, x.fired) /\ x.expire <= current_time
         ELSE /\ x.fired + x.repeat = x.rep0
              /\ x.expire = Expiry(x, x.fired + 1)
      /\ x.fired > 0 => Expiry(x, x.fired) <= x.seen
      /\ x.seen >= current_time

(* The inductive invariant behind TimerTypeOK and FiresOnTime.               *)

\* At t the wheel comes to the slot of x: it cascades it, or locks it as a batch.
Reaches(t, x) == x.slot = Slot(t, x.level) /\ \A m \in 0..(x.level - 1) : Slot(t, m) = 0

\* The next jiffy whose slots have not been looked at.
Ahead == IF pc \in {"fire", "callback"} THEN current_jiffies + 1 ELSE current_jiffies

\* The wheel comes to every timer no later than at its expiry, also after the clock
\* has set it back; and only while a poll catches up is an expiry in the past.
TimelyInv ==
  /\ current_jiffies <= current_time
  /\ pc = "idle" => current_jiffies = current_time
  /\ pc \in {"fire", "callback"} => current_jiffies < current_time
  /\ \A n \in Nodes : LET x == node[n] IN
       x.status # "free" /\ (x.interval > 0 \/ x.rep0 = 1) =>
         /\ x.repeat <= x.rep0
         /\ x.expire >= x.seen \/ x.seen = current_time
         /\ x.expire >= current_jiffies
         /\ x.status = "pending" => \E t \in Ahead..x.expire : Reaches(t, x)
=============================================================================
