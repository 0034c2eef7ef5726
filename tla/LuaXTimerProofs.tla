-------------------------- MODULE LuaXTimerProofs --------------------------
(***************************************************************************)
(* TLAPS proofs about LuaXTimer: the Lua layer drives the wheel through    *)
(* its functions only, and its handles and references stay exact.          *)
(***************************************************************************)
EXTENDS LuaXTimer, XTimerProofs

LuaTimer == [alive : BOOLEAN, handle : Nodes \cup {None}, refs : BOOLEAN, remaining : Int,
             cut : BOOLEAN]

LuaTypeOK ==
  /\ ltimer \in [LuaTimers -> LuaTimer]
  /\ user_data \in [Nodes -> LuaTimers \cup {None}]
  /\ last_call \in BOOLEAN /\ in_lua \in BOOLEAN /\ closed \in BOOLEAN

\* What the bridge does to the userdata after the Lua function.
LEMMA Returned ==
  ASSUME LuaCallbackReturns
  PROVE  LET u == user_data[cur] IN
         ltimer' = IF last_call
                   THEN [ltimer EXCEPT ![u] = [ltimer[u] EXCEPT !.refs = FALSE,
                                                                !.cut = ltimer[u].handle # None]]
                   ELSE ltimer
<1> DEFINE u == user_data[cur]
           f == [ltimer EXCEPT ![u].refs = FALSE, ![u].cut = ltimer[u].handle # None]
           g == [ltimer EXCEPT ![u] = [ltimer[u] EXCEPT !.refs = FALSE,
                                                        !.cut = ltimer[u].handle # None]]
<1>1. ltimer' = IF last_call THEN f ELSE ltimer
  BY DEF LuaCallbackReturns
<1>2. f = g
  OBVIOUS
<1> QED
  BY <1>1, <1>2

\* Every step keeps the types.
LEMMA LuaTypeStep == WheelInv /\ LuaTypeOK /\ [LuaNext]_vars => LuaTypeOK'
<1> SUFFICES ASSUME WheelInv, LuaTypeOK, [LuaNext]_vars PROVE LuaTypeOK'
  OBVIOUS
<1> USE LuaTimerAssumption, TimerAssumption DEF LuaTypeOK, lvars
<1>0. Dead \in LuaTimer
  BY DEF Dead, LuaTimer
<1>a. \A t \in LuaTimers : ltimer[t] \in LuaTimer
  OBVIOUS
<1>1. CASE LuaPoolCreate
  BY <1>1 DEF LuaPoolCreate
<1>2. CASE LuaUninit
  BY <1>2 DEF LuaUninit
<1>3. ASSUME NEW t \in LuaTimers, LuaAdd(t) PROVE LuaTypeOK'
  <2>1. PICK n \in Nodes : \E i \in Intervals, r \in Repeats :
          /\ user_data' = [user_data EXCEPT ![n] = t]
          /\ ltimer' = [ltimer EXCEPT ![t] = [alive |-> TRUE, handle |-> n, refs |-> TRUE,
                                      remaining |-> IF r = Infinite THEN -1 ELSE r,
                                      cut |-> FALSE]]
          /\ UNCHANGED <<last_call, in_lua, closed>>
    BY <1>3 DEF LuaAdd
  <2>2. PICK r \in Repeats :
          ltimer' = [ltimer EXCEPT ![t] = [alive |-> TRUE, handle |-> n, refs |-> TRUE,
                                      remaining |-> IF r = Infinite THEN -1 ELSE r,
                                      cut |-> FALSE]]
    BY <2>1
  <2>3. [alive |-> TRUE, handle |-> n, refs |-> TRUE,
         remaining |-> IF r = Infinite THEN -1 ELSE r, cut |-> FALSE] \in LuaTimer
    BY DEF LuaTimer
  <2>4. ltimer' \in [LuaTimers -> LuaTimer]
    BY <2>2, <2>3
  <2>5. user_data' \in [Nodes -> LuaTimers \cup {None}]
    BY <2>1
  <2> QED
    BY <2>1, <2>4, <2>5
<1>4. ASSUME NEW t \in LuaTimers, LuaDel(t) \/ LuaGC(t) PROVE LuaTypeOK'
  <2> DEFINE y == [ltimer[t] EXCEPT !.handle = None, !.refs = FALSE]
  <2>1. y \in LuaTimer
    BY <1>a DEF LuaTimer
  <2>2. ltimer' = [ltimer EXCEPT ![t] = y] \/ ltimer' = [ltimer EXCEPT ![t] = Dead]
    BY <1>4 DEF LuaDel, LuaGC
  <2> HIDE DEF y
  <2>3. ltimer' \in [LuaTimers -> LuaTimer]
    BY <1>0, <2>1, <2>2
  <2>4. user_data' \in [Nodes -> LuaTimers \cup {None}] /\ UNCHANGED <<last_call, in_lua, closed>>
    BY <1>4 DEF LuaDel, LuaGC, DelHandle
  <2> QED
    BY <2>3, <2>4
<1>5. ASSUME NEW n \in Nodes, LuaFire(n) PROVE LuaTypeOK'
  <2>1. UNCHANGED <<user_data, closed>>
    BY <1>5 DEF LuaFire
  <2>2. CASE UNCHANGED <<ltimer, last_call, in_lua>>
    BY <2>1, <2>2
  <2>3. CASE user_data[n] # None /\ Bridge(user_data[n]) /\ in_lua' = ltimer[user_data[n]].refs
    <3> DEFINE t == user_data[n]
               y == [ltimer[t] EXCEPT !.remaining = IF @ > 0 THEN @ - 1 ELSE @,
                                      !.handle = IF last_call' THEN None ELSE @]
    <3>1. t \in LuaTimers
      BY <2>3
    <3>2. y \in LuaTimer
      <4> DEFINE x == ltimer[t]
                 r == IF x.remaining > 0 THEN x.remaining - 1 ELSE x.remaining
                 h == IF last_call' THEN None ELSE x.handle
      <4>1. x \in LuaTimer
        BY <1>a, <3>1
      <4>2. r \in Int /\ h \in Nodes \cup {None}
        BY <4>1 DEF LuaTimer
      <4>3. y = [x EXCEPT !.remaining = r, !.handle = h]
        OBVIOUS
      <4> HIDE DEF x, r, h
      <4> DEFINE z == [x EXCEPT !.remaining = r]
      <4>4. z \in LuaTimer
        BY <4>1, <4>2 DEF LuaTimer
      <4>5. y = [z EXCEPT !.handle = h]
        BY <4>1, <4>3 DEF LuaTimer
      <4> HIDE DEF z, y
      <4> QED
        BY <4>2, <4>4, <4>5 DEF LuaTimer
    <3>3. ltimer' = [ltimer EXCEPT ![t] = y] /\ last_call' \in BOOLEAN
      BY <2>3 DEF Bridge
    <3>4. in_lua' \in BOOLEAN
      <4>1. ltimer[t].refs \in BOOLEAN
        BY <1>a, <3>1 DEF LuaTimer
      <4> QED
        BY Zenon, <2>3, <4>1 DEF t
    <3> HIDE DEF y, t
    <3> QED
      BY <2>1, <3>1, <3>2, <3>3, <3>4
  <2> QED
    BY <1>5, <2>2, <2>3 DEF LuaFire
<1>6. CASE LuaCallbackReturns
  <2>1. \A t \in LuaTimers, c \in BOOLEAN : [ltimer[t] EXCEPT !.refs = FALSE, !.cut = c] \in LuaTimer
    BY <1>a DEF LuaTimer
  <2>3. ltimer' \in [LuaTimers -> LuaTimer]
    <3> DEFINE t == user_data[cur]
               c == ltimer[t].handle # None
               y == [ltimer[t] EXCEPT !.refs = FALSE, !.cut = c]
    <3>1. ltimer' = ltimer \/ ltimer' = [ltimer EXCEPT ![t] = y]
      BY <1>6, Returned
    <3>2. t \in LuaTimers => y \in LuaTimer
      BY <2>1
    <3> HIDE DEF t, y
    <3> QED
      BY <3>1, <3>2
  <2>4. user_data' = [user_data EXCEPT ![cur] = IF node'[cur].status = "free" THEN None ELSE @]
    BY <1>6 DEF LuaCallbackReturns
  <2>5. cur \in Nodes
    BY <1>6 DEF LuaCallbackReturns, CallbackReturns, WheelInv, PollInv, WheelTypeOK
  <2>6. user_data' \in [Nodes -> LuaTimers \cup {None}]
    BY <2>4, <2>5
  <2>7. last_call' \in BOOLEAN /\ in_lua' \in BOOLEAN /\ UNCHANGED closed
    BY <1>6, Zenon DEF LuaCallbackReturns
  <2> QED
    BY <2>3, <2>6, <2>7
<1>7. CASE PollStep /\ UNCHANGED lvars
  BY <1>7
<1>8. CASE UNCHANGED vars
  BY <1>8 DEF vars
<1> QED
  BY <1>1, <1>2, <1>3, <1>4, <1>5, <1>6, <1>7, <1>8 DEF LuaNext

\* Lua timers drive the wheel through xtimer.h: every step of the layer is a step
\* of the wheel or none.
LEMMA LuaStepIsStep == LuaTypeOK /\ [LuaNext]_vars => [Next]_tvars
<1> SUFFICES ASSUME LuaTypeOK, [LuaNext]_vars PROVE [Next]_tvars
  OBVIOUS
<1>1. CASE LuaPoolCreate \/ LuaUninit \/ LuaCallbackReturns
  BY <1>1 DEF LuaPoolCreate, LuaUninit, LuaCallbackReturns, Next
<1>2. ASSUME NEW t \in LuaTimers, LuaAdd(t) PROVE [Next]_tvars
  BY <1>2 DEF LuaAdd, Next
<1>3. ASSUME NEW t \in LuaTimers, LuaDel(t) \/ LuaGC(t) PROVE [Next]_tvars
  <2>1. ltimer[t].handle \in Nodes \cup {None}
    BY DEF LuaTypeOK, LuaTimer
  <2>2. DelHandle(ltimer[t].handle)
    BY <1>3 DEF LuaDel, LuaGC
  <2> QED
    BY <2>1, <2>2 DEF DelHandle, Next
<1>4. ASSUME NEW n \in Nodes, LuaFire(n) PROVE [Next]_tvars
  BY <1>4 DEF LuaFire, Next
<1>5. CASE PollStep /\ UNCHANGED lvars
  BY <1>5 DEF Next
<1>6. CASE UNCHANGED vars
  BY <1>6 DEF vars
<1> QED
  BY <1>1, <1>2, <1>3, <1>4, <1>5, <1>6 DEF LuaNext

LEMMA LuaTypeInit == LuaInit => LuaTypeOK
<1> SUFFICES ASSUME LuaInit PROVE LuaTypeOK
  OBVIOUS
<1>1. Dead \in LuaTimer
  BY DEF Dead, LuaTimer
<1>2. ltimer \in [LuaTimers -> LuaTimer] /\ user_data \in [Nodes -> LuaTimers \cup {None}]
  BY <1>1 DEF LuaInit
<1>3. last_call \in BOOLEAN /\ in_lua \in BOOLEAN /\ closed \in BOOLEAN
  BY Zenon DEF LuaInit
<1> QED
  BY <1>2, <1>3 DEF LuaTypeOK

\* The invariants of the wheel hold under the Lua layer.
THEOREM LuaWheelInvariant == LuaSpec => [](WheelInv /\ LuaTypeOK)
<1>1. LuaInit => WheelInv /\ LuaTypeOK
  BY WheelInit, LuaTypeInit DEF LuaInit
<1>2. WheelInv /\ LuaTypeOK /\ [LuaNext]_vars => WheelInv' /\ LuaTypeOK'
  BY LuaTypeStep, LuaStepIsStep, WheelStep
<1> QED
  BY <1>1, <1>2, PTL DEF LuaSpec

\* lua_xtimer.c on the wheel is a client of xtimer.c: it makes timer calls of
\* xtimer.h and lets the poll run, nothing else.
THEOREM LuaDrivesWheel == LuaSpec => Spec
<1>1. LuaInit => Init
  BY DEF LuaInit
<1> QED
  BY <1>1, LuaStepIsStep, LuaWheelInvariant, PTL DEF LuaSpec, Spec

\* Under the Lua layer, too, a poll leaves no node locked and none deleted behind.
THEOREM LuaReclaimed ==
  ASSUME IsFiniteSet(Nodes)
  PROVE  LuaSpec => []Reclaimed
  BY LuaDrivesWheel, TimerReclaimed, PTL

\* A timer that a script deleted is not called back any more.
THEOREM LuaNoCallAfterDelete == LuaSpec => NoCallAfterDelete
  BY LuaDrivesWheel, TimerNoCallAfterDelete, PTL

\* The wheel keeps its types whatever scripts do with their timers.
THEOREM LuaTimerTypeCorrect == LuaSpec => []TimerTypeOK
  BY LuaDrivesWheel, TimerTypeCorrect, PTL

\* The timers of scripts are called back for the expiries the clock has passed and
\* no others.
THEOREM LuaFiresOnTime == LuaSpec => []FiresOnTime
  BY LuaDrivesWheel, TimerFiresOnTime, PTL
-----------------------------------------------------------------------------
(* The invariant of the handles.                                            *)

\* A handle stays good while neither its node nor its userdata changes.
LEMMA HoldsSame ==
  ASSUME NEW t, NEW n, Holds(t, n),
         node'[n].status = "free" => node[n].status = "free",
         node'[n].cancelled = node[n].cancelled,
         node'[n].repeat = node[n].repeat, node'[n].rep0 = node[n].rep0,
         user_data'[n] = user_data[n], ltimer'[t] = ltimer[t], Called(n)' <=> Called(n)
  PROVE  Holds(t, n)'
  BY DEF Holds

\* Without a pool nothing is armed, nor called back.
LEMMA NothingArmed ==
  ASSUME WheelInv, ~pool, NEW n \in Nodes
  PROVE  ~Armed(n) /\ ~Called(n)
<1>1. pc = "idle" /\ batch = {}
  BY DEF WheelInv, PollInv, WheelTypeOK
<1> QED
  BY <1>1 DEF WheelInv, PollInv, Armed, Called

\* xtimer_create_lua gives a fresh userdata the node it took from the freelist.
LEMMA LuaAddKeeps ==
  ASSUME WheelInv, LuaTypeOK, LuaInv, NEW t \in LuaTimers, LuaAdd(t)
  PROVE  LuaInv'
<1> USE LuaTimerAssumption, TimerAssumption
<1>1. PICK n \in Nodes : \E i \in Intervals, r \in Repeats :
        /\ Create(n, i, r)
        /\ user_data' = [user_data EXCEPT ![n] = t]
        /\ ltimer' = [ltimer EXCEPT ![t] = [alive |-> TRUE, handle |-> n, refs |-> TRUE,
                                    remaining |-> IF r = Infinite THEN -1 ELSE r,
                                    cut |-> FALSE]]
  BY DEF LuaAdd
<1>2. PICK i \in Intervals : \E r \in Repeats :
        /\ Create(n, i, r)
        /\ ltimer' = [ltimer EXCEPT ![t] = [alive |-> TRUE, handle |-> n, refs |-> TRUE,
                                    remaining |-> IF r = Infinite THEN -1 ELSE r,
                                    cut |-> FALSE]]
  BY <1>1
<1>3. PICK r \in Repeats :
        /\ Create(n, i, r)
        /\ ltimer' = [ltimer EXCEPT ![t] = [alive |-> TRUE, handle |-> n, refs |-> TRUE,
                                    remaining |-> IF r = Infinite THEN -1 ELSE r,
                                    cut |-> FALSE]]
  BY <1>2
<1>4. ~ltimer[t].alive /\ ltimer[t].handle = None /\ UNCHANGED <<last_call, closed>>
  <2>1. ~ltimer[t].alive /\ UNCHANGED <<last_call, closed>>
    BY DEF LuaAdd
  <2>2. ltimer[t] = Dead
    BY <2>1 DEF LuaInv, PinInv
  <2> QED
    BY <2>1, <2>2 DEF Dead
<1>5. /\ \A m \in Nodes \ {n} : node'[m] = node[m]
      /\ node[n].status = "free" /\ node'[n].status = "pending" /\ ~node'[n].cancelled
      /\ node'[n].repeat = r /\ node'[n].rep0 = r
  BY <1>3, CreateFacts DEF WheelInv, OthersSame
<1>6. pool /\ UNCHANGED <<pool, pc, batch, cur>>
  BY <1>3 DEF Create, CanCall, poll
<1>7. /\ ltimer'[t].alive /\ ltimer'[t].handle = n /\ ltimer'[t].refs
      /\ ~ltimer'[t].cut /\ ltimer'[t].remaining = IF r = Infinite THEN -1 ELSE r
      /\ user_data'[n] = t
      /\ \A u \in LuaTimers \ {t} : ltimer'[u] = ltimer[u]
      /\ \A m \in Nodes \ {n} : user_data'[m] = user_data[m]
  BY <1>1, <1>3 DEF LuaTypeOK
<1>8. \A m \in Nodes : Called(m)' <=> Called(m)
  BY <1>6 DEF Called
<1>9. n # cur /\ ~Called(n) /\ n \notin batch
  <2>1. \A m \in Nodes : node[m].status = "running" <=> (m \in batch \/ Called(m))
    BY DEF WheelInv, PollInv
  <2>2. cur \in Nodes => Called(cur)
    BY DEF WheelInv, PollInv, Called
  <2> QED
    BY <1>5, <2>1, <2>2
<1>10. HandleInv'
  <2>1. Holds(t, n)'
    <3>1. r \in Nat \ {0}
      OBVIOUS
    <3> QED
      BY <1>5, <1>7, <1>8, <1>9, <3>1 DEF Holds
  <2>2. ASSUME NEW u \in LuaTimers \ {t}, ltimer[u].handle # None
        PROVE  Holds(u, ltimer[u].handle)'
    <3> DEFINE m == ltimer[u].handle
    <3>1. Holds(u, m)
      BY <1>6, <2>2 DEF LuaInv, HandleInv
    <3>2. m \in Nodes \ {n}
      BY <1>5, <3>1 DEF Holds
    <3> QED
      BY <1>5, <1>7, <1>8, <2>2, <3>1, <3>2, HoldsSame
  <2> QED
    BY <1>7, <2>1, <2>2 DEF HandleInv
<1>11. OwnerInv'
  <2> SUFFICES ASSUME NEW m \in Nodes,
                      Armed(m)' \/ (Called(m)' /\ ~last_call' /\ ~node'[m].cancelled)
               PROVE  user_data'[m] \in LuaTimers /\ ltimer'[user_data'[m]].handle = m
    BY DEF OwnerInv
  <2>1. CASE m = n
    BY <1>7, <2>1
  <2>2. CASE m # n
    <3>1. Armed(m) \/ (Called(m) /\ ~last_call /\ ~node[m].cancelled)
      BY <1>4, <1>5, <1>6, <1>8, <2>2 DEF Armed
    <3>2. user_data[m] \in LuaTimers /\ ltimer[user_data[m]].handle = m
      BY <3>1 DEF LuaInv, OwnerInv
    <3>3. user_data[m] # t
      BY <1>4, <3>2
    <3> QED
      BY <1>7, <2>2, <3>2, <3>3
  <2> QED
    BY <2>1, <2>2
<1>12. LastCallInv'
  <2> SUFFICES ASSUME last_call PROVE LastCallInv'
    BY <1>4 DEF LastCallInv
  <2>1. LastCallInv
    BY DEF LuaInv
  <2>2. cur \in Nodes \ {n}
    BY <1>9, <2>1 DEF LastCallInv, WheelInv, WheelTypeOK, PollInv
  <2>3. ltimer'[user_data[cur]].handle # cur
    BY <1>7, <1>9, <2>1 DEF LastCallInv
  <2> QED
    BY <1>5, <1>6, <1>7, <2>1, <2>2, <2>3 DEF LastCallInv
<1>13. PinInv'
  <2>1. \A u \in LuaTimers :
          ltimer'[u].refs /\ ltimer'[u].handle = None => last_call /\ user_data'[cur] = u
    <3> SUFFICES ASSUME NEW u \in LuaTimers, ltimer'[u].refs, ltimer'[u].handle = None
                 PROVE  last_call /\ user_data'[cur] = u
      OBVIOUS
    <3>1. u # t
      BY <1>7
    <3>2. last_call /\ user_data[cur] = u
      BY <1>6, <1>7, <3>1 DEF LuaInv, PinInv
    <3>3. cur \in Nodes \ {n}
      BY <1>9, <3>2 DEF LuaInv, LastCallInv, WheelInv, WheelTypeOK, PollInv
    <3> QED
      BY <1>7, <3>2, <3>3
  <2>2. \A u \in LuaTimers : ~ltimer'[u].alive => ltimer'[u] = Dead
    BY <1>7 DEF LuaInv, PinInv
  <2>3. ~Reinit /\ closed' => ~pool'
    BY <1>4, <1>6 DEF LuaInv, PinInv
  <2> QED
    BY <1>4, <1>6, <2>1, <2>2, <2>3 DEF PinInv
<1> QED
  BY <1>10, <1>11, <1>12, <1>13 DEF LuaInv

\* l_timer_del and l_timer_gc: the node goes, and the userdata lets go of it.
LEMMA LuaDropKeeps ==
  ASSUME WheelInv, LuaTypeOK, LuaInv, NEW t \in LuaTimers, LuaDel(t) \/ LuaGC(t)
  PROVE  LuaInv'
<1> USE LuaTimerAssumption, TimerAssumption
<1> DEFINE h == ltimer[t].handle
<1>1. /\ ltimer[t].alive /\ DelHandle(h) /\ UNCHANGED <<last_call, closed>>
  BY DEF LuaDel, LuaGC
<1>2. /\ ltimer'[t].handle = None /\ ~ltimer'[t].refs
      /\ ~ltimer'[t].alive => ltimer'[t] = Dead
      /\ \A u \in LuaTimers \ {t} : ltimer'[u] = ltimer[u]
  <2>1. ltimer[t] \in LuaTimer
    BY DEF LuaTypeOK
  <2>2. CASE LuaDel(t)
    <3>1. ltimer' = [ltimer EXCEPT ![t].handle = None, ![t].refs = FALSE]
      BY <2>2 DEF LuaDel
    <3>2. /\ ltimer'[t].handle = None /\ ~ltimer'[t].refs /\ ltimer'[t].alive = ltimer[t].alive
          /\ \A u \in LuaTimers \ {t} : ltimer'[u] = ltimer[u]
      BY <2>1, <3>1 DEF LuaTypeOK, LuaTimer
    <3> QED
      BY <1>1, <3>2
  <2>3. CASE LuaGC(t)
    <3>1. ltimer' = [ltimer EXCEPT ![t] = Dead]
      BY <2>3 DEF LuaGC
    <3> QED
      BY <3>1 DEF LuaTypeOK, Dead
  <2> QED
    BY <2>2, <2>3
<1>3. UNCHANGED <<pool, pc, batch, cur>>
  BY <1>1 DEF DelHandle, Delete, tvars, wheel, poll
<1>4. \A m \in Nodes : Called(m)' <=> Called(m)
  BY <1>3 DEF Called
<1>5. \A m \in Nodes : m # h => node'[m] = node[m] /\ user_data'[m] = user_data[m]
  <2>1. CASE UNCHANGED <<tvars, user_data>>
    BY <2>1 DEF tvars, wheel
  <2>2. CASE h # None /\ Delete(h) /\ user_data' = [user_data EXCEPT ![h] = None]
    <3>1. h \in Nodes
      BY <2>2 DEF LuaTypeOK, LuaTimer
    <3>2. OthersSame(h)
      BY <2>2, <3>1, DeleteFacts DEF WheelInv
    <3> QED
      BY <2>2, <3>1, <3>2 DEF LuaTypeOK, OthersSame
  <2> QED
    BY <1>1, <2>1, <2>2 DEF DelHandle
<1>6. \* with a pool the handle was good, and its node is recycled or marked
      pool /\ h # None => Holds(t, h) /\ node'[h].cancelled
  <2> SUFFICES ASSUME pool, h # None PROVE Holds(t, h) /\ node'[h].cancelled
    OBVIOUS
  <2>1. Holds(t, h)
    BY DEF LuaInv, HandleInv
  <2>2. h \in Nodes /\ Delete(h)
    BY <1>1, <2>1 DEF Holds, DelHandle
  <2>3. node'[h] = Poison \/ node'[h].cancelled
    BY <2>2, DeleteFacts DEF WheelInv
  <2>4. Poison.cancelled
    BY DEF Poison
  <2> QED
    BY <2>1, <2>3, <2>4
<1> HIDE DEF h
<1>7. \A u \in LuaTimers \ {t} : pool /\ ltimer[u].handle # None =>
        /\ Holds(u, ltimer[u].handle) /\ ltimer[u].handle # h
  BY <1>6 DEF LuaInv, HandleInv, Holds
<1>8. HandleInv'
  <2>0. ASSUME pool, NEW u \in LuaTimers, NEW n, n = ltimer'[u].handle, n # None
        PROVE  Holds(u, n)'
    <3>1. u # t /\ ltimer'[u] = ltimer[u]
      BY <1>2, <2>0
    <3>2. Holds(u, n) /\ n # h
      BY <1>7, <2>0, <3>1
    <3>3. n \in Nodes
      BY <3>2 DEF Holds
    <3> QED
      BY <1>4, <1>5, <3>1, <3>2, <3>3, HoldsSame
  <2> QED
    BY <1>3, <2>0 DEF HandleInv
<1>9. OwnerInv'
  <2> SUFFICES ASSUME NEW m \in Nodes,
                      Armed(m)' \/ (Called(m)' /\ ~last_call' /\ ~node'[m].cancelled)
               PROVE  user_data'[m] \in LuaTimers /\ ltimer'[user_data'[m]].handle = m
    BY DEF OwnerInv
  <2>1. CASE m = h /\ pool
    <3>1. h # None
      BY <2>1
    <3> QED
      BY <1>6, <2>1, <3>1 DEF Armed
  <2>2. CASE m # h
    <3>1. Armed(m) \/ (Called(m) /\ ~last_call /\ ~node[m].cancelled)
      BY <1>1, <1>3, <1>4, <1>5, <2>2 DEF Armed
    <3>2. user_data[m] \in LuaTimers /\ ltimer[user_data[m]].handle = m
      BY <3>1 DEF LuaInv, OwnerInv
    <3>3. user_data[m] # t
      BY <2>2, <3>2 DEF h
    <3> QED
      BY <1>2, <1>5, <2>2, <3>2, <3>3
  <2>3. CASE ~pool
    <3>1. UNCHANGED <<tvars, user_data>>
      BY <1>1, <2>3 DEF DelHandle
    <3>2. ~Armed(m) /\ ~Called(m)
      BY <2>3, NothingArmed
    <3> QED
      BY <1>4, <3>1, <3>2 DEF Armed, tvars, wheel, poll
  <2> QED
    BY <2>1, <2>2, <2>3
<1>10. LastCallInv'
  <2> SUFFICES ASSUME last_call PROVE LastCallInv'
    BY <1>1 DEF LastCallInv
  <2>1. LastCallInv
    BY DEF LuaInv
  <2>2. cur \in Nodes /\ pool
    BY <2>1 DEF LastCallInv, WheelInv, WheelTypeOK, PollInv
  <2>3. cur # h
    <3> SUFFICES ASSUME cur = h PROVE FALSE
      OBVIOUS
    <3>1. Holds(t, h)
      BY <1>6, <2>2
    <3>2. user_data[cur] = t
      BY <3>1 DEF Holds
    <3> QED
      BY <2>1, <2>2, <3>2 DEF LastCallInv, h
  <2>4. ltimer'[user_data[cur]].handle # cur
    BY <1>2, <2>1, <2>2 DEF LastCallInv
  <2> QED
    BY <1>3, <1>5, <2>1, <2>2, <2>3, <2>4 DEF LastCallInv
<1>11. PinInv'
  <2>1. ASSUME pool', NEW u \in LuaTimers, ltimer'[u].refs, ltimer'[u].handle = None
        PROVE  last_call' /\ user_data'[cur'] = u
    <3>1. u # t /\ ltimer'[u] = ltimer[u]
      BY <1>2, <2>1
    <3>2. last_call /\ user_data[cur] = u
      BY <1>3, <2>1, <3>1 DEF LuaInv, PinInv
    <3>3. cur \in Nodes
      BY <3>2 DEF LuaInv, LastCallInv, WheelInv, WheelTypeOK, PollInv
    <3>4. cur # h
      <4> SUFFICES ASSUME cur = h PROVE FALSE
        OBVIOUS
      <4>1. Holds(t, h)
        BY <1>3, <1>6, <2>1, <3>3
      <4> QED
        BY <3>1, <3>2, <4>1 DEF Holds
    <3> QED
      BY <1>1, <1>3, <1>5, <3>2, <3>3, <3>4
  <2>2. \A u \in LuaTimers : ~ltimer'[u].alive => ltimer'[u] = Dead
    BY <1>2 DEF LuaInv, PinInv
  <2>3. ~Reinit /\ closed' => ~pool'
    BY <1>1, <1>3 DEF LuaInv, PinInv
  <2>4. pool \/ closed
    BY <1>1 DEF LuaInv, PinInv, Dead
  <2> QED
    BY <1>1, <1>3, <2>1, <2>2, <2>3, <2>4 DEF PinInv
<1> QED
  BY <1>8, <1>9, <1>10, <1>11 DEF LuaInv

\* timer_callback_bridge: the userdata counts the call, and gives its handle up
\* before the last one.
LEMMA LuaFireKeeps ==
  ASSUME WheelInv, LuaTypeOK, LuaInv, NEW n \in Nodes, LuaFire(n)
  PROVE  LuaInv'
<1> USE LuaTimerAssumption, TimerAssumption
<1>1. /\ \A m \in Nodes \ {n} : node'[m] = node[m]
      /\ n \in batch /\ batch' = batch \ {n} /\ pc = "fire"
      /\ UNCHANGED <<pool, user_data, closed>>
  BY FireFacts DEF LuaFire, Fire, OthersSame, WheelInv
<1>2. /\ \A m \in Nodes : ~Called(m)
      /\ ~last_call /\ pool /\ node[n].status = "running"
      /\ cur = None
  <2>1. /\ \A m \in Nodes : ~Called(m)
        /\ ~last_call
    BY <1>1 DEF Called, LuaInv, LastCallInv
  <2> QED
    BY <1>1, <2>1 DEF WheelInv, PollInv
<1>3. node[n] \in TimerNode
  BY DEF WheelInv, WheelTypeOK
<1>4. CASE ~(pc' = "callback")
  <2>1. UNCHANGED <<ltimer, last_call>>
    BY <1>4 DEF LuaFire
  <2>2. /\ UNCHANGED <<pc, cur>>
        /\ \/ node[n].cancelled /\ node'[n].cancelled
           \/ ~node[n].cancelled /\ node'[n].status = "pending" /\ SameTimer(node'[n], node[n])
    <3>1. Poison.cancelled
      BY DEF Poison
    <3>2. CASE node[n].cancelled /\ node'[n] = Poison /\ UNCHANGED <<pc, cur>>
      BY <3>1, <3>2
    <3>3. CASE /\ ~node[n].cancelled /\ UNCHANGED <<pc, cur>>
               /\ node'[n].status = "pending" /\ SameTimer(node'[n], node[n])
      BY <3>3
    <3> QED
      BY <1>4, <3>2, <3>3, FireFacts DEF LuaFire, WheelInv
  <2>3. \A m \in Nodes : ~Called(m)'
    BY <1>1, <2>2 DEF Called
  <2>4. HandleInv'
    <3>1. ASSUME NEW u \in LuaTimers, NEW m, m = ltimer[u].handle, m # None
          PROVE  Holds(u, m)'
      <4>1. Holds(u, m) /\ m \in Nodes
        BY <1>2, <3>1 DEF LuaInv, HandleInv, Holds
      <4>2. CASE m = n
        <5>1. node'[n].status = "pending" /\ SameTimer(node'[n], node[n])
          BY <2>2, <4>1, <4>2 DEF Holds
        <5> QED
          BY <1>1, <1>2, <2>1, <2>3, <4>1, <4>2, <5>1, HoldsSame DEF SameTimer
      <4>3. CASE m # n
        BY <1>1, <1>2, <2>1, <2>3, <4>1, <4>3, HoldsSame
      <4> QED
        BY <4>2, <4>3
    <3> QED
      BY <2>1, <3>1 DEF HandleInv
  <2>5. OwnerInv'
    <3> SUFFICES ASSUME NEW m \in Nodes, Armed(m)'
                 PROVE  user_data[m] \in LuaTimers /\ ltimer[user_data[m]].handle = m
      BY <1>1, <2>1, <2>3 DEF OwnerInv
    <3>1. Armed(m)
      BY <1>1, <2>2 DEF Armed, SameTimer
    <3> QED
      BY <3>1 DEF LuaInv, OwnerInv
  <2>6. LastCallInv'
    BY <1>2, <2>1 DEF LastCallInv
  <2>7. PinInv'
    BY <1>1, <1>2, <2>1, <2>2 DEF LuaInv, PinInv
  <2> QED
    BY <2>4, <2>5, <2>6, <2>7 DEF LuaInv
<1>5. CASE pc' = "callback"
  <2> DEFINE t == user_data[n]
             x == ltimer[t]
  <2>1. /\ ~node[n].cancelled /\ cur' = n
        /\ node'[n].status = node[n].status
        /\ node'[n].fired = node[n].fired + 1
        /\ SameTimer([node'[n] EXCEPT !.fired = node[n].fired], node[n])
    BY <1>1, <1>5, FireFacts DEF LuaFire, WheelInv
  <2>2. t \in LuaTimers /\ x.handle = n
    BY <1>1, <2>1 DEF LuaInv, OwnerInv, Armed
  <2>3. Holds(t, n)
    BY <1>2, <2>2 DEF LuaInv, HandleInv
  <2>4. Bridge(t)
    BY <1>5, <2>2 DEF LuaFire
  <2>5. /\ node'[n].cancelled = node[n].cancelled /\ node'[n].repeat = node[n].repeat
        /\ node'[n].rep0 = node[n].rep0
    <3>1. node'[n] \in TimerNode
      BY LuaStepIsStep, WheelTypeStep DEF WheelInv, WheelTypeOK, LuaFire, Next
    <3> QED
      BY <2>1, <3>1 DEF SameTimer, TimerNode
  <2>6. /\ x \in LuaTimer
        /\ x.remaining \in Int /\ node[n].repeat \in Nat
    BY <1>3, <2>2 DEF LuaTypeOK, LuaTimer, TimerNode
  <2>7. /\ last_call' <=> x.remaining = 1
        /\ ltimer'[t].remaining = IF x.remaining > 0 THEN x.remaining - 1 ELSE x.remaining
        /\ ltimer'[t].handle = IF last_call' THEN None ELSE x.handle
        /\ ltimer'[t].alive = x.alive /\ ltimer'[t].refs = x.refs /\ ltimer'[t].cut = x.cut
        /\ \A u \in LuaTimers \ {t} : ltimer'[u] = ltimer[u]
    BY <2>2, <2>4, <2>6 DEF Bridge, LuaTypeOK, LuaTimer
  <2>8. \A m \in Nodes : Called(m)' <=> m = n
    BY <1>5, <2>1 DEF Called
  <2>9. /\ x.alive /\ (x.refs <=> ~x.cut)
        /\ \/ x.remaining = -1 /\ node[n].rep0 = Infinite
           \/ x.remaining >= 1 /\ x.remaining = node[n].repeat
    BY <1>2, <2>2, <2>3 DEF Holds
  <2> HIDE DEF t, x
  <2>10. HandleInv'
    <3>1. ASSUME NEW u \in LuaTimers, NEW m, m = ltimer'[u].handle, m # None
          PROVE  Holds(u, m)'
      <4>1. CASE u = t
        <5>1. m = n /\ ~last_call'
          BY <2>2, <2>7, <3>1, <4>1
        <5>2. \/ ltimer'[t].remaining = -1 /\ node'[n].rep0 = Infinite
              \/ ltimer'[t].remaining >= 1 /\ ltimer'[t].remaining = node'[n].repeat - 1
          BY <2>5, <2>6, <2>7, <2>9, <5>1
        <5>3. node'[n].status # "free" /\ ~node'[n].cancelled /\ user_data'[n] = t
          BY <1>1, <1>2, <2>1, <2>5 DEF t
        <5> QED
          BY <2>7, <2>8, <2>9, <4>1, <5>1, <5>2, <5>3 DEF Holds
      <4>2. CASE u # t
        <5>1. Holds(u, m) /\ m \in Nodes /\ m # n
          <6>1. Holds(u, m)
            BY <1>2, <2>7, <3>1, <4>2 DEF LuaInv, HandleInv
          <6> QED
            BY <4>2, <6>1 DEF Holds, t
        <5> QED
          BY <1>1, <1>2, <2>7, <2>8, <4>2, <5>1, HoldsSame
      <4> QED
        BY <4>1, <4>2
    <3> QED
      BY <3>1 DEF HandleInv
  <2>11. OwnerInv'
    <3> SUFFICES ASSUME NEW m \in Nodes,
                        Armed(m)' \/ (Called(m)' /\ ~last_call' /\ ~node'[m].cancelled)
                 PROVE  user_data'[m] \in LuaTimers /\ ltimer'[user_data'[m]].handle = m
      BY DEF OwnerInv
    <3>1. CASE m = n
      <4>1. ~Armed(n)'
        BY <1>1, <1>2, <2>1 DEF Armed
      <4>2. ~last_call'
        BY <3>1, <4>1
      <4> QED
        BY <1>1, <2>2, <2>7, <3>1, <4>2 DEF t
    <3>2. CASE m # n
      <4>1. Armed(m)
        BY <1>1, <2>8, <3>2 DEF Armed
      <4>2. user_data[m] \in LuaTimers /\ ltimer[user_data[m]].handle = m
        BY <4>1 DEF LuaInv, OwnerInv
      <4>3. user_data[m] # t
        BY <2>2, <3>2, <4>2 DEF x
      <4> QED
        BY <1>1, <2>7, <4>2, <4>3
    <3> QED
      BY <3>1, <3>2
  <2>12. LastCallInv'
    <3> SUFFICES ASSUME last_call' PROVE LastCallInv'
      BY DEF LastCallInv
    <3>1. node'[n].repeat = 1
      BY <2>5, <2>7, <2>9
    <3>2. ltimer'[t].handle # n
      BY <2>7
    <3> QED
      BY <1>1, <1>5, <2>1, <2>2, <2>5, <3>1, <3>2 DEF LastCallInv, t
  <2>13. PinInv'
    <3>1. ASSUME NEW u \in LuaTimers, ltimer'[u].refs, ltimer'[u].handle = None
          PROVE  last_call' /\ user_data'[cur'] = u
      <4>1. CASE u = t
        <5>1. last_call'
          BY <2>2, <2>7, <3>1, <4>1
        <5> QED
          BY <1>1, <2>1, <4>1, <5>1 DEF t
      <4>2. CASE u # t
        BY <1>2, <2>7, <3>1, <4>2 DEF LuaInv, PinInv
      <4> QED
        BY <4>1, <4>2
    <3>2. \A u \in LuaTimers : ~ltimer'[u].alive => ltimer'[u] = Dead
      BY <2>7, <2>9 DEF LuaInv, PinInv
    <3>3. ~Reinit /\ closed' => ~pool'
      BY <1>1 DEF LuaInv, PinInv
    <3> QED
      BY <1>1, <1>2, <3>1, <3>2, <3>3 DEF PinInv
  <2> QED
    BY <2>10, <2>11, <2>12, <2>13 DEF LuaInv
<1> QED
  BY <1>4, <1>5

\* After the Lua function: the last call drops the references with the node, or
\* those of the timer that took its userdata's place; any
\* other leaves the timer armed, unless it was deleted or an infinite timer has
\* used up the calls that xtimer_add gave it.
LEMMA LuaReturnKeeps ==
  ASSUME WheelInv, LuaTypeOK, LuaInv, NotWornOut, LuaCallbackReturns
  PROVE  LuaInv'
<1> USE LuaTimerAssumption, TimerAssumption
<1>1. cur \in Nodes /\ pc = "callback" /\ Called(cur) /\ node[cur].status = "running" /\ cur \notin batch
  BY DEF LuaCallbackReturns, CallbackReturns, WheelInv, PollInv, WheelTypeOK, Called
<1>2. /\ \A m \in Nodes \ {cur} : node'[m] = node[m]
      /\ pc' = "fire" /\ cur' = None /\ UNCHANGED <<pool, batch, closed>> /\ ~last_call'
      /\ \A m \in Nodes : ~Called(m)'
  BY <1>1, ReturnFacts DEF LuaCallbackReturns, WheelInv, OthersSame, Called
<1>3. /\ \A m \in Nodes \ {cur} : user_data'[m] = user_data[m]
      /\ user_data'[cur] = IF node'[cur].status = "free" THEN None ELSE user_data[cur]
  BY <1>1 DEF LuaCallbackReturns, LuaTypeOK
<1> DEFINE x == node[cur]
           u == user_data[cur]
<1>4. /\ x \in TimerNode /\ x.repeat \in Nat /\ x.rep0 \in Nat /\ x.fired \in Nat
  BY <1>1 DEF WheelInv, WheelTypeOK, TimerNode
<1>5. IF ~x.cancelled /\ x.repeat > 1
      THEN /\ node'[cur].status = "pending" /\ ~node'[cur].cancelled
           /\ node'[cur].repeat = x.repeat - 1 /\ node'[cur].rep0 = x.rep0
      ELSE node'[cur].status = "free" /\ node'[cur].cancelled
  <2>1. Poison.status = "free" /\ Poison.cancelled
    BY DEF Poison
  <2> QED
    BY <1>1, <2>1, ReturnFacts DEF LuaCallbackReturns, WheelInv
<1>6. \* the timer stays armed exactly if it was not deleted and made not its last call
      ~x.cancelled /\ ~last_call => x.repeat > 1 /\ u \in LuaTimers /\ ltimer[u].handle = cur
  <2> SUFFICES ASSUME ~x.cancelled, ~last_call
               PROVE  x.repeat > 1 /\ u \in LuaTimers /\ ltimer[u].handle = cur
    OBVIOUS
  <2>1. u \in LuaTimers /\ ltimer[u].handle = cur
    BY <1>1 DEF LuaInv, OwnerInv
  <2>2. Holds(u, cur)
    BY <1>1, <2>1 DEF LuaInv, HandleInv, WheelInv, PollInv
  <2>3. CASE ltimer[u].remaining >= 1 /\ ltimer[u].remaining = x.repeat - 1
    BY <1>4, <2>1, <2>3
  <2>4. CASE x.rep0 = Infinite
    <3>1. Calls(x, TRUE, current_time)
      BY <1>1 DEF WheelInv, CallsInv, Calls
    <3>2. x.fired < Infinite /\ x.fired + x.repeat = x.rep0 + 1
      BY <1>1, <2>4, <3>1 DEF NotWornOut, Calls
    <3> QED
      BY <1>4, <2>1, <2>4, <3>2
  <2> QED
    BY <1>1, <2>2, <2>3, <2>4 DEF Holds
<1>7. last_call => /\ ~x.cancelled /\ x.repeat = 1 /\ u \in LuaTimers
                   /\ ltimer[u].handle # cur
  BY DEF LuaInv, LastCallInv
<1>8. /\ \A t \in LuaTimers : /\ ltimer'[t].handle = ltimer[t].handle
                              /\ ltimer'[t].alive = ltimer[t].alive
                              /\ ltimer'[t].remaining = ltimer[t].remaining
      /\ last_call => /\ ~ltimer'[u].refs
                      /\ ltimer'[u].cut <=> ltimer[u].handle # None
      /\ \A t \in LuaTimers : ~(last_call /\ t = u) => ltimer'[t] = ltimer[t]
  <2> DEFINE c == ltimer[u].handle # None
             y == [ltimer[u] EXCEPT !.refs = FALSE, !.cut = c]
  <2>1. ltimer' = IF last_call THEN [ltimer EXCEPT ![u] = y] ELSE ltimer
    BY Returned
  <2>2. \A t \in LuaTimers : ltimer[t] \in LuaTimer
    BY DEF LuaTypeOK
  <2> HIDE DEF u
  <2>3. CASE last_call
    <3>1. u \in LuaTimers
      BY <1>7, <2>3
    <3>2. ltimer' = [ltimer EXCEPT ![u] = y]
      BY <2>1, <2>3
    <3>3. /\ y.handle = ltimer[u].handle /\ y.alive = ltimer[u].alive
          /\ y.remaining = ltimer[u].remaining /\ ~y.refs /\ y.cut = c
      BY <2>2, <3>1 DEF LuaTimer
    <3> HIDE DEF y
    <3> QED
      BY <2>3, <3>1, <3>2, <3>3 DEF LuaTypeOK
  <2>4. CASE ~last_call
    BY <2>1, <2>4
  <2> QED
    BY <2>3, <2>4
<1> HIDE DEF x, u
<1>9. HandleInv'
  <2> SUFFICES ASSUME NEW t \in LuaTimers, NEW m, m = ltimer[t].handle, m # None
               PROVE  Holds(t, m)'
    BY <1>8 DEF HandleInv
  <2>1. Holds(t, m) /\ m \in Nodes
    BY <1>1 DEF LuaInv, HandleInv, WheelInv, PollInv, Holds
  <2>2. /\ ltimer'[t].alive = ltimer[t].alive /\ ltimer'[t].remaining = ltimer[t].remaining
        /\ ltimer'[t].refs <=> ~ltimer'[t].cut
    <3>1. ltimer[t].alive /\ (ltimer[t].refs <=> ~ltimer[t].cut)
      BY <2>1 DEF Holds
    <3> QED
      BY <1>8, <3>1
  <2>3. CASE m = cur
    <3>1. /\ t = u /\ ~x.cancelled /\ ~last_call
      BY <1>7, <2>1, <2>3 DEF Holds, u, x
    <3>2. /\ node'[cur].status = "pending" /\ ~node'[cur].cancelled
          /\ node'[cur].repeat = x.repeat - 1 /\ node'[cur].rep0 = x.rep0
          /\ user_data'[cur] = t
      BY <1>3, <1>5, <1>6, <3>1 DEF u
    <3> QED
      BY <1>1, <1>2, <2>1, <2>2, <2>3, <3>2 DEF Holds, x
  <2>4. CASE m # cur
    <3>1. ~Called(m)
      BY <2>4 DEF Called
    <3> QED
      BY <1>2, <1>3, <2>1, <2>2, <2>4, <3>1 DEF Holds
  <2> QED
    BY <2>3, <2>4
<1>10. OwnerInv'
  <2> SUFFICES ASSUME NEW m \in Nodes, Armed(m)'
               PROVE  user_data'[m] \in LuaTimers /\ ltimer'[user_data'[m]].handle = m
    BY <1>2 DEF OwnerInv
  <2>1. CASE m = cur
    <3>1. ~x.cancelled /\ x.repeat > 1
      BY <1>5, <2>1 DEF Armed
    <3>2. ~last_call
      BY <1>7, <3>1
    <3>3. user_data'[cur] = u
      BY <1>3, <1>5, <3>1 DEF u
    <3> QED
      BY <1>6, <1>8, <2>1, <3>1, <3>2, <3>3
  <2>2. CASE m # cur
    <3>1. Armed(m)
      BY <1>2, <2>2 DEF Armed
    <3>2. user_data[m] \in LuaTimers /\ ltimer[user_data[m]].handle = m
      BY <3>1 DEF LuaInv, OwnerInv
    <3> QED
      BY <1>3, <1>8, <2>2, <3>2
  <2> QED
    BY <2>1, <2>2
<1>11. LastCallInv'
  BY <1>2 DEF LastCallInv
<1>12. PinInv'
  <2>1. ASSUME NEW t \in LuaTimers, ltimer'[t].refs, ltimer'[t].handle = None PROVE FALSE
    <3>1. ~(last_call /\ t = u)
      BY <1>8, <2>1
    <3>2. ltimer[t].refs /\ ltimer[t].handle = None
      BY <1>8, <2>1, <3>1
    <3> QED
      BY <1>1, <3>1, <3>2 DEF LuaInv, PinInv, WheelInv, PollInv, u
  <2>2. ASSUME NEW t \in LuaTimers, ~ltimer'[t].alive PROVE ltimer'[t] = Dead
    <3>0. ~ltimer[t].alive
      BY <1>8, <2>2
    <3>1. ltimer[t] = Dead
      BY <3>0 DEF LuaInv, PinInv
    <3>2. CASE last_call /\ t = u
      <4>1. Dead.handle = None
        BY DEF Dead
      <4>2. ltimer' = [ltimer EXCEPT ![t] = [Dead EXCEPT !.refs = FALSE,
                                                         !.cut = Dead.handle # None]]
        BY <3>1, <3>2, Returned DEF u
      <4>3. [Dead EXCEPT !.refs = FALSE, !.cut = Dead.handle # None] = Dead
        <5>1. [Dead EXCEPT !.refs = FALSE, !.cut = FALSE] = Dead
          <6>1. Dead \in LuaTimer /\ ~Dead.refs /\ ~Dead.cut
            BY DEF Dead, LuaTimer
          <6> QED
            BY <6>1 DEF LuaTimer
        <5>2. (Dead.handle # None) = FALSE
          BY <4>1
        <5> QED
          BY <5>1, <5>2
      <4> QED
        BY <4>2, <4>3 DEF LuaTypeOK
    <3>3. CASE ~(last_call /\ t = u)
      BY <1>8, <3>1, <3>3
    <3> QED
      BY <3>2, <3>3
  <2>3. pool /\ pool'
    BY <1>1, <1>2 DEF WheelInv, PollInv
  <2>4. ~Reinit /\ closed' => ~pool'
    BY <1>2 DEF LuaInv, PinInv
  <2> QED
    BY <2>1, <2>2, <2>3, <2>4 DEF PinInv
<1> QED
  BY <1>9, <1>10, <1>11, <1>12 DEF LuaInv

\* A poll of the wheel moves nodes between slots and the batch only.
LEMMA LuaPollKeeps ==
  ASSUME WheelInv, LuaInv, PollStep, UNCHANGED lvars
  PROVE  LuaInv'
<1>1. /\ pc # "callback" /\ pc' # "callback" /\ UNCHANGED <<pool, cur>>
      /\ UNCHANGED <<ltimer, user_data, last_call, closed>>
  BY DEF PollStep, PollBegin, Advance, BatchEnd, PollEnd, wheel, lvars
<1>2. ~last_call /\ \A n \in Nodes : ~Called(n) /\ ~Called(n)'
  BY <1>1 DEF LuaInv, LastCallInv, Called
<1>3. ASSUME NEW n \in Nodes
      PROVE  /\ node'[n].status = "free" <=> node[n].status = "free"
             /\ node'[n].cancelled = node[n].cancelled
             /\ node'[n].repeat = node[n].repeat /\ node'[n].rep0 = node[n].rep0
             /\ Armed(n)' => Armed(n)
  <2>0. node[n] \in TimerNode
    BY DEF WheelInv, WheelTypeOK
  <2>1. CASE PollBegin
    <3>1. /\ node'[n] \in TimerNode /\ node'[n].status = node[n].status
          /\ \/ node'[n] = node[n]
             \/ SameTimer([node'[n] EXCEPT !.seen = node[n].seen], node[n])
      BY <2>1, PollBeginFacts DEF WheelInv
    <3>2. /\ node'[n].cancelled = node[n].cancelled
          /\ node'[n].repeat = node[n].repeat /\ node'[n].rep0 = node[n].rep0
      BY <3>1 DEF SameTimer, TimerNode
    <3>3. UNCHANGED batch
      BY <2>1 DEF PollBegin
    <3> QED
      BY <3>1, <3>2, <3>3 DEF Armed
  <2>2. CASE Advance
    <3>1. /\ batch' \subseteq {m \in Nodes : node[m].status = "pending"}
          /\ node'[n].status = IF n \in batch' THEN "running" ELSE node[n].status
          /\ SameTimer(node'[n], node[n])
      BY <2>2, AdvanceFacts DEF WheelInv
    <3> QED
      BY <3>1 DEF SameTimer, Armed
  <2>3. CASE BatchEnd \/ PollEnd
    BY <2>3 DEF BatchEnd, PollEnd, wheel, Armed
  <2> QED
    BY <2>1, <2>2, <2>3 DEF PollStep
<1>4. HandleInv'
  <2> SUFFICES ASSUME pool, NEW t \in LuaTimers, NEW n, n = ltimer[t].handle, n # None
               PROVE  Holds(t, n)'
    BY <1>1 DEF HandleInv
  <2>1. Holds(t, n) /\ n \in Nodes
    BY DEF LuaInv, HandleInv, Holds
  <2> QED
    BY <1>1, <1>2, <1>3, <2>1, HoldsSame
<1>5. OwnerInv'
  BY <1>1, <1>2, <1>3 DEF LuaInv, OwnerInv
<1>6. LastCallInv' /\ PinInv'
  BY <1>1, <1>2 DEF LuaInv, LastCallInv, PinInv
<1> QED
  BY <1>4, <1>5, <1>6 DEF LuaInv

\* No step of the scripts, the collector or the poll loop breaks the handles.
LEMMA LuaInvStep ==
  ASSUME ~Reinit, WheelInv, LuaTypeOK, LuaInv, NotWornOut, [LuaNext]_vars
  PROVE  LuaInv'
<1> USE LuaTimerAssumption, TimerAssumption
<1>1. CASE LuaPoolCreate
  <2>1. ~pool /\ ~closed /\ UNCHANGED <<ltimer, user_data, last_call, closed, pc, cur, batch, node>>
    BY <1>1 DEF LuaPoolCreate, PoolCreate, lvars, poll
  <2>2. \A t \in LuaTimers : ltimer[t].handle = None /\ ~ltimer[t].refs
    BY <2>1 DEF LuaInv, PinInv, Dead
  <2>3. ~last_call /\ \A n \in Nodes : ~Armed(n) /\ ~Called(n)
    BY <2>1, NothingArmed DEF LuaInv, LastCallInv, WheelInv, PollInv
  <2>4. \A n \in Nodes : ~Armed(n)' /\ ~Called(n)'
    BY <2>1, <2>3 DEF Armed, Called
  <2> QED
    BY <2>1, <2>2, <2>3, <2>4 DEF LuaInv, HandleInv, OwnerInv, LastCallInv, PinInv
<1>2. CASE LuaUninit
  <2>1. /\ ~pool' /\ closed' /\ pc = "idle" /\ UNCHANGED <<ltimer, last_call, pc, cur, batch>>
        /\ \A n \in Nodes : node'[n] = Poison
    BY <1>2 DEF LuaUninit, PoolDestroy, poll
  <2>2. ~last_call /\ \A n \in Nodes : ~Armed(n)' /\ ~Called(n)'
    BY <2>1 DEF LuaInv, LastCallInv, Armed, Called, Poison
  <2> QED
    BY <2>1, <2>2 DEF LuaInv, HandleInv, OwnerInv, LastCallInv, PinInv
<1>3. ASSUME NEW t \in LuaTimers, LuaAdd(t) PROVE LuaInv'
  BY <1>3, LuaAddKeeps
<1>4. ASSUME NEW t \in LuaTimers, LuaDel(t) \/ LuaGC(t) PROVE LuaInv'
  BY <1>4, LuaDropKeeps
<1>5. ASSUME NEW n \in Nodes, LuaFire(n) PROVE LuaInv'
  BY <1>5, LuaFireKeeps
<1>6. CASE LuaCallbackReturns
  BY <1>6, LuaReturnKeeps
<1>7. CASE PollStep /\ UNCHANGED lvars
  BY <1>7, LuaPollKeeps
<1>8. CASE UNCHANGED vars
  BY <1>8 DEF vars, tvars, wheel, poll, lvars, LuaInv, HandleInv, Holds, OwnerInv, LastCallInv,
     PinInv, Armed, Called
<1> QED
  BY <1>1, <1>2, <1>3, <1>4, <1>5, <1>6, <1>7, <1>8 DEF LuaNext
-----------------------------------------------------------------------------
(* Theorems.  Scripts leave timers alone after xtimer.uninit (~Reinit), and *)
(* no infinite timer has made the INT_MAX calls it is given.                *)

\* The invariant of the handles, references and remaining counts.
THEOREM LuaInvariant ==
  ASSUME ~Reinit
  PROVE  LuaSpec /\ []NotWornOut => []LuaInv
<1>1. LuaInit => LuaInv
  <2> SUFFICES ASSUME LuaInit PROVE LuaInv
    OBVIOUS
  <2>1. /\ \A t \in LuaTimers : ltimer[t] = Dead
        /\ ~pool /\ ~last_call /\ ~closed /\ pc = "idle" /\ batch = {}
        /\ \A n \in Nodes : node[n] = Poison
    BY DEF LuaInit, Init
  <2>2. \A n \in Nodes : ~Armed(n) /\ ~Called(n)
    BY <2>1 DEF Armed, Called, Poison
  <2> QED
    BY <2>1, <2>2 DEF LuaInv, HandleInv, OwnerInv, LastCallInv, PinInv
<1>2. WheelInv /\ LuaTypeOK /\ LuaInv /\ NotWornOut /\ [LuaNext]_vars => LuaInv'
  BY LuaInvStep
<1> QED
  BY <1>1, <1>2, LuaWheelInvariant, PTL DEF LuaSpec

\* A handle of lua_xtimer.c is never stale: while the pool lives it names a node
\* in use that belongs to this very userdata.
THEOREM LuaHandleFresh ==
  ASSUME ~Reinit
  PROVE  LuaSpec /\ []NotWornOut => []HandleFresh
<1>1. LuaInv => HandleFresh
  BY DEF LuaInv, HandleInv, Holds, HandleFresh
<1> QED
  BY <1>1, LuaInvariant, PTL

\* Every node that will call back has a live userdata to call, pinned by its own
\* references unless another timer's last call released them.
THEOREM LuaCallbackHasOwner ==
  ASSUME ~Reinit
  PROVE  LuaSpec /\ []NotWornOut => []CallbackHasOwner
<1>1. WheelInv /\ LuaInv => CallbackHasOwner
  <2> SUFFICES ASSUME WheelInv, LuaInv, NEW n \in Nodes, Armed(n)
               PROVE  /\ user_data[n] \in LuaTimers
                      /\ LET t == ltimer[user_data[n]]
                         IN t.alive /\ t.handle = n /\ (t.refs \/ t.cut)
    BY DEF CallbackHasOwner
  <2>1. user_data[n] \in LuaTimers /\ ltimer[user_data[n]].handle = n
    BY DEF LuaInv, OwnerInv
  <2>2. pool
    BY NothingArmed DEF WheelInv, WheelTypeOK
  <2>3. Holds(user_data[n], n)
    BY <2>1, <2>2, TimerAssumption DEF LuaInv, HandleInv
  <2> QED
    BY <2>1, <2>3 DEF Holds
<1> QED
  BY <1>1, LuaInvariant, LuaWheelInvariant, PTL

\* Between polls a userdata pins itself exactly while it is armed, unless another
\* timer's last call released its references, and both layers agree on the calls
\* that are left.
THEOREM LuaPinnedIffArmed ==
  ASSUME ~Reinit
  PROVE  LuaSpec /\ []NotWornOut => []PinnedIffArmed
<1>1. LuaInv => PinnedIffArmed
  <2> SUFFICES ASSUME LuaInv, pool, pc = "idle", NEW t \in LuaTimers
               PROVE  /\ ltimer[t].refs => ltimer[t].handle # None
                      /\ ltimer[t].handle # None =>
                           /\ ltimer[t].refs <=> ~ltimer[t].cut
                           /\ ltimer[t].remaining \in {-1, node[ltimer[t].handle].repeat}
    BY DEF PinnedIffArmed
  <2>1. ~last_call /\ \A n \in Nodes : ~Called(n)
    BY DEF LuaInv, LastCallInv, Called
  <2>2. ltimer[t].handle # None => Holds(t, ltimer[t].handle)
    BY DEF LuaInv, HandleInv
  <2>3. ltimer[t].refs => ltimer[t].handle # None
    BY <2>1 DEF LuaInv, PinInv
  <2>4. ltimer[t].handle # None => /\ ltimer[t].refs <=> ~ltimer[t].cut
                                   /\ ltimer[t].remaining \in {-1, node[ltimer[t].handle].repeat}
    BY <2>1, <2>2 DEF Holds
  <2> QED
    BY <2>3, <2>4
<1> QED
  BY <1>1, LuaInvariant, PTL
-----------------------------------------------------------------------------
(* When no timer can wear out.                                              *)

\* A clock that stops at MaxTime, and the interval a timer was made with.
BoundedClock ==
  /\ current_time <= MaxTime
  /\ \A n \in Nodes : node[n].status # "free" =>
       node[n].interval \in Intervals /\ node[n].seen <= MaxTime

\* No step moves the clock beyond its bound or changes an interval.
LEMMA BoundedClockStep ==
  ASSUME WheelInv, BoundedClock, [Next]_tvars
  PROVE  BoundedClock'
<1> USE TimerAssumption DEF WheelInv, wheel, poll
<1>0. \A n \in Nodes : node[n] \in TimerNode
  BY DEF WheelTypeOK
<1>t. current_time' <= MaxTime
  <2>1. CASE UNCHANGED current_time
    BY <2>1 DEF BoundedClock
  <2>2. CASE PoolCreate \/ PollBegin
    BY <2>2 DEF PoolCreate, PollBegin
  <2>3. PoolCreate \/ PollBegin \/ UNCHANGED current_time
    BY DEF Next, PollStep, PoolDestroy, Delete, Fire, Create, Advance, BatchEnd, PollEnd,
       CallbackReturns, tvars
  <2> QED
    BY <2>1, <2>2, <2>3
<1> SUFFICES ASSUME NEW n \in Nodes, node'[n].status # "free"
             PROVE  node'[n].interval \in Intervals /\ node'[n].seen <= MaxTime
  BY <1>t DEF BoundedClock
<1>s. ASSUME node[n].status # "free", node'[n].interval = node[n].interval,
             node'[n].seen = node[n].seen
      PROVE  node'[n].interval \in Intervals /\ node'[n].seen <= MaxTime
  BY <1>s DEF BoundedClock
<1>1. CASE PoolCreate \/ BatchEnd \/ PollEnd \/ UNCHANGED tvars
  BY <1>1, <1>s DEF PoolCreate, BatchEnd, PollEnd, tvars
<1>2. CASE PoolDestroy
  BY <1>2 DEF PoolDestroy, Poison
<1>3. ASSUME NEW m \in Nodes, Delete(m)
      PROVE  node'[n].interval \in Intervals /\ node'[n].seen <= MaxTime
  <2>1. CASE m # n
    BY <1>3, <1>s, <2>1, DeleteFacts DEF OthersSame
  <2>2. CASE m = n
    <3>1. node'[n] # Poison
      BY DEF Poison
    <3>2. /\ node[n].status # "free"
          /\ SameTimer([node'[n] EXCEPT !.cancelled = FALSE], node[n])
      BY <1>3, <2>2, <3>1, DeleteFacts
    <3>3. node'[n] \in TimerNode
      BY WheelTypeStep DEF WheelTypeOK
    <3> QED
      BY <1>s, <3>2, <3>3 DEF SameTimer, TimerNode
  <2> QED
    BY <2>1, <2>2
<1>4. ASSUME NEW m \in Nodes, Fire(m)
      PROVE  node'[n].interval \in Intervals /\ node'[n].seen <= MaxTime
  <2>1. CASE m # n
    BY <1>4, <1>s, <2>1, FireFacts DEF OthersSame
  <2>2. CASE m = n
    <3>0. n \in batch /\ node'[n] # Poison
      BY <1>4, <2>2 DEF Poison, Fire
    <3>1. node[n].status = "running"
      BY <3>0 DEF PollInv
    <3>2. node'[n].interval = node[n].interval /\ node'[n].seen = node[n].seen
      BY <1>0, <1>4, <2>2, <3>0, FireFacts DEF SameTimer, TimerNode
    <3> QED
      BY <1>s, <3>1, <3>2
  <2> QED
    BY <2>1, <2>2
<1>5. ASSUME NEW m \in Nodes, NEW i \in Intervals, NEW r \in Repeats, Create(m, i, r)
      PROVE  node'[n].interval \in Intervals /\ node'[n].seen <= MaxTime
  <2>1. CASE m # n
    BY <1>5, <1>s, <2>1, CreateFacts DEF OthersSame
  <2>2. CASE m = n
    BY <1>5, <2>2, CreateFacts DEF BoundedClock
  <2> QED
    BY <2>1, <2>2
<1>6. CASE PollBegin
  <2>1. node'[n] = IF node[n].status = "pending" /\ current_time' > node[n].seen
          THEN [node[n] EXCEPT !.seen = current_time'] ELSE node[n]
    BY <1>6 DEF PollBegin
  <2> QED
    BY <1>0, <1>s, <1>t, <2>1 DEF BoundedClock, TimerNode
<1>7. CASE Advance
  BY <1>7, <1>s, AdvanceFacts DEF SameTimer
<1>8. CASE CallbackReturns
  <2>1. cur \in Nodes /\ node[cur].status = "running"
    BY <1>8, TimerAssumption DEF CallbackReturns, PollInv, WheelTypeOK, Called
  <2>2. node'[cur] = Poison \/ (/\ node'[cur].interval = node[cur].interval
                                /\ node'[cur].seen = node[cur].seen)
    BY <1>8, <2>1, ReturnFacts
  <2>3. CASE cur = n
    BY <1>s, <2>1, <2>2, <2>3 DEF Poison
  <2>4. CASE cur # n
    BY <1>8, <1>s, <2>1, <2>4, ReturnFacts DEF OthersSame
  <2> QED
    BY <2>3, <2>4
<1> QED
  BY <1>1, <1>2, <1>3, <1>4, <1>5, <1>6, <1>7, <1>8 DEF Next, PollStep

\* With intervals of at least one millisecond a timer needs as many milliseconds
\* as it has made calls: none wears out while the clock is below INT_MAX (the
\* 24 days that INT_MAX milliseconds are).
THEOREM LuaNotWornOut ==
  ASSUME 0 \notin Intervals, MaxTime < Infinite
  PROVE  LuaSpec => []NotWornOut
<1> USE TimerAssumption, LuaTimerAssumption
<1>1. LuaInit => BoundedClock
  BY DEF LuaInit, Init, BoundedClock, Poison
<1>2. WheelInv /\ LuaTypeOK /\ BoundedClock /\ [LuaNext]_vars => BoundedClock'
  BY LuaStepIsStep, BoundedClockStep
<1>3. WheelInv /\ BoundedClock => NotWornOut
  <2> SUFFICES ASSUME WheelInv, BoundedClock, NEW n \in Nodes, node[n].status # "free"
               PROVE  node[n].fired < Infinite
    BY DEF NotWornOut
  <2> DEFINE k == node[n].fired
             i == node[n].interval
  <2>1. k \in Nat /\ i \in Nat /\ i >= 1 /\ node[n].base \in Nat /\ node[n].seen \in Nat
    BY DEF WheelInv, WheelTypeOK, TimerNode, BoundedClock
  <2>2. k > 0 => node[n].base + k * i <= node[n].seen
    BY DEF WheelInv, CallsInv, Expiry
  <2>3. node[n].seen <= MaxTime
    BY DEF BoundedClock
  <2>4. k <= k * i
    <3> HIDE DEF k, i
    <3>1. k * i = k * (i - 1) + k /\ k * (i - 1) >= 0
      BY <2>1
    <3> QED
      BY <2>1, <3>1
  <2>5. k * i \in Int
    BY <2>1
  <2> HIDE DEF k, i
  <2>6. k < Infinite
    BY <2>1, <2>2, <2>3, <2>4, <2>5
  <2> QED
    BY <2>6 DEF k
<1> QED
  BY <1>1, <1>2, <1>3, LuaWheelInvariant, PTL DEF LuaSpec
=============================================================================
