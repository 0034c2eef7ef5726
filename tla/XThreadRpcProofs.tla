-------------------------- MODULE XThreadRpcProofs --------------------------
(***************************************************************************)
(* Proofs about XThreadRpc, for any number of coroutines, calls, replies   *)
(* and any callee queue bound.                                             *)
(***************************************************************************)
EXTENDS XThreadRpc, TLAPS

\* The initial state satisfies the inductive invariant.
LEMMA InitIInv == Init => IInv
  BY RpcAssumption DEF Init, IInv, TypeOK, Linked, Fresh, OwnResult, TimerInv, TimeoutInv, Ids,
     Unset, Message

\* Posting a reply or a timeout (post_reply) keeps the inbox well typed, and
\* what was queued stays queued.
LEMMA PostResumeQueues ==
  ASSUME TypeOK, NEW i \in Ids, NEW k \in {"reply", "timeout"}, PostResume(i, k)
  PROVE  /\ inbox' \in Seq(Message)
         /\ \A j \in DOMAIN inbox : j \in DOMAIN inbox' /\ inbox'[j] = inbox[j]
         /\ oom' \subseteq Ids /\ oom \subseteq oom'
         /\ i \in oom' \/ \E j \in DOMAIN inbox' : inbox'[j] = [for |-> i, kind |-> k]
<1>1. CASE UNCHANGED inbox /\ oom' = oom \cup {i}
  BY <1>1 DEF TypeOK
<1>2. CASE inbox' = Append(inbox, [for |-> i, kind |-> k]) /\ UNCHANGED oom
  <2>1. [for |-> i, kind |-> k] \in Message
    BY DEF Message
  <2>2. inbox \in Seq(Message)
    BY DEF TypeOK
  <2>3. inbox' \in Seq(Message) /\ Len(inbox') = Len(inbox) + 1
    BY <1>2, <2>1, <2>2
  <2>4. \A j \in 1..Len(inbox) : inbox'[j] = inbox[j]
    BY <1>2, <2>2
  <2>5. inbox'[Len(inbox) + 1] = [for |-> i, kind |-> k]
    BY <1>2, <2>2
  <2> QED
    <3>1. Len(inbox) + 1 \in DOMAIN inbox' /\ DOMAIN inbox = 1..Len(inbox)
          /\ \A j \in 1..Len(inbox) : j \in DOMAIN inbox'
      BY <2>2, <2>3
    <3>2. oom' = oom /\ oom \subseteq Ids
      BY <1>2 DEF TypeOK
    <3> QED
      BY <2>3, <2>4, <2>5, <3>1, <3>2
<1> QED
  BY <1>1, <1>2 DEF PostResume

\* A refused call consumes a co_id and nothing else.
LEMMA RefusedStep ==
  ASSUME IInv, NEW c \in Cos, RpcRefused(c)
  PROVE  IInv'
<1> USE DEF IInv, RpcRefused, callee
<1>1. TypeOK'
  BY SMTT(30), RpcAssumption DEF TypeOK, Ids
<1>2. Linked' /\ TimerInv' /\ TimeoutInv'
  BY DEF Linked, TimerInv, TimeoutInv
<1>3. Fresh' /\ OwnResult'
  BY RpcAssumption DEF Fresh, OwnResult, TypeOK, Ids, Unset
<1> QED
  BY <1>1, <1>2, <1>3

\* A call that is posted waits under a co_id nobody else has used.
LEMMA RpcStep ==
  ASSUME IInv, NEW c \in Cos, NEW t \in BOOLEAN, Rpc(c, t)
  PROVE  IInv'
<1> USE DEF IInv, Rpc
<1>0. next_id \in Ids /\ c # NoCo /\ costate[c] = "run"
  BY RpcAssumption
<1>1. /\ next_id' = next_id + 1 /\ pending' = [pending EXCEPT ![next_id] = c]
      /\ requests' = Append(requests, next_id)
      /\ timed \subseteq timed' /\ timed' \subseteq timed \cup {next_id}
      /\ oom \subseteq oom' /\ oom' \subseteq oom \cup {next_id}
      /\ UNCHANGED <<inbox, replies, result>>
  OBVIOUS
<1>2. \/ /\ timers \subseteq timers' /\ timers' \subseteq timers \cup {next_id}
         /\ next_id \in timed' => next_id \in timers' \/ next_id \in timed
         /\ next_id \in timers' => next_id \in timed' \/ next_id \in timers
         /\ costate' = [costate EXCEPT ![c] = "yield"]
         /\ co_id' = [co_id EXCEPT ![c] = next_id]
         /\ UNCHANGED oom
      \/ /\ oom' = oom \cup {next_id} /\ costate' = [costate EXCEPT ![c] = "dead"]
         /\ UNCHANGED <<timers, co_id>>
  OBVIOUS
<1> HIDE DEF Rpc
<1>3. \A i \in Ids : pending[i] # c
  BY <1>0 DEF Linked
<1>4. /\ pending[next_id] = NoCo /\ next_id \notin timed /\ next_id \notin timers
      /\ result[next_id] = Unset
  BY <1>0 DEF Fresh, TypeOK, Ids, TimerInv
<1>5. TypeOK'
  <2>1. requests' \in Seq(Ids)
    BY <1>0, <1>1 DEF TypeOK
  <2>2. next_id' \in 1..(MaxCalls + 1) /\ next_id \in 0..MaxCalls
    BY <1>0, <1>1, RpcAssumption DEF TypeOK, Ids
  <2>3. costate' \in [Cos -> {"run", "yield", "dead"}] /\ co_id' \in [Cos -> 0..MaxCalls]
    BY <1>2, <2>2 DEF TypeOK
  <2>4. timers' \subseteq Ids /\ timed' \subseteq Ids /\ oom' \subseteq Ids /\ pending' \in [Ids -> Cos \cup {NoCo}]
    BY <1>0, <1>1, <1>2 DEF TypeOK
  <2> QED
    BY <1>1, <2>1, <2>2, <2>3, <2>4 DEF TypeOK
<1>a. /\ \A d \in Cos : d # c => costate'[d] = costate[d] /\ co_id'[d] = co_id[d]
      /\ costate'[c] = "dead" \/ (costate'[c] = "yield" /\ co_id'[c] = next_id)
      /\ next_id \in timers' => costate'[c] = "yield" /\ next_id \in timed'
      /\ timers' \subseteq timers \cup {next_id}
  <2>1. costate \in [Cos -> {"run", "yield", "dead"}] /\ co_id \in [Cos -> 0..MaxCalls]
    BY DEF TypeOK
  <2> QED
    BY <1>2, <1>4, <2>1
<1>b. pending'[next_id] = c /\ \A i \in Ids : i # next_id => pending'[i] = pending[i]
  BY <1>0, <1>1 DEF TypeOK
<1>c. \A i \in Ids : pending[i] # NoCo => pending[i] \in Cos
  BY DEF TypeOK
<1>6. Linked'
  <2>1. ASSUME NEW i \in Ids, pending'[i] # NoCo
        PROVE  \/ costate'[pending'[i]] = "dead"
               \/ costate'[pending'[i]] = "yield" /\ co_id'[pending'[i]] = i
    <3>1. CASE i = next_id
      BY <1>a, <1>b, <3>1
    <3>2. CASE i # next_id
      <4>1. pending'[i] = pending[i] /\ pending[i] \in Cos /\ pending[i] # c
        BY <1>3, <1>b, <1>c, <2>1, <3>2
      <4> QED
        BY <1>a, <2>1, <4>1 DEF Linked
    <3> QED
      BY <3>1, <3>2
  <2>2. ASSUME NEW d \in Cos, costate'[d] = "yield"
        PROVE  co_id'[d] \in Ids /\ pending'[co_id'[d]] = d
    <3>1. CASE d = c
      BY <1>0, <1>a, <1>b, <2>2, <3>1
    <3>2. CASE d # c
      <4>1. costate[d] = "yield" /\ co_id'[d] = co_id[d]
        BY <1>a, <2>2, <3>2
      <4>2. co_id[d] \in Ids /\ pending[co_id[d]] = d
        BY <4>1 DEF Linked
      <4>3. co_id[d] # next_id
        BY <1>4, <4>2, RpcAssumption
      <4> QED
        BY <1>b, <4>1, <4>2, <4>3
    <3> QED
      BY <3>1, <3>2
  <2> QED
    BY <2>1, <2>2 DEF Linked
<1>7. Fresh' /\ OwnResult'
  BY <1>0, <1>1, <1>4, RpcAssumption DEF Fresh, OwnResult, TypeOK, Ids
<1>8. TimerInv'
  <2> SUFFICES ASSUME NEW i \in timers'
               PROVE  i \in timed' /\ pending'[i] # NoCo /\ costate'[pending'[i]] = "yield"
    BY DEF TimerInv
  <2>1. CASE i = next_id
    BY <1>0, <1>a, <1>b, <2>1
  <2>2. CASE i # next_id
    <3>1. i \in timers /\ i \in Ids
      BY <1>a, <2>2 DEF TypeOK
    <3>2. i \in timed /\ pending[i] # NoCo /\ costate[pending[i]] = "yield"
      BY <3>1 DEF TimerInv
    <3>3. pending'[i] = pending[i] /\ pending[i] \in Cos /\ pending[i] # c
      BY <1>3, <1>b, <1>c, <2>2, <3>1, <3>2
    <3> QED
      BY <1>1, <1>a, <3>2, <3>3
  <2> QED
    BY <2>1, <2>2
<1>9. TimeoutInv'
  <2> SUFFICES ASSUME NEW i \in timed' \ oom', pending'[i] # NoCo
               PROVE  i \in timers' \/ \E k \in DOMAIN inbox : inbox[k] = [for |-> i, kind |-> "timeout"]
    BY <1>1 DEF TimeoutInv
  <2>1. CASE i = next_id
    BY <1>2, <1>4, <2>1
  <2>2. CASE i # next_id
    BY <1>1, <1>2, <2>2 DEF TimeoutInv, TypeOK
  <2> QED
    BY <2>1, <2>2
<1> QED
  BY <1>5, <1>6, <1>7, <1>8, <1>9

\* A timer that fires is replaced by its queued timeout.
LEMMA TimerStep ==
  ASSUME IInv, NEW i \in Ids, TimerFires(i)
  PROVE  IInv'
<1> USE DEF IInv, TimerFires, callee
<1>1. inbox' \in Seq(Message)
      /\ (\A j \in DOMAIN inbox : j \in DOMAIN inbox' /\ inbox'[j] = inbox[j])
      /\ (i \in oom' \/ \E j \in DOMAIN inbox' : inbox'[j] = [for |-> i, kind |-> "timeout"])
      /\ oom' \subseteq Ids /\ oom \subseteq oom'
  BY PostResumeQueues
<1>2. TypeOK'
  BY <1>1 DEF TypeOK
<1>3. Linked' /\ Fresh' /\ OwnResult' /\ TimerInv'
  BY DEF Linked, Fresh, OwnResult, TimerInv
<1>4. TimeoutInv'
  BY <1>1 DEF TimeoutInv
<1> QED
  BY <1>2, <1>3, <1>4

\* A reply is only a message: it changes no table of the caller.
LEMMA ReplyStep ==
  ASSUME IInv, NEW i \in Ids, Reply(i)
  PROVE  IInv'
<1> USE DEF IInv, Reply, caller
<1>1. inbox' \in Seq(Message)
      /\ (\A j \in DOMAIN inbox : j \in DOMAIN inbox' /\ inbox'[j] = inbox[j])
      /\ oom' \subseteq Ids /\ oom \subseteq oom'
  BY PostResumeQueues
<1>2. TypeOK'
  <2>1. replies' \in [Ids -> 0..MaxReplies]
    BY RpcAssumption DEF TypeOK
  <2> QED
    BY <1>1, <2>1 DEF TypeOK
<1>3. Linked' /\ Fresh' /\ OwnResult' /\ TimerInv'
  BY DEF Linked, Fresh, OwnResult, TimerInv
<1>4. TimeoutInv'
  BY <1>1 DEF TimeoutInv
<1> QED
  BY <1>2, <1>3, <1>4

\* A resumption takes the head of the inbox: the coroutine it finds in pending,
\* if it waits, waits for exactly this co_id.
LEMMA ResumeStep ==
  ASSUME IInv, Resume
  PROVE  /\ IInv'
         /\ \A i \in Ids : result[i] # Unset => result'[i] = result[i]
<1> USE DEF IInv, Resume, callee
<1> DEFINE m == Head(inbox)
           c == pending[m.for]
<1>0. /\ m \in Message /\ m.for \in Ids /\ inbox' \in Seq(Message)
      /\ \A j \in DOMAIN inbox : inbox[j] = m \/ \E k \in DOMAIN inbox' : inbox'[k] = inbox[j]
  <2>1. inbox \in Seq(Message) /\ inbox # <<>> /\ inbox' = Tail(inbox)
    BY DEF TypeOK
  <2>2. m = inbox[1] /\ m \in Message /\ inbox' \in Seq(Message)
    BY <2>1
  <2>3. m.for \in Ids
    BY <2>2 DEF Message
  <2>4. Len(inbox') = Len(inbox) - 1 /\ \A k \in 1..Len(inbox') : inbox'[k] = inbox[k + 1]
    BY <2>1
  <2>5. ASSUME NEW j \in DOMAIN inbox, j # 1
        PROVE  \E k \in DOMAIN inbox' : inbox'[k] = inbox[j]
    <3>1. j \in 1..Len(inbox) /\ j - 1 \in 1..Len(inbox')
      BY <2>1, <2>2, <2>4, <2>5
    <3>2. inbox'[j - 1] = inbox[j] /\ j - 1 \in DOMAIN inbox'
      BY <2>2, <2>4, <3>1
    <3> QED
      BY <3>2
  <2> QED
    BY <2>2, <2>3, <2>5
<1>1. /\ pending' = [pending EXCEPT ![m.for] = NoCo]
      /\ UNCHANGED <<next_id, co_id, requests, replies, oom, timed>>
  OBVIOUS
<1>2. CASE c # NoCo /\ costate[c] = "yield"
  <2>1. /\ result' = [result EXCEPT ![co_id[c]] = m]
        /\ timers' = timers \ {co_id[c]}
        /\ costate' = [costate EXCEPT ![c] = "run"]
    BY <1>2
  <2>2. c \in Cos /\ co_id[c] = m.for /\ result[m.for] = Unset
    BY <1>0, <1>2 DEF Linked, TypeOK, Fresh
  <2>3. TypeOK'
    <3>1. m \in [for : 0..MaxCalls, kind : {"none", "error", "reply", "timeout"}]
      BY <1>0, RpcAssumption DEF Message, Ids
    <3>2. result' \in [Ids -> [for : 0..MaxCalls, kind : {"none", "error", "reply", "timeout"}]]
      BY <2>1, <3>1 DEF TypeOK
    <3>3. costate' \in [Cos -> {"run", "yield", "dead"}] /\ timers' \subseteq Ids
      BY <2>1 DEF TypeOK
    <3>4. pending' \in [Ids -> Cos \cup {NoCo}]
      BY <1>1 DEF TypeOK
    <3> HIDE DEF m, Resume
    <3> QED
      BY <1>0, <1>1, <3>2, <3>3, <3>4 DEF TypeOK
  <2>4. Linked'
    BY SMTT(30), <1>0, <1>1, <2>1, <2>2, RpcAssumption DEF Linked, TypeOK
  <2>5. Fresh' /\ OwnResult'
    BY <1>0, <1>1, <1>2, <2>1, <2>2 DEF Fresh, OwnResult, TypeOK
  <2>6. TimerInv'
    BY <1>0, <1>1, <2>1, <2>2 DEF TimerInv, TypeOK, Linked
  <2>7. TimeoutInv'
    <3> SUFFICES ASSUME NEW i \in timed' \ oom', pending'[i] # NoCo
                 PROVE  i \in timers' \/ \E k \in DOMAIN inbox' : inbox'[k] = [for |-> i, kind |-> "timeout"]
      BY <1>1 DEF TimeoutInv
    <3>1. i \in Ids /\ i # m.for /\ pending[i] # NoCo
      BY <1>0, <1>1 DEF TypeOK
    <3>2. CASE i \in timers
      BY <2>1, <3>1, <3>2, <2>2
    <3>3. CASE \E k \in DOMAIN inbox : inbox[k] = [for |-> i, kind |-> "timeout"]
      BY <1>0, <3>1, <3>3
    <3> QED
      BY <3>1, <3>2, <3>3 DEF TimeoutInv
  <2>8. \A i \in Ids : result[i] # Unset => result'[i] = result[i]
    BY <2>1, <2>2 DEF TypeOK
  <2> QED
    BY <2>3, <2>4, <2>5, <2>6, <2>7, <2>8
<1>3. CASE ~(c # NoCo /\ costate[c] = "yield")
  <2>1. UNCHANGED <<result, timers, costate>>
    BY <1>3
  <2>2. TypeOK'
    BY <1>0, <1>1, <2>1 DEF TypeOK
  <2>3. Linked' /\ Fresh' /\ OwnResult' /\ TimerInv'
    BY <1>0, <1>1, <1>3, <2>1 DEF Linked, Fresh, OwnResult, TimerInv, TypeOK
  <2>4. TimeoutInv'
    <3> SUFFICES ASSUME NEW i \in timed' \ oom', pending'[i] # NoCo
                 PROVE  i \in timers' \/ \E k \in DOMAIN inbox' : inbox'[k] = [for |-> i, kind |-> "timeout"]
      BY <1>1 DEF TimeoutInv
    <3>1. i \in Ids /\ i # m.for /\ pending[i] # NoCo
      BY <1>0, <1>1 DEF TypeOK
    <3>2. CASE i \in timers
      BY <2>1, <3>1, <3>2
    <3>3. CASE \E k \in DOMAIN inbox : inbox[k] = [for |-> i, kind |-> "timeout"]
      BY <1>0, <3>1, <3>3
    <3> QED
      BY <3>1, <3>2, <3>3 DEF TimeoutInv
  <2> QED
    BY <2>1, <2>2, <2>3, <2>4
<1> QED
  BY <1>2, <1>3

\* The callee's own steps leave the caller alone.
LEMMA CalleeStep ==
  ASSUME IInv, DropExpired \/ Take
  PROVE  IInv'
<1>1. requests # <<>> /\ requests \in Seq(Ids) /\ requests' = Tail(requests)
  BY DEF IInv, TypeOK, DropExpired, Take
<1>2. requests' \in Seq(Ids) /\ Head(requests) \in Ids
  BY <1>1
<1>3. UNCHANGED <<next_id, pending, timers, costate, co_id, inbox, oom, timed, result>>
  BY DEF DropExpired, Take, caller
<1>4. replies' \in [Ids -> 0..MaxReplies]
  <2>1. replies \in [Ids -> 0..MaxReplies] /\ MaxReplies \in 0..MaxReplies
    BY RpcAssumption DEF IInv, TypeOK
  <2>2. replies' = replies \/ replies' = [replies EXCEPT ![Head(requests)] = MaxReplies]
    BY DEF DropExpired, Take
  <2> QED
    BY <2>1, <2>2
<1>5. TypeOK'
  BY <1>2, <1>3, <1>4 DEF IInv, TypeOK
<1>6. Linked' /\ Fresh' /\ OwnResult' /\ TimerInv' /\ TimeoutInv'
  BY <1>3 DEF IInv, Linked, Fresh, OwnResult, TimerInv, TimeoutInv
<1> QED
  BY <1>5, <1>6 DEF IInv

\* Every step keeps the invariant, and no step changes a result that was set.
LEMMA NextStep ==
  ASSUME IInv, [Next]_vars
  PROVE  IInv' /\ \A i \in Ids : result[i] # Unset => result'[i] = result[i]
<1>1. ASSUME NEW c \in Cos, RpcRefused(c)
      PROVE  IInv' /\ \A i \in Ids : result[i] # Unset => result'[i] = result[i]
  <2>1. result[next_id] = Unset
    BY <1>1 DEF IInv, Fresh, TypeOK, RpcRefused, Ids
  <2> QED
    BY <1>1, <2>1, RefusedStep DEF RpcRefused, IInv, TypeOK
<1>2. ASSUME NEW c \in Cos, NEW t \in BOOLEAN, Rpc(c, t)
      PROVE  IInv' /\ UNCHANGED result
  BY <1>2, RpcStep DEF Rpc
<1>3. ASSUME NEW i \in Ids, TimerFires(i) \/ Reply(i)
      PROVE  IInv' /\ UNCHANGED result
  BY <1>3, TimerStep, ReplyStep DEF TimerFires, Reply
<1>4. CASE Resume
  BY <1>4, ResumeStep
<1>5. CASE DropExpired \/ Take
  BY <1>5, CalleeStep DEF DropExpired, Take
<1>6. CASE UNCHANGED vars
  BY <1>6 DEF IInv, TypeOK, Linked, Fresh, OwnResult, TimerInv, TimeoutInv, vars, caller, callee
<1> QED
  BY <1>1, <1>2, <1>3, <1>4, <1>5, <1>6 DEF Next

\* The invariant says of each coroutine that it waits for its own call.
LEMMA LinkedWaits == IInv => WaitsForItsCall
<1> SUFFICES ASSUME IInv, NEW c \in Cos, costate[c] # "dead"
             PROVE  {i \in Ids : pending[i] = c} = IF costate[c] = "yield" THEN {co_id[c]} ELSE {}
  BY DEF WaitsForItsCall
<1>1. c # NoCo
  BY RpcAssumption
<1>2. CASE costate[c] = "yield"
  BY <1>1, <1>2 DEF IInv, Linked
<1>3. CASE costate[c] # "yield"
  BY <1>1, <1>3 DEF IInv, Linked
<1> QED
  BY <1>2, <1>3

\* The pending table, the coroutines, the timers and the results of xthread.rpc
\* agree in every reachable state.
THEOREM RpcInvariant == Spec => []IInv
<1>1. IInv /\ [Next]_vars => IInv'
  BY NextStep
<1> QED
  BY <1>1, InitIInv, PTL DEF Spec

\* Every step keeps the types of both threads' tables and queues: ids handed out
\* stay within their range and only replies and timeouts are queued.
THEOREM RpcTypeCorrect == Spec => []TypeOK
<1>1. IInv => TypeOK
  BY DEF IInv
<1> QED
  BY <1>1, RpcInvariant, PTL

\* Whatever replies and timeouts arrive and in which order, each yielded
\* coroutine is registered for its present call and no other.
THEOREM RpcWaitsForItsCall == Spec => []WaitsForItsCall
  BY RpcInvariant, LinkedWaits, PTL

\* A call only ever returns what was sent for it.
THEOREM RpcOwnResult == Spec => []OwnResult
<1>1. IInv => OwnResult
  BY DEF IInv
<1> QED
  BY <1>1, RpcInvariant, PTL

\* A call returns once.
THEOREM RpcReturnsOnce == Spec => ReturnsOnce
<1>1. IInv /\ [Next]_vars => [\A i \in Ids : result[i] # Unset => result'[i] = result[i]]_vars
  BY NextStep
<1> QED
  BY <1>1, RpcInvariant, PTL DEF Spec, ReturnsOnce

\* No timer outlives its call, and no timed call waits without one unless its
\* timeout is already queued.
THEOREM RpcTimerGuardsWait == Spec => []TimerGuardsWait
<1>1. IInv => TimerGuardsWait
  BY DEF IInv, TimerGuardsWait
<1> QED
  BY <1>1, RpcInvariant, PTL
=============================================================================
