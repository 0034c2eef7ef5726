----------------------------- MODULE XThreadRpc -----------------------------
(***************************************************************************)
(* xthread.rpc between two registered threads (lua_xthread.c): the         *)
(* coroutines of the calling thread, its pending and timer tables and its  *)
(* task queue, and the callee with its bounded queue.  Both queues are the *)
(* mailboxes of XThreadQueue.  Everything on the calling thread happens in *)
(* one OS thread, so each of its steps is a task, a timer callback, or a   *)
(* coroutine up to its next yield.                                         *)
(*                                                                         *)
(* Time is not counted: a deadline may have passed whenever the callee     *)
(* looks, a timer may fire whenever the caller polls.                      *)
(***************************************************************************)
EXTENDS Integers, Sequences, FiniteSets

CONSTANTS
  Cos, NoCo,    \* the calling thread's coroutines; no coroutine
  MaxCalls,     \* bound: calls made in all; co_id runs from 1 to MaxCalls
  MaxReplies,   \* bound: replies the callee's script sends to one request
  QueueMax      \* max_size of the callee's queue

ASSUME RpcAssumption ==
  /\ NoCo \notin Cos /\ MaxCalls \in Nat /\ MaxReplies \in Nat /\ QueueMax \in Nat \ {0}

Ids == 1..MaxCalls

VARIABLES
  next_id,      \* XTHREAD_COID_KEY
  pending,      \* XTHREAD_PENDING_KEY: co_id -> coroutine
  timers,       \* _rpc_timers: co_ids whose xtimer is armed
  inbox,        \* @async_resume tasks posted to the caller: replies and timeouts
  costate,      \* each coroutine: running its script, yielded in an rpc, or dead
  co_id,        \* local of rpc_wait in each coroutine
  requests,     \* the callee's queue
  replies,      \* replies the callee may still send for each request it took
  oom,          \* history: calls whose timer, timeout or reply malloc refused
  timed,        \* history: calls with timeout_ms > 0
  result        \* history: what each call returned: the co_id the value was sent
                \*   to and its kind

caller == <<next_id, pending, timers, costate, co_id>>
callee == <<requests, replies>>
vars   == <<caller, inbox, callee, oom, timed, result>>

Unset == [for |-> 0, kind |-> "none"]

Init ==
  /\ next_id = 1
  /\ pending = [i \in Ids |-> NoCo] /\ timers = {} /\ inbox = <<>>
  /\ costate = [c \in Cos |-> "run"] /\ co_id = [c \in Cos |-> 0]
  /\ requests = <<>> /\ replies = [i \in Ids |-> 0]
  /\ oom = {} /\ timed = {} /\ result = [i \in Ids |-> Unset]
-----------------------------------------------------------------------------
(* The calling thread.                                                      *)

\* l_xthread_rpc refused: no co_id left in pending, (false, err) to the script.
RpcRefused(c) ==
  /\ costate[c] = "run" /\ next_id \in Ids
  /\ next_id' = next_id + 1
  /\ result' = [result EXCEPT ![next_id] = [for |-> next_id, kind |-> "error"]]
  /\ UNCHANGED <<pending, timers, costate, co_id, inbox, callee, oom, timed>>

\* Mutant: the id is not advanced, so the next call reuses it.
RpcReusesId(c, t) ==
  /\ costate[c] = "run" /\ next_id \in Ids
  /\ Len(requests) < QueueMax
  /\ requests' = Append(requests, next_id)
  /\ pending' = [pending EXCEPT ![next_id] = c]
  /\ timed' = IF t THEN timed \cup {next_id} ELSE timed
  /\ timers' = IF t THEN timers \cup {next_id} ELSE timers
  /\ costate' = [costate EXCEPT ![c] = "yield"]
  /\ co_id' = [co_id EXCEPT ![c] = next_id]
  /\ UNCHANGED <<next_id, inbox, replies, oom, result>>

\* rpc_wait: register under a fresh id, post the request, arm the timer, yield.
\* When the timer cannot be had the error ends the coroutine.
Rpc(c, t) ==
  /\ costate[c] = "run" /\ next_id \in Ids
  /\ Len(requests) < QueueMax
  /\ next_id' = next_id + 1
  /\ requests' = Append(requests, next_id)
  /\ pending' = [pending EXCEPT ![next_id] = c]
  /\ timed' = IF t THEN timed \cup {next_id} ELSE timed
  /\ \/ /\ timers' = IF t THEN timers \cup {next_id} ELSE timers
        /\ costate' = [costate EXCEPT ![c] = "yield"]
        /\ co_id' = [co_id EXCEPT ![c] = next_id]
        /\ UNCHANGED oom
     \/ /\ t /\ oom' = oom \cup {next_id}
        /\ costate' = [costate EXCEPT ![c] = "dead"]
        /\ UNCHANGED <<timers, co_id>>
  /\ UNCHANGED <<inbox, replies, result>>

\* Mutant: the reply is addressed to the next co_id.
PostResumeNextId(i, k) ==
  inbox' = Append(inbox, [for |-> i + 1, kind |-> k]) /\ UNCHANGED oom

\* post_reply to this thread: not bounded by the cap, lost only without memory.
PostResume(i, k) ==
  \/ inbox' = Append(inbox, [for |-> i, kind |-> k]) /\ UNCHANGED oom
  \/ oom' = oom \cup {i} /\ UNCHANGED inbox

\* Mutant: the timer is forgotten and no timeout is posted.
TimerFiresSilently(i) ==
  /\ i \in timers
  /\ timers' = timers \ {i}
  /\ UNCHANGED <<next_id, pending, costate, co_id, inbox, callee, oom, timed, result>>

\* The xtimer callback of rpc_wait: forget the timer, post a synthetic reply.
TimerFires(i) ==
  /\ i \in timers
  /\ timers' = timers \ {i}
  /\ PostResume(i, "timeout")
  /\ UNCHANGED <<next_id, pending, costate, co_id, callee, timed, result>>

\* Mutant: the entry stays in the pending table after the resume.
ResumeKeepsPending ==
  /\ inbox # <<>> /\ inbox' = Tail(inbox)
  /\ LET m == Head(inbox)
         c == pending[m.for]
     IN IF c # NoCo /\ costate[c] = "yield"
        THEN /\ result' = [result EXCEPT ![co_id[c]] = m]
             /\ timers' = timers \ {co_id[c]}
             /\ costate' = [costate EXCEPT ![c] = "run"]
             /\ UNCHANGED pending
        ELSE UNCHANGED <<pending, result, timers, costate>>
  /\ UNCHANGED <<next_id, co_id, callee, oom, timed>>

\* Mutant: rpc_wait does not delete its timer after the resume.
ResumeLeavesTimer ==
  /\ inbox # <<>> /\ inbox' = Tail(inbox)
  /\ LET m == Head(inbox)
         c == pending[m.for]
     IN /\ pending' = [pending EXCEPT ![m.for] = NoCo]
        /\ IF c # NoCo /\ costate[c] = "yield"
           THEN /\ result' = [result EXCEPT ![co_id[c]] = m]
                /\ costate' = [costate EXCEPT ![c] = "run"]
                /\ UNCHANGED timers
           ELSE UNCHANGED <<result, timers, costate>>
  /\ UNCHANGED <<next_id, co_id, callee, oom, timed>>

\* thread_message_handler on @async_resume: pop the coroutine and resume it with
\* the values, whereupon rpc_wait deletes the timer of its own call and returns.
\* A co_id that is not pending is ignored, a dead coroutine cannot be resumed.
Resume ==
  /\ inbox # <<>> /\ inbox' = Tail(inbox)
  /\ LET m == Head(inbox)
         c == pending[m.for]
     IN /\ pending' = [pending EXCEPT ![m.for] = NoCo]
        /\ IF c # NoCo /\ costate[c] = "yield"
           THEN /\ result' = [result EXCEPT ![co_id[c]] = m]
                /\ timers' = timers \ {co_id[c]}
                /\ costate' = [costate EXCEPT ![c] = "run"]
           ELSE UNCHANGED <<result, timers, costate>>
  /\ UNCHANGED <<next_id, co_id, callee, oom, timed>>
-----------------------------------------------------------------------------
(* The callee.                                                              *)

\* process_tasks: a request past its deadline is dropped unseen.
DropExpired ==
  /\ requests # <<>> /\ Head(requests) \in timed
  /\ requests' = Tail(requests)
  /\ UNCHANGED <<caller, inbox, replies, oom, timed, result>>

\* The handler takes the request; its script replies later, if at all.
Take ==
  /\ requests # <<>>
  /\ requests' = Tail(requests)
  /\ replies' = [replies EXCEPT ![Head(requests)] = MaxReplies]
  /\ UNCHANGED <<caller, inbox, oom, timed, result>>

\* l_reply_func
Reply(i) ==
  /\ replies[i] > 0
  /\ replies' = [replies EXCEPT ![i] = @ - 1]
  /\ PostResume(i, "reply")
  /\ UNCHANGED <<caller, requests, timed, result>>
-----------------------------------------------------------------------------
Next ==
  \/ \E c \in Cos : RpcRefused(c) \/ \E t \in BOOLEAN : Rpc(c, t)
  \/ \E i \in Ids : TimerFires(i) \/ Reply(i)
  \/ Resume \/ DropExpired \/ Take

\* The calling thread polls its timers and works off its queue; nothing makes
\* the callee take or answer a request.
Fairness == (\A i \in Ids : WF_vars(TimerFires(i))) /\ WF_vars(Resume)

Spec == Init /\ [][Next]_vars

FairSpec == Spec /\ Fairness
-----------------------------------------------------------------------------
(* Properties.                                                              *)

Message == [for : Ids, kind : {"reply", "timeout"}]

\* The types of both threads' tables and queues.
TypeOK ==
  /\ next_id \in 1..(MaxCalls + 1)
  /\ pending \in [Ids -> Cos \cup {NoCo}] /\ timers \subseteq Ids
  /\ inbox \in Seq(Message)
  /\ costate \in [Cos -> {"run", "yield", "dead"}] /\ co_id \in [Cos -> 0..MaxCalls]
  /\ requests \in Seq(Ids) /\ replies \in [Ids -> 0..MaxReplies]
  /\ oom \subseteq Ids /\ timed \subseteq Ids
  /\ result \in [Ids -> [for : 0..MaxCalls, kind : {"none", "error", "reply", "timeout"}]]

\* A coroutine waits for exactly the call it is registered for: each yielded
\* coroutine is in pending under the co_id of its present call and under no
\* other, so no later message can resume it at the wrong place.
WaitsForItsCall ==
  \A c \in Cos : costate[c] # "dead" =>
    {i \in Ids : pending[i] = c} = IF costate[c] = "yield" THEN {co_id[c]} ELSE {}

\* What a call returns was sent for this call: late replies, second replies and
\* a timeout racing a reply never reach another call of the same thread or
\* coroutine ("co_id not found (late reply or timeout)").
OwnResult == \A i \in Ids : result[i] # Unset => result[i].for = i

\* A call returns once: its result never changes afterwards.
ReturnsOnce == [][\A i \in Ids : result[i] # Unset => result'[i] = result[i]]_vars

\* A timer belongs to a timed call that waits.
TimerInv == \A i \in timers : i \in timed /\ pending[i] # NoCo /\ costate[pending[i]] = "yield"

\* Without memory trouble a timed call keeps its timer until its timeout is queued.
TimeoutInv ==
  \A i \in timed \ oom : pending[i] # NoCo =>
    i \in timers \/ \E k \in DOMAIN inbox : inbox[k] = [for |-> i, kind |-> "timeout"]

\* A timer is armed only for a call that still waits, so none outlives its call;
\* a timed call that waits has its timer or the timeout is already queued.
TimerGuardsWait == TimerInv /\ TimeoutInv

(* The inductive invariant behind them.                                     *)

\* pending and the coroutines point at each other.
Linked ==
  /\ \A i \in Ids : pending[i] # NoCo =>
       \/ costate[pending[i]] = "dead"
       \/ costate[pending[i]] = "yield" /\ co_id[pending[i]] = i
  /\ \A c \in Cos : costate[c] = "yield" => co_id[c] \in Ids /\ pending[co_id[c]] = c

\* A co_id that waits has no result yet; one not handed out has left no trace.
Fresh ==
  /\ \A i \in Ids : pending[i] # NoCo => result[i] = Unset
  /\ \A i \in Ids : i >= next_id => pending[i] = NoCo /\ result[i] = Unset /\ i \notin timed

IInv == TypeOK /\ Linked /\ Fresh /\ OwnResult /\ TimerInv /\ TimeoutInv

\* The manual on timeout_ms: "a positive value caps caller wait time".  Whatever
\* the callee does, a call with a timeout returns (short of a failed malloc).
TimedCallReturns == \A i \in Ids : (i \in timed) ~> (result[i] # Unset \/ i \in oom)
=============================================================================
