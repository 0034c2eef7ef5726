---------------------------- MODULE XThreadQueue ----------------------------
(***************************************************************************)
(* One registered xThread with the default (mutex) task queue: the threads *)
(* that post to it, its own loop, and the thread that unregisters it.      *)
(*                                                                         *)
(* Every step is one critical section of q->lock, or one access to the     *)
(* state shared outside that lock (running, poll/notify_wfd, the           *)
(* notification socket, the condition variable).  Task payloads, callbacks *)
(* and log output are abstracted; a task is told apart by its sender and   *)
(* its number.                                                             *)
(***************************************************************************)
EXTENDS Integers, Sequences, FiniteSets

CONSTANTS
  Producers,   \* threads calling xthread_post* on this thread
  Nodes,       \* the task slab of the queue (XTHREAD_TASK_POOL_SIZE nodes)
  Heap,        \* stands for any malloc'd node
  Kinds,       \* subset of {"post", "deadline", "reply"}
  Caps,        \* values xthread_set_queue_max may set; 0 = unlimited
  PipeCap,     \* bytes the notification socket holds before EAGAIN
  Roles,       \* which of "poll" worker, "cond" worker, "main" in xthread_update
  MaxPosts     \* bound: posts begun per producer

ASSUME QueueAssumption ==
  /\ Heap \notin Nodes
  /\ Kinds \subseteq {"post", "deadline", "reply"}
  /\ Caps # {} /\ Caps \subseteq Nat
  /\ PipeCap \in Nat \ {0}
  /\ Roles \subseteq {"poll", "cond", "main"}
  /\ MaxPosts \in Nat

VARIABLES
  role,                       \* what the owner is; fixed at registration
  queue, pending, max_size,   \* xQueue: list, notification flag, cap
  freelist,                   \* pool nodes not in use
  running, armed,             \* ctx->running; ctx->poll and notify_wfd valid
  pipe,                       \* bytes in the notification socket
  cpc, ret, batch, retired,   \* owner: where it is, what follows process_tasks,
                              \*   its local list and the nodes it will return
  ppc, ptask,                 \* producers: where each is and the task it fills
  upc,                        \* xthread_unregister
  posted,                     \* posts begun by each producer
  accepted, done, expired,    \* history: tasks accepted, taken by the owner,
  lost, late                  \*   of these dropped for their deadline; tasks
                              \*   freed unrun; accepted after the stop request

qvars == <<queue, pending, max_size, freelist>>
wvars == <<running, armed, pipe>>
cvars == <<cpc, ret, batch, retired>>
pvars == <<ppc, ptask, posted>>
hvars == <<accepted, done, expired, lost, late>>
vars  == <<role, qvars, wvars, cvars, pvars, upc, hvars>>

Task == [from : Producers, n : 0..MaxPosts, kind : {"post", "deadline", "reply"},
         node : Nodes \cup {Heap}]
-----------------------------------------------------------------------------
Init ==
  /\ role \in Roles
  /\ queue = <<>> /\ pending = 0 /\ max_size \in Caps /\ freelist = Nodes
  /\ running = TRUE /\ armed = FALSE /\ pipe = 0
  /\ cpc = "init" /\ ret = "loop" /\ batch = <<>> /\ retired = {}
  /\ ppc = [p \in Producers |-> "idle"]
  /\ ptask = [p \in Producers |-> [from |-> p, n |-> 0, kind |-> "post", node |-> Heap]]
  /\ upc = "idle"
  /\ posted = [p \in Producers |-> 0]
  /\ accepted = <<>> /\ done = <<>> /\ expired = {} /\ lost = <<>> /\ late = {}

Goto(p, l) == ppc' = [ppc EXCEPT ![p] = l]

\* pthread_cond_signal: wakes the owner only if it is already waiting.
Signal == cpc' = IF cpc = "wait" THEN "pop" ELSE cpc

\* write(notify_wfd): one more byte, or EAGAIN on a full socket, or a write to
\* an end the owner has closed since.
WriteByte == pipe' = IF armed /\ pipe < PipeCap THEN pipe + 1 ELSE pipe
-----------------------------------------------------------------------------
(* Producers: xthread_post_deadline / xthread_post_reply.                   *)

\* The target is looked up and is running.
PostBegin(p) == \E k \in Kinds :
  /\ ppc[p] = "idle" /\ running
  /\ posted[p] < MaxPosts
  /\ posted' = [posted EXCEPT ![p] = @ + 1]
  /\ ptask' = [ptask EXCEPT ![p] = [from |-> p, n |-> posted[p] + 1, kind |-> k, node |-> Heap]]
  /\ Goto(p, "check")
  /\ UNCHANGED <<role, qvars, wvars, cvars, upc, hvars>>

\* Mutant: the cap compared with > instead of >=.
FullOffByOne(p) == ptask[p].kind # "reply" /\ max_size > 0 /\ Len(queue) > max_size

\* The backpressure test of xqueue_push_internal; replies bypass it.
Full(p) == ptask[p].kind # "reply" /\ max_size > 0 /\ Len(queue) >= max_size

\* Mutant: the node is taken before the cap check and not given back on -2.
PostCheckLeaks(p) ==
  /\ ppc[p] = "check" /\ upc # "freed"
  /\ \/ /\ freelist # {}
        /\ \E n \in freelist :
             /\ freelist' = freelist \ {n}
             /\ ptask' = [ptask EXCEPT ![p].node = n]
        /\ Goto(p, IF Full(p) THEN "idle" ELSE "enqueue")
     \/ /\ freelist = {}
        /\ Goto(p, IF Full(p) THEN "idle" ELSE "malloc")
        /\ UNCHANGED <<freelist, ptask>>
  /\ UNCHANGED <<role, queue, pending, max_size, wvars, cvars, posted, upc, hvars>>

\* First critical section: -2 when full, else a node from the freelist if any.
PostCheck(p) ==
  /\ ppc[p] = "check" /\ upc # "freed"
  /\ \/ Full(p) /\ Goto(p, "idle") /\ UNCHANGED <<freelist, ptask>>
     \/ /\ ~Full(p)
        /\ \E n \in freelist :
             /\ freelist' = freelist \ {n}
             /\ ptask' = [ptask EXCEPT ![p].node = n]
        /\ Goto(p, "enqueue")
     \/ /\ ~Full(p) /\ freelist = {}
        /\ Goto(p, "malloc")
        /\ UNCHANGED <<freelist, ptask>>
  /\ UNCHANGED <<role, queue, pending, max_size, wvars, cvars, posted, upc, hvars>>

\* Pool exhausted: a heap node, or -1 when malloc fails.
PostMalloc(p) ==
  /\ ppc[p] = "malloc"
  /\ Goto(p, "enqueue") \/ Goto(p, "idle")
  /\ UNCHANGED <<role, qvars, wvars, cvars, ptask, posted, upc, hvars>>

\* Mutant: the node is linked in front of q->head instead of after q->tail.
PostEnqueueFront(p) ==
  /\ ppc[p] = "enqueue" /\ upc # "freed"
  /\ queue' = <<ptask[p]>> \o queue
  /\ accepted' = Append(accepted, ptask[p])
  /\ late' = IF running THEN late ELSE late \cup {ptask[p]}
  /\ pending' = 1
  /\ Goto(p, IF pending = 0 THEN "notify" ELSE "idle")
  /\ UNCHANGED <<role, max_size, freelist, wvars, cvars, ptask, posted, upc, done, expired, lost>>

\* Second critical section: append, and claim the notification if none is in flight.
PostEnqueue(p) ==
  /\ ppc[p] = "enqueue" /\ upc # "freed"
  /\ queue' = Append(queue, ptask[p])
  /\ accepted' = Append(accepted, ptask[p])
  /\ late' = IF running THEN late ELSE late \cup {ptask[p]}
  /\ pending' = 1
  /\ Goto(p, IF pending = 0 THEN "notify" ELSE "idle")
  /\ UNCHANGED <<role, max_size, freelist, wvars, cvars, ptask, posted, upc, done, expired, lost>>

\* xthread_notify: choose the wakeup from target->poll and notify_wfd.
PostNotify(p) ==
  /\ ppc[p] = "notify" /\ upc # "freed"
  /\ \/ armed /\ Goto(p, "write") /\ UNCHANGED cpc
     \/ ~armed /\ Goto(p, "idle") /\ Signal
  /\ UNCHANGED <<role, qvars, wvars, ret, batch, retired, ptask, posted, upc, hvars>>

PostWrite(p) ==
  /\ ppc[p] = "write"
  /\ WriteByte
  /\ Goto(p, "idle")
  /\ UNCHANGED <<role, qvars, running, armed, cvars, ptask, posted, upc, hvars>>

\* The xThread was freed under a post that is still using it.
PostUseAfterFree(p) ==
  /\ ppc[p] \in {"check", "enqueue", "notify"} /\ upc = "freed"
  /\ Goto(p, "uaf")
  /\ UNCHANGED <<role, qvars, wvars, cvars, ptask, posted, upc, hvars>>

\* xthread_set_queue_max (any thread).
SetQueueMax ==
  /\ upc # "freed"
  /\ \E m \in Caps : m # max_size /\ max_size' = m
  /\ UNCHANGED <<role, queue, pending, freelist, wvars, cvars, pvars, upc, hvars>>
-----------------------------------------------------------------------------
(* The owner: worker_func, or the main thread calling xthread_update.       *)

\* process_tasks, to be followed by r.
Process(r) == cpc' = "pop" /\ ret' = r

\* xthread_internal_init after on_init: arm the wakeup, then process_tasks.
\* A thread for which no socket pair can be made or registered goes on as one in the
\* role "cond"; that failure is left out.
WakeupInit ==
  /\ cpc = "init"
  /\ \/ ~running /\ cpc' = "loop" /\ UNCHANGED <<armed, ret>>
     \/ running /\ armed' = (role = "poll") /\ Process("loop")
  /\ UNCHANGED <<role, qvars, running, pipe, batch, retired, pvars, upc, hvars>>

\* Mutant: the worker leaves its loop without the last process_tasks.
LoopHeadNoFlush ==
  /\ cpc = "loop"
  /\ \/ ~running /\ cpc' = "uninit" /\ UNCHANGED ret
     \/ running /\ role = "poll" /\ Process("poll")
     \/ running /\ role = "cond" /\ cpc' = "gowait" /\ ret' = "loop"
     \/ running /\ role = "main" /\ Process("empty")
  /\ UNCHANGED <<role, qvars, wvars, batch, retired, pvars, upc, hvars>>

\* Mutant: the cond worker's loop does not test running.
LoopHeadIgnoresStop ==
  /\ cpc = "loop"
  /\ \/ ~running /\ role # "cond" /\ Process("uninit")
     \/ running /\ role = "poll" /\ Process("poll")
     \/ role = "cond" /\ cpc' = "gowait" /\ ret' = "loop"
     \/ running /\ role = "main" /\ Process("empty")
  /\ UNCHANGED <<role, qvars, wvars, batch, retired, pvars, upc, hvars>>

\* Head of the loop: what the owner does next in each role.
LoopHead ==
  /\ cpc = "loop"
  /\ \/ ~running /\ Process("uninit")
     \/ running /\ role = "poll" /\ Process("poll")
     \/ running /\ role = "cond" /\ cpc' = "gowait" /\ ret' = "loop"
     \/ running /\ role = "main" /\ Process("empty")
  /\ UNCHANGED <<role, qvars, wvars, batch, retired, pvars, upc, hvars>>

\* Mutant: xqueue_pop_all forgets to reset pending.
PopAllKeepsPending ==
  /\ cpc = "pop"
  /\ batch' = queue /\ queue' = <<>>
  /\ cpc' = "run"
  /\ UNCHANGED <<role, pending, max_size, freelist, wvars, ret, retired, pvars, upc, hvars>>

\* xqueue_pop_all
PopAll ==
  /\ cpc = "pop"
  /\ pending' = 0
  /\ batch' = queue /\ queue' = <<>>
  /\ cpc' = "run"
  /\ UNCHANGED <<role, max_size, freelist, wvars, ret, retired, pvars, upc, hvars>>

\* Mutant: from_heap is ignored, malloc'd nodes go to the freelist as well.
RunTaskRetiresHeap ==
  /\ cpc = "run" /\ batch # <<>>
  /\ done' = Append(done, Head(batch))
  /\ UNCHANGED expired
  /\ batch' = Tail(batch)
  /\ retired' = retired \cup {Head(batch).node}
  /\ UNCHANGED <<role, qvars, wvars, cpc, ret, pvars, upc, accepted, lost, late>>

\* One task of the batch: run it, or drop it when its deadline has passed.
RunTask ==
  /\ cpc = "run" /\ batch # <<>>
  /\ done' = Append(done, Head(batch))
  /\ \/ UNCHANGED expired
     \/ Head(batch).kind = "deadline" /\ expired' = expired \cup {Head(batch)}
  /\ batch' = Tail(batch)
  /\ retired' = retired \cup ({Head(batch).node} \ {Heap})
  /\ UNCHANGED <<role, qvars, wvars, cpc, ret, pvars, upc, accepted, lost, late>>

\* End of process_tasks: the batch's pool nodes go back under one lock.
ReturnNodes ==
  /\ cpc = "run" /\ batch = <<>>
  /\ freelist' = freelist \cup retired
  /\ retired' = {}
  /\ cpc' = ret
  /\ UNCHANGED <<role, queue, pending, max_size, wvars, ret, batch, pvars, upc, hvars>>

\* xthread_update: wait only if the queue is still empty.
CheckEmpty ==
  /\ cpc = "empty"
  /\ cpc' = IF queue = <<>> THEN "gowait" ELSE "loop"
  /\ ret' = "loop"
  /\ UNCHANGED <<role, qvars, wvars, batch, retired, pvars, upc, hvars>>

\* xqueue_wait: asleep on the condition variable, with no predicate to re-check.
EnterWait ==
  /\ cpc = "gowait"
  /\ cpc' = "wait"
  /\ UNCHANGED <<role, qvars, wvars, ret, batch, retired, pvars, upc, hvars>>

\* Mutant: after a wait that timed out the worker does not look at its queue.
WaitEndsNoUpdate ==
  /\ cpc = "wait"
  /\ cpc' = "loop"
  /\ UNCHANGED <<role, qvars, wvars, ret, batch, retired, pvars, upc, hvars>>

\* xqueue_wait ends without a signal (timeout or spurious wakeup).
WaitEnds ==
  /\ cpc = "wait"
  /\ cpc' = "pop"
  /\ UNCHANGED <<role, qvars, wvars, ret, batch, retired, pvars, upc, hvars>>

\* on_update in xpoll_poll: notify_read_cb drains the socket, then process_tasks.
PollWake ==
  /\ cpc = "poll" /\ pipe > 0
  /\ pipe' = 0
  /\ Process("loop")
  /\ UNCHANGED <<role, qvars, running, armed, batch, retired, pvars, upc, hvars>>

\* xpoll_poll returns for a timeout or for another descriptor.
PollReturns ==
  /\ cpc = "poll"
  /\ cpc' = "loop"
  /\ UNCHANGED <<role, qvars, wvars, ret, batch, retired, pvars, upc, hvars>>

\* xthread_wakeup_uninit_ctx: both ends of the socket are closed.
Uninit ==
  /\ cpc = "uninit"
  /\ armed' = FALSE /\ pipe' = 0
  /\ cpc' = "stopped"
  /\ UNCHANGED <<role, qvars, running, ret, batch, retired, pvars, upc, hvars>>
-----------------------------------------------------------------------------
(* xthread_unregister: by another thread, or by main itself between calls.  *)

\* Mutant: the worker is joined without being woken.
UnregisterSilently ==
  /\ upc = "idle" /\ (role = "main" => cpc = "loop")
  /\ running' = FALSE
  /\ upc' = "join"
  /\ UNCHANGED <<role, qvars, armed, pipe, cvars, pvars, hvars>>

\* running = false; main stops itself, a worker has to be woken.
Unregister ==
  /\ upc = "idle" /\ (role = "main" => cpc = "loop")
  /\ running' = FALSE
  /\ upc' = IF role = "main" THEN "join" ELSE "notify"
  /\ UNCHANGED <<role, qvars, armed, pipe, cvars, pvars, hvars>>

UnregisterNotify ==
  /\ upc = "notify"
  /\ \/ armed /\ upc' = "write" /\ UNCHANGED cpc
     \/ ~armed /\ upc' = "join" /\ Signal
  /\ UNCHANGED <<role, qvars, wvars, ret, batch, retired, pvars, hvars>>

UnregisterWrite ==
  /\ upc = "write"
  /\ WriteByte
  /\ upc' = "join"
  /\ UNCHANGED <<role, qvars, running, armed, cvars, pvars, hvars>>

\* After the join: xqueue_uninit frees the queued tasks and the slab, then ctx.
Destroy ==
  /\ upc = "join" /\ cpc = "stopped"
  /\ lost' = lost \o queue
  /\ queue' = <<>> /\ freelist' = {}
  /\ upc' = "freed"
  /\ UNCHANGED <<role, pending, max_size, wvars, cvars, pvars, accepted, done, expired, late>>
-----------------------------------------------------------------------------
ProducerStep(p) ==
  \/ PostCheck(p) \/ PostMalloc(p) \/ PostEnqueue(p)
  \/ PostNotify(p) \/ PostWrite(p) \/ PostUseAfterFree(p)

OwnerStep ==
  \/ WakeupInit \/ LoopHead \/ PopAll \/ RunTask \/ ReturnNodes
  \/ CheckEmpty \/ EnterWait \/ PollWake \/ Uninit

UnregisterStep == UnregisterNotify \/ UnregisterWrite \/ Destroy

Next ==
  \/ \E p \in Producers : PostBegin(p) \/ ProducerStep(p)
  \/ SetQueueMax
  \/ OwnerStep \/ WaitEnds \/ PollReturns
  \/ Unregister \/ UnregisterStep

(***************************************************************************)
(* Every thread keeps running: a post once begun, the owner and the        *)
(* unregistering thread take their steps, and a wait on the condition      *)
(* variable, which has a timeout in every call, ends.  Nothing obliges     *)
(* anybody to post or to unregister, or xpoll_poll to time out.            *)
(***************************************************************************)
Fairness ==
  /\ \A p \in Producers : WF_vars(ProducerStep(p))
  /\ WF_vars(OwnerStep)
  /\ WF_vars(UnregisterStep)
  /\ WF_vars(WaitEnds)

Spec == Init /\ [][Next]_vars

FairSpec == Spec /\ Fairness
-----------------------------------------------------------------------------
(* Properties.                                                              *)

Labels == {"idle", "check", "malloc", "enqueue", "notify", "write", "uaf"}

\* The types of the queue, of the owner's locals and of every thread's position.
TypeOK ==
  /\ role \in Roles
  /\ queue \in Seq(Task) /\ pending \in {0, 1} /\ max_size \in Caps
  /\ freelist \subseteq Nodes
  /\ running \in BOOLEAN /\ armed \in BOOLEAN /\ pipe \in 0..PipeCap
  /\ cpc \in {"init", "loop", "pop", "run", "empty", "gowait", "wait", "poll",
             "uninit", "stopped"}
  /\ ret \in {"loop", "empty", "poll", "uninit"}
  /\ batch \in Seq(Task) /\ retired \subseteq Nodes
  /\ ppc \in [Producers -> Labels]
  /\ ptask \in [Producers -> Task]
  /\ upc \in {"idle", "notify", "write", "join", "freed"}
  /\ posted \in [Producers -> 0..MaxPosts]
  /\ accepted \in Seq(Task) /\ done \in Seq(Task) /\ lost \in Seq(Task)
  /\ expired \subseteq Task /\ late \subseteq Task

\* The wakeup protocol never strands a task: while the owner sleeps in
\* xpoll_poll with tasks queued, a byte is in the notification socket or a
\* producer that claimed the notification has yet to write it.  At stake in
\* xqueue_push_internal / xqueue_pop_all (the pending flag), notify_read_cb
\* (drain before pop) and xthread_wakeup_init_ctx (arm before processing).
NoLostWakeup ==
  cpc = "poll" /\ queue # <<>> =>
    pipe > 0 \/ \E p \in Producers : ppc[p] \in {"notify", "write"}

\* The same for a stop request: xthread_unregister never joins a worker that
\* sleeps in xpoll_poll unaware of running = false.
NoLostStop ==
  cpc = "poll" /\ ~running => pipe > 0 \/ upc \in {"notify", "write"}

\* Every accepted task is exactly once, and in the order of acceptance, with
\* the owner (done, then batch), in the queue, or among those freed with it:
\* nothing is lost, duplicated or overtaken by pop_all and the batch loop.
TasksInOrder == accepted = done \o lost \o batch \o queue

\* Who holds pool node n.
Holders(n) ==
  {<<"freelist", 0>> : x \in freelist \cap {n}}
  \cup {<<"retired", 0>> : x \in retired \cap {n}}
  \cup {<<"producer", p>> : p \in {q \in Producers : ppc[q] = "enqueue" /\ ptask[q].node = n}}
  \cup {<<"batch", i>> : i \in {j \in DOMAIN batch : batch[j].node = n}}
  \cup {<<"queue", i>> : i \in {j \in DOMAIN queue : queue[j].node = n}}

\* The slab is conserved: until it is freed every pool node is in exactly one
\* place, so no task overwrites another and no error path leaks a node.
PoolConserved ==
  upc # "freed" => \A n \in Nodes : Cardinality(Holders(n)) = 1

Capped(t) == t.kind # "reply"

\* The cap is only checked in the first critical section, so it can be passed
\* by the producers between the two sections, and by no more than those (the
\* comment in xqueue_push_internal: "basic backpressure effects").
SoftCap ==
  \A c \in Caps \ {0} : (\A d \in Caps : d <= c /\ d # 0) =>
    Cardinality({i \in DOMAIN queue : Capped(queue[i])}) < c + Cardinality(Producers)

\* Only tasks accepted after the stop request can be freed unrun: the last
\* process_tasks of worker_func runs everything accepted before it.
OnlyLateTasksLost == \A i \in DOMAIN lost : lost[i] \in late

\* Every task accepted is eventually taken by the owner, or the thread is
\* destroyed; and unless it carries a deadline it is then run.
EventuallyTaken ==
  \A p \in Producers, m \in 1..MaxPosts :
    (\E i \in DOMAIN accepted : accepted[i].from = p /\ accepted[i].n = m)
      ~> \/ upc = "freed"
         \/ \E i \in DOMAIN done :
              /\ done[i].from = p /\ done[i].n = m
              /\ done[i].kind # "deadline" => done[i] \notin expired

\* xthread_unregister always returns: the worker is woken and stops.
UnregisterReturns == ~running ~> (upc = "freed")

(* The inductive invariant behind NoLostWakeup, NoLostStop, TasksInOrder and *)
(* OnlyLateTasksLost.                                                       *)

\* Where the owner can be while the notification socket does (not) exist.
ArmedInv ==
  /\ role # "poll" => cpc # "poll" /\ ret # "poll"
  /\ role = "poll" => cpc \notin {"empty", "gowait", "wait"} /\ ret # "empty"
  /\ armed => role = "poll" /\ cpc \notin {"init", "stopped"}
  /\ role = "poll" /\ ~armed =>
       \/ cpc \in {"init", "uninit", "stopped"}
       \/ cpc = "loop" /\ ~running
       \/ cpc \in {"pop", "run"} /\ ret = "uninit"

\* A claimed notification is on its way until the owner is about to pop.
PendingInv ==
  /\ queue # <<>> => pending = 1
  /\ armed /\ pending = 1 /\ cpc # "pop" =>
       pipe > 0 \/ \E p \in Producers : ppc[p] \in {"notify", "write"}

\* The owner heads for (or is in) xpoll_poll.
Sleeping == cpc = "poll" \/ (cpc \in {"pop", "run"} /\ ret = "poll")

\* The owner is past the last test of running.
Leaving == cpc \in {"uninit", "stopped"} \/ (cpc \in {"pop", "run"} /\ ret = "uninit")

StopInv ==
  /\ running <=> upc = "idle"
  /\ Leaving => ~running
  /\ Sleeping /\ ~running => pipe > 0 \/ upc \in {"notify", "write"}
  /\ upc = "freed" => cpc = "stopped"
  /\ lost # <<>> => upc = "freed"
  /\ cpc # "run" => batch = <<>>
  /\ cpc \in {"gowait", "wait"} => ret = "loop"
  /\ Leaving /\ cpc # "pop" => \A i \in DOMAIN queue : queue[i] \in late

(* The inductive invariants behind PoolConserved and SoftCap.               *)

\* Producer p is about to queue a task in node n.
Filling(p, n) == ppc[p] = "enqueue" /\ ptask[p].node = n

\* Node n is in some place, and in no second one.
HeldOnce(n) ==
  /\ \/ n \in freelist \/ n \in retired
     \/ \E p \in Producers : Filling(p, n)
     \/ \E i \in DOMAIN batch : batch[i].node = n
     \/ \E i \in DOMAIN queue : queue[i].node = n
  /\ n \in freelist => n \notin retired
  /\ n \in freelist \cup retired =>
       /\ \A p \in Producers : ~Filling(p, n)
       /\ \A i \in DOMAIN batch : batch[i].node # n
       /\ \A i \in DOMAIN queue : queue[i].node # n
  /\ \A p \in Producers : Filling(p, n) =>
       /\ \A q \in Producers : Filling(q, n) => q = p
       /\ \A i \in DOMAIN batch : batch[i].node # n
       /\ \A i \in DOMAIN queue : queue[i].node # n
  /\ \A i \in DOMAIN batch : batch[i].node = n =>
       /\ \A j \in DOMAIN batch : batch[j].node = n => j = i
       /\ \A j \in DOMAIN queue : queue[j].node # n
  /\ \A i, j \in DOMAIN queue : queue[i].node = n /\ queue[j].node = n => i = j

\* A producer without a pool node says so until it has malloc'd one.
PoolInv ==
  /\ \A p \in Producers : ppc[p] \in {"check", "malloc"} => ptask[p].node = Heap
  /\ upc # "freed" => \A n \in Nodes : HeldOnce(n)

\* The producers past the cap check with a task that is counted.
Admitted == {p \in Producers : ppc[p] \in {"malloc", "enqueue"} /\ Capped(ptask[p])}

CapInv ==
  \A c \in Caps \ {0} : (\A d \in Caps : d <= c /\ d # 0) =>
    Cardinality({i \in DOMAIN queue : Capped(queue[i])}) + Cardinality(Admitted)
      < c + Cardinality(Producers)

IInv == TypeOK /\ ArmedInv /\ PendingInv /\ StopInv /\ TasksInOrder /\ OnlyLateTasksLost

\* The owner and its queue implement the mailbox that xthread.h promises.
Mailbox == INSTANCE TaskMailbox WITH
  sent <- accepted, box <- batch \o queue, done <- done, lost <- lost

MailboxSpec == Mailbox!Spec
=============================================================================
