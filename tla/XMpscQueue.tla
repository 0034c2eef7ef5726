----------------------------- MODULE XMpscQueue -----------------------------
(***************************************************************************)
(* One registered xThread built with -DXTHREAD_MPSCQ: the lock-free stack  *)
(* of xmpsc_queue.h with its pointers, the notify_pending protocol, the    *)
(* soft depth counter, a poll-driven owner and its unregistration.         *)
(*                                                                         *)
(* Nodes are addresses: one that was freed can be handed out again by      *)
(* malloc while a producer still holds it as the old head it read (ABA).   *)
(* Every step is one atomic operation on a shared word, or a run of        *)
(* accesses to memory private to the thread that makes them; the atomics   *)
(* are taken as sequentially consistent.                                   *)
(***************************************************************************)
EXTENDS Integers, Sequences, FiniteSets, SequencesExt

CONSTANTS
  Producers,   \* threads posting to this one
  Nodes,       \* addresses malloc can return for a task
  Null,        \* the null pointer
  Kinds,       \* subset of {"post", "reply"}
  MaxPending,  \* max_pending_tasks; 0 = unlimited
  MaxPosts     \* bound: posts begun per producer

ASSUME MpscAssumption ==
  /\ Null \notin Nodes /\ IsFiniteSet(Producers) /\ IsFiniteSet(Nodes)
  /\ Kinds \subseteq {"post", "reply"}
  /\ MaxPending \in Nat /\ MaxPosts \in Nat

VARIABLES
  head, cache, next,          \* xMPSCQueue, and the node->next fields
  task, free,                 \* the task a node carries; addresses not in use
  pending_tasks, notify_pending,
  running, armed, pipe,       \* ctx->running, notification socket (0 or 1 byte)
  cpc, ret, cur,              \* owner: position, continuation, node being run
  ppc, pnode, old_head, need, \* producers: position, node, last head read,
                              \*   what xchg on notify_pending told them
  upc,                        \* xthread_unregister
  posted, sent, done, lost    \* history

mvars == <<head, cache, next, task, free>>
wvars == <<running, armed, pipe>>
cvars == <<cpc, ret, cur>>
pvars == <<ppc, pnode, old_head, need, posted>>
hvars == <<sent, done, lost>>
vars  == <<mvars, pending_tasks, notify_pending, wvars, cvars, pvars, upc, hvars>>

Pointer == Nodes \cup {Null}
Task == [from : Producers, n : 0..MaxPosts, kind : {"post", "reply"}]
NoTask == [from |-> Null, n |-> 0, kind |-> "post"]   \* freed memory

\* The nodes from pointer x on: at[k] is reached after k links, Null past the end.
Chain(x) ==
  LET at[k \in 0..Cardinality(Nodes)] ==
        IF k = 0 THEN x ELSE IF at[k - 1] = Null THEN Null ELSE next[at[k - 1]]
      len == CHOOSE k \in DOMAIN at : at[k] = Null /\ \A i \in 0..(k - 1) : at[i] # Null
  IN [i \in 1..len |-> at[i - 1]]

\* The tasks those nodes carry.
Tasks(ns) == [i \in DOMAIN ns |-> task[ns[i]]]
-----------------------------------------------------------------------------
Init ==
  /\ head = Null /\ cache = Null
  /\ next = [n \in Nodes |-> Null] /\ task = [n \in Nodes |-> NoTask]
  /\ free = Nodes
  /\ pending_tasks = 0 /\ notify_pending = 0
  /\ running = TRUE /\ armed = FALSE /\ pipe = 0
  /\ cpc = "init" /\ ret = "loop" /\ cur = Null
  /\ ppc = [p \in Producers |-> "idle"]
  /\ pnode = [p \in Producers |-> Null] /\ old_head = [p \in Producers |-> Null]
  /\ need = [p \in Producers |-> FALSE]
  /\ posted = [p \in Producers |-> 0]
  /\ upc = "idle" /\ sent = <<>> /\ done = <<>> /\ lost = <<>>

Goto(p, l) == ppc' = [ppc EXCEPT ![p] = l]
-----------------------------------------------------------------------------
(* Producers: xmpscq_push_internal, xmpsc_push, xthread_notify.             *)

\* Mutant: the post goes on to push without having raised pending_tasks.
PostCheckUncounted(p) == \E k \in Kinds :
  /\ ppc[p] = "idle" /\ running /\ posted[p] < MaxPosts
  /\ posted' = [posted EXCEPT ![p] = @ + 1]
  /\ k = "reply" \/ MaxPending = 0 \/ pending_tasks < MaxPending
  /\ \E n \in free :
       /\ free' = free \ {n}
       /\ task' = [task EXCEPT ![n] = [from |-> p, n |-> posted[p] + 1, kind |-> k]]
       /\ pnode' = [pnode EXCEPT ![p] = n]
       /\ Goto(p, "load")
  /\ UNCHANGED <<head, cache, next, pending_tasks, notify_pending, wvars, cvars,
                 old_head, need, upc, hvars>>

\* Mutant: the depth is compared with > instead of >=.
AboveCapOffByOne(k) == k # "reply" /\ MaxPending > 0 /\ pending_tasks > MaxPending

AboveCap(k) == k # "reply" /\ MaxPending > 0 /\ pending_tasks >= MaxPending

\* Lookup, cap check and malloc: -1 for a stopping thread (no step), -2 above
\* the cap, -1 when malloc fails, else a private node with the task filled in.
PostCheck(p) == \E k \in Kinds :
  /\ ppc[p] = "idle" /\ running /\ posted[p] < MaxPosts
  /\ posted' = [posted EXCEPT ![p] = @ + 1]
  /\ \/ UNCHANGED <<free, task, pnode, ppc>>   \* refused, or malloc failed
     \/ /\ ~AboveCap(k)
        /\ \E n \in free :
             /\ free' = free \ {n}
             /\ task' = [task EXCEPT ![n] = [from |-> p, n |-> posted[p] + 1, kind |-> k]]
             /\ pnode' = [pnode EXCEPT ![p] = n]
             /\ Goto(p, "add")
  /\ UNCHANGED <<head, cache, next, pending_tasks, notify_pending, wvars, cvars,
                 old_head, need, upc, hvars>>

\* atomic_fetch_add(&t->pending_tasks, 1)
PostAdd(p) ==
  /\ ppc[p] = "add" /\ upc # "freed"
  /\ pending_tasks' = pending_tasks + 1
  /\ Goto(p, "load")
  /\ UNCHANGED <<mvars, notify_pending, wvars, cvars, pnode, old_head, need, posted, upc, hvars>>

\* xmpsc_push: read the head and link the private node to it.
PostLoad(p) ==
  /\ ppc[p] = "load" /\ upc # "freed"
  /\ old_head' = [old_head EXCEPT ![p] = head]
  /\ next' = [next EXCEPT ![pnode[p]] = head]
  /\ Goto(p, "cas")
  /\ UNCHANGED <<head, cache, task, free, pending_tasks, notify_pending, wvars, cvars,
                 pnode, need, posted, upc, hvars>>

\* Mutant: the node is published by a plain store instead of a CAS.
PostStore(p) ==
  /\ ppc[p] = "cas" /\ upc # "freed"
  /\ head' = pnode[p]
  /\ sent' = Append(sent, task[pnode[p]])
  /\ Goto(p, "xchg")
  /\ UNCHANGED <<cache, next, task, free, pending_tasks, notify_pending, wvars, cvars,
                 pnode, old_head, need, posted, upc, done, lost>>

\* The CAS: publish the node, or start over when the head has changed.
PostCas(p) ==
  /\ ppc[p] = "cas" /\ upc # "freed"
  /\ \/ /\ head = old_head[p]
        /\ head' = pnode[p]
        /\ sent' = Append(sent, task[pnode[p]])
        /\ Goto(p, "xchg")
     \/ /\ head # old_head[p]
        /\ Goto(p, "load")
        /\ UNCHANGED <<head, sent>>
  /\ UNCHANGED <<cache, next, task, free, pending_tasks, notify_pending, wvars, cvars,
                 pnode, old_head, need, posted, upc, done, lost>>

\* need_notify = (atomic_exchange(&t->notify_pending, 1) == 0)
PostExchange(p) ==
  /\ ppc[p] = "xchg" /\ upc # "freed"
  /\ notify_pending' = 1
  /\ need' = [need EXCEPT ![p] = notify_pending = 0]
  /\ Goto(p, "notify")
  /\ UNCHANGED <<mvars, pending_tasks, wvars, cvars, pnode, old_head, posted, upc, hvars>>

\* xthread_notify: nothing to do, a byte to write, or (no socket) a signal that
\* a poll-driven owner does not wait for.
PostNotify(p) ==
  /\ ppc[p] = "notify" /\ upc # "freed"
  /\ Goto(p, IF need[p] /\ armed THEN "write" ELSE "idle")
  /\ UNCHANGED <<mvars, pending_tasks, notify_pending, wvars, cvars, pnode, old_head, need,
                 posted, upc, hvars>>

PostWrite(p) ==
  /\ ppc[p] = "write"
  /\ pipe' = IF armed THEN 1 ELSE pipe
  /\ Goto(p, "idle")
  /\ UNCHANGED <<mvars, pending_tasks, notify_pending, running, armed, cvars, pnode, old_head,
                 need, posted, upc, hvars>>

\* The xThread was freed under a post that is still using it.
PostUseAfterFree(p) ==
  /\ ppc[p] \in {"add", "load", "cas", "xchg", "notify"} /\ upc = "freed"
  /\ Goto(p, "uaf")
  /\ UNCHANGED <<mvars, pending_tasks, notify_pending, wvars, cvars, pnode, old_head, need,
                 posted, upc, hvars>>
-----------------------------------------------------------------------------
(* The owner: a poll-driven worker_func.                                    *)

Process(r) == cpc' = "reset" /\ ret' = r

\* xthread_internal_init after on_init; the socket pair is made and registered.
WakeupInit ==
  /\ cpc = "init"
  /\ \/ ~running /\ cpc' = "loop" /\ UNCHANGED <<armed, ret>>
     \/ running /\ armed' = TRUE /\ Process("loop")
  /\ UNCHANGED <<mvars, pending_tasks, notify_pending, running, pipe, cur, pvars, upc, hvars>>

LoopHead ==
  /\ cpc = "loop"
  /\ Process(IF running THEN "poll" ELSE "uninit")
  /\ UNCHANGED <<mvars, pending_tasks, notify_pending, wvars, cur, pvars, upc, hvars>>

\* Mutant: process_tasks never clears the flag.
ResetNotifySkipped ==
  /\ cpc = "reset"
  /\ cpc' = "pop"
  /\ UNCHANGED <<mvars, pending_tasks, notify_pending, wvars, ret, cur, pvars, upc, hvars>>

\* process_tasks: clear the flag before the first pop.
ResetNotify ==
  /\ cpc = "reset"
  /\ notify_pending' = 0
  /\ cpc' = "pop"
  /\ UNCHANGED <<mvars, pending_tasks, wvars, ret, cur, pvars, upc, hvars>>

\* Mutant: the producers' list is consumed without being reversed.
PopUnreversed ==
  /\ cpc = "pop"
  /\ LET l == IF cache # Null THEN Chain(cache) ELSE Chain(head) IN
       /\ head' = IF cache # Null THEN head ELSE Null
       /\ cache' = IF Len(l) > 1 THEN l[2] ELSE Null
       /\ UNCHANGED next
       /\ cur' = IF l = <<>> THEN Null ELSE l[1]
       /\ cpc' = IF l = <<>> THEN ret ELSE "run"
  /\ UNCHANGED <<task, free, pending_tasks, notify_pending, wvars, ret, pvars, upc, hvars>>

\* xmpsc_pop: the next cached node; when there is none, exchange the head with
\* NULL and reverse what was there into the cache first.
Pop ==
  /\ cpc = "pop"
  /\ LET l == IF cache # Null THEN Chain(cache) ELSE Reverse(Chain(head))
         At(i) == IF i \in DOMAIN l THEN l[i] ELSE Null
     IN /\ head' = IF cache # Null THEN head ELSE Null
        /\ cache' = At(2)
        /\ next' = [n \in Nodes |->
             IF n \in Range(l) THEN At((CHOOSE i \in DOMAIN l : l[i] = n) + 1) ELSE next[n]]
        /\ cur' = At(1)
        /\ cpc' = IF l = <<>> THEN ret ELSE "run"
  /\ UNCHANGED <<task, free, pending_tasks, notify_pending, wvars, ret, pvars, upc, hvars>>

\* Run the task (or drop it, past its deadline) and free its node.
RunTask ==
  /\ cpc = "run"
  /\ done' = Append(done, task[cur])
  /\ free' = free \cup {cur} /\ next' = [next EXCEPT ![cur] = Null]
  /\ task' = [task EXCEPT ![cur] = NoTask]
  /\ cur' = Null
  /\ cpc' = "sub"
  /\ UNCHANGED <<head, cache, pending_tasks, notify_pending, wvars, ret, pvars, upc, sent, lost>>

\* atomic_fetch_sub(&ctx->pending_tasks, 1)
CountDown ==
  /\ cpc = "sub"
  /\ pending_tasks' = pending_tasks - 1
  /\ cpc' = "pop"
  /\ UNCHANGED <<mvars, notify_pending, wvars, ret, cur, pvars, upc, hvars>>

\* notify_read_cb drains the socket, then process_tasks.
PollWake ==
  /\ cpc = "poll" /\ pipe > 0
  /\ pipe' = 0
  /\ Process("loop")
  /\ UNCHANGED <<mvars, pending_tasks, notify_pending, running, armed, cur, pvars, upc, hvars>>

PollReturns ==
  /\ cpc = "poll"
  /\ cpc' = "loop"
  /\ UNCHANGED <<mvars, pending_tasks, notify_pending, wvars, ret, cur, pvars, upc, hvars>>

Uninit ==
  /\ cpc = "uninit"
  /\ armed' = FALSE /\ pipe' = 0
  /\ cpc' = "stopped"
  /\ UNCHANGED <<mvars, pending_tasks, notify_pending, running, ret, cur, pvars, upc, hvars>>
-----------------------------------------------------------------------------
(* xthread_unregister by another thread.                                    *)

Unregister ==
  /\ upc = "idle"
  /\ running' = FALSE
  /\ upc' = "notify"
  /\ UNCHANGED <<mvars, pending_tasks, notify_pending, armed, pipe, cvars, pvars, hvars>>

UnregisterNotify ==
  /\ upc = "notify"
  /\ upc' = IF armed THEN "write" ELSE "join"
  /\ UNCHANGED <<mvars, pending_tasks, notify_pending, wvars, cvars, pvars, hvars>>

UnregisterWrite ==
  /\ upc = "write"
  /\ pipe' = IF armed THEN 1 ELSE pipe
  /\ upc' = "join"
  /\ UNCHANGED <<mvars, pending_tasks, notify_pending, running, armed, cvars, pvars, hvars>>

\* After the join: xmpscq_drain_destroy frees what a late producer slipped in,
\* zeroes both counters, and ctx is freed.
Destroy ==
  /\ upc = "join" /\ cpc = "stopped"
  /\ LET l == Chain(cache) \o Reverse(Chain(head)) IN
       /\ lost' = lost \o Tasks(l)
       /\ free' = free \cup Range(l)
       /\ task' = [n \in Nodes |-> IF n \in Range(l) THEN NoTask ELSE task[n]]
       /\ next' = [n \in Nodes |-> IF n \in Range(l) THEN Null ELSE next[n]]
  /\ head' = Null /\ cache' = Null
  /\ pending_tasks' = 0 /\ notify_pending' = 0
  /\ upc' = "freed"
  /\ UNCHANGED <<wvars, cvars, pvars, sent, done>>
-----------------------------------------------------------------------------
ProducerStep(p) ==
  \/ PostAdd(p) \/ PostLoad(p) \/ PostCas(p) \/ PostExchange(p)
  \/ PostNotify(p) \/ PostWrite(p) \/ PostUseAfterFree(p)

OwnerStep ==
  \/ WakeupInit \/ LoopHead \/ ResetNotify \/ Pop \/ RunTask \/ CountDown
  \/ PollWake \/ Uninit

UnregisterStep == UnregisterNotify \/ UnregisterWrite \/ Destroy

Next ==
  \/ \E p \in Producers : PostCheck(p) \/ ProducerStep(p)
  \/ OwnerStep \/ PollReturns
  \/ Unregister \/ UnregisterStep

Spec == Init /\ [][Next]_vars
-----------------------------------------------------------------------------
(* Properties.                                                              *)

\* The queue's contents in the order they will be taken.
Box == (IF cur = Null THEN <<>> ELSE <<task[cur]>>)
       \o Tasks(Chain(cache)) \o Reverse(Tasks(Chain(head)))

\* The lock-free list implements the mailbox: what was pushed is taken once and
\* in the order of the successful CASes, although addresses are reused under
\* producers that still compare with them (xmpsc_push, xmpsc_pop).
Mailbox == INSTANCE TaskMailbox WITH box <- Box

MailboxSpec == Mailbox!Spec

Labels == {"idle", "add", "load", "cas", "xchg", "notify", "write", "uaf"}

\* The types of the shared words and of every thread's position.
TypeOK ==
  /\ head \in Pointer /\ cache \in Pointer /\ cur \in Pointer
  /\ next \in [Nodes -> Pointer] /\ task \in [Nodes -> Task \cup {NoTask}] /\ free \subseteq Nodes
  /\ pending_tasks \in Nat /\ notify_pending \in {0, 1}
  /\ running \in BOOLEAN /\ armed \in BOOLEAN /\ pipe \in {0, 1}
  /\ cpc \in {"init", "loop", "reset", "pop", "run", "sub", "poll", "uninit", "stopped"}
  /\ ret \in {"loop", "poll", "uninit"}
  /\ ppc \in [Producers -> Labels]
  /\ pnode \in [Producers -> Pointer] /\ old_head \in [Producers -> Pointer]
  /\ upc \in {"idle", "notify", "write", "join", "freed"}

\* Ordering rule 1 of xmpscq_push_internal ("otherwise the consumer can wake on
\* an empty queue and miss the task"): while the owner sleeps with a node in the
\* list, a wakeup is in the socket or a producer has yet to finish posting one.
NoLostWakeup ==
  cpc = "poll" /\ Box # <<>> =>
    pipe > 0 \/ \E p \in Producers : ppc[p] \in {"xchg", "notify", "write"} /\
                  (ppc[p] # "xchg" => need[p])

\* Who holds the memory of node n.
Holders(n) ==
  {<<"free", 0>> : x \in free \cap {n}}
  \cup {<<"run", 0>> : x \in {cur} \cap {n}}
  \cup {<<"producer", p>> : p \in {q \in Producers : ppc[q] \in {"add", "load", "cas"} /\ pnode[q] = n}}
  \cup {<<"cache", i>> : i \in {j \in DOMAIN Chain(cache) : Chain(cache)[j] = n}}
  \cup {<<"head", i>> : i \in {j \in DOMAIN Chain(head) : Chain(head)[j] = n}}

\* Every node is in one place: free, private to the producer filling it, in the
\* producers' list, in the owner's cache, or being run.  None would be a leak, a
\* second one a double free or two tasks in one node.
NodesConserved == upc # "freed" => \A n \in Nodes : Cardinality(Holders(n)) = 1

\* xthread_get_queue_depth never under-reports, and over-reports by no more than
\* the posts in progress and the task just run ("transient drift is OK").
DepthBounds ==
  upc # "freed" =>
    /\ pending_tasks >= Len(Box)
    /\ pending_tasks <= Len(Box) + (IF cpc = "sub" THEN 1 ELSE 0)
         + Cardinality({p \in Producers : ppc[p] \in {"load", "cas"}})

\* The soft cap is passed by no more than the producers between check and count.
SoftCap ==
  MaxPending > 0 =>
    Cardinality({i \in DOMAIN Box : Box[i].kind # "reply"}) < MaxPending + Cardinality(Producers)

\* The depth counter and the cap that is tested against it, for every drift the
\* unsynchronised additions and subtractions can produce.
DepthKept == DepthBounds /\ SoftCap

(* The inductive invariants behind these properties.                        *)

\* s lists the nodes that the links nx lead through from pointer x on, each once.
IsPath(nx, x, s) ==
  /\ s \in Seq(Nodes) /\ IsInjective(s)
  /\ x = IF s = <<>> THEN Null ELSE s[1]
  /\ \A i \in 1..Len(s) : nx[s[i]] = IF i = Len(s) THEN Null ELSE s[i + 1]

\* Both lists end, and the node a producer is about to publish leads to the head
\* that its CAS compares with.
ListInv ==
  /\ IsPath(next, head, Chain(head)) /\ IsPath(next, cache, Chain(cache))
  /\ \A p \in Producers : ppc[p] = "cas" => next[pnode[p]] = old_head[p]

Listed == Range(Chain(head))
Cached == Range(Chain(cache))
Filling(p) == ppc[p] \in {"add", "load", "cas"}

\* No node is in two places, and none is lost; what is not free carries a task.
PlaceInv ==
  /\ Listed \cap Cached = {} /\ (Listed \cup Cached) \cap free = {}
  /\ cur \notin Listed \cup Cached \cup free
  /\ \A p \in Producers : Filling(p) =>
       /\ pnode[p] \in Nodes \ (Listed \cup Cached \cup free) /\ pnode[p] # cur
       /\ \A q \in Producers : Filling(q) /\ pnode[q] = pnode[p] => q = p
  /\ \A n \in Nodes \ free : task[n] \in Task
  /\ upc # "freed" => \A n \in Nodes :
       \/ n \in Listed \cup Cached \cup free \cup {cur}
       \/ \E p \in Producers : Filling(p) /\ pnode[p] = n

\* What the owner holds, and when its notification socket is open.
OwnerInv ==
  /\ (cpc = "run") <=> (cur # Null)
  /\ cpc \notin {"pop", "run", "sub"} => cache = Null
  /\ (cpc = "init" => ~armed) /\ (cpc = "poll" => armed)
  /\ cpc \in {"reset", "pop", "run", "sub"} /\ ret # "uninit" => armed
  /\ cpc = "loop" /\ running => armed
  /\ running <=> (upc = "idle")
  /\ upc = "freed" => cpc = "stopped" /\ pending_tasks = 0 /\ head = Null

\* A byte is in the socket, or a producer is about to write it.
Announced == pipe > 0 \/ \E p \in Producers : ppc[p] \in {"notify", "write"} /\ need[p]

\* Since process_tasks cleared it, the flag has been raised by a producer that saw
\* it clear; and a node that the sleeping owner has not seen leads to such a post.
WakeInv ==
  /\ cpc \in {"pop", "run", "sub", "poll", "loop"} /\ armed /\ notify_pending = 1 => Announced
  /\ cpc = "poll" /\ head # Null => Announced \/ \E p \in Producers : ppc[p] = "xchg"

\* The depth is the tasks in the box, those counted but not published, and the
\* one run but not subtracted.
CountInv ==
  upc # "freed" =>
    pending_tasks = Len(Box) + (IF cpc = "sub" THEN 1 ELSE 0)
                    + Cardinality({p \in Producers : ppc[p] \in {"load", "cas"}})

\* Posts that passed the cap check count as much as the posts in the box.
CapInv ==
  MaxPending > 0 =>
    Cardinality({i \in DOMAIN Box : Box[i].kind # "reply"})
      + Cardinality({p \in Producers : Filling(p) /\ task[pnode[p]].kind # "reply"})
    < MaxPending + Cardinality(Producers)

MpscInv == ListInv /\ PlaceInv /\ OwnerInv /\ WakeInv /\ CountInv /\ CapInv
=============================================================================
