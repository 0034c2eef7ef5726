# A TLA+ verification project for xnet2lua

xnet2lua is a network runtime in C with embedded Lua: operating system threads
that each own a task queue, a poll loop and a timing wheel, exchange messages by
posting tasks to each other, and run Lua scripts as coroutines on top. This
directory models the parts of the runtime whose correctness depends on
interleavings, orders and boundaries, checks them with TLC on small instances,
and proves the most important facts with TLAPS for all instances.

Paths below are relative to `src/`. `PROJECT.json` gives, for every definition
that models code, the lines it models.

## 1. Inventory

| Component | State | Operations | Interacts with | Hard parts | What makes it correct |
|---|---|---|---|---|---|
| **xthread** (`xthread.c`) | per thread: queue, size, cap, slab freelist, `pending` flag, `running`, notification socket or condition variable | post / post_deadline / post_reply, `xthread_update`, `worker_func`, `wakeup_init/uninit`, `unregister` | every other component posts tasks through it | posts race pops, arming, sleeping and teardown | no lost wakeup, no lost stop, FIFO once-only delivery, slab conserved, cap only softly exceeded |
| **xmpsc_queue** (`xmpsc_queue.h`, `XTHREAD_MPSCQ` parts of `xthread.c`) | `head`, owner's `cache`, `pending_tasks`, `notify_pending` | push (CAS loop), pop (exchange and reverse), drain | the same interface as the mutex queue | lock-free, address reuse, ordering of three atomics | as above; no node leaked or doubly used |
| **thread groups** (`xthread.c`) | `xThreadPool`: threads, sizes, `next_index` | register_group, select | post picks a member | partial registration, stale sizes, signed overflow | a post reaches a live member |
| **xtimer** (`xtimer.c`) | wheel of five levels, node freelist, `current_time`, `current_jiffies`, `active_count` | add, del, update/poll | poll loop sleeps for what it returns; callbacks re-enter | cascade boundaries, segments, clock jumps, deletion during a batch | every expiry fires exactly once and in time; deleted timers stay silent; nodes recycled |
| **lua_xtimer** (`xlua/lua_xtimer.c`) | userdata: handle, references, remaining | add/delay, `timer:del`, `__gc`, callback bridge, init/uninit | xtimer nodes hold a pointer to the userdata | recycled nodes, collection, deletion inside the callback | a handle is fresh or NULL; a callback has a live owner |
| **lua_xthread** (`xlua/lua_xthread.c`) | `pending` table co_id -> coroutine, `_rpc_timers` | rpc, reply, `@async_resume`, timeout | two xthread queues, xtimer, the coroutines | late, double, missing replies; timeout races reply; dropped requests | a call returns once, with its own result, and in time if it has a timeout |
| **xpoll** (`xpoll.c`) | descriptor table with masks, callbacks, generations | add_event, del_event, poll | runs channel and wakeup callbacks | descriptors closed and reused by a callback of the same batch | an event reaches only the registration it was raised for |
| **xchannel** (`xchannel.c`) | in/out buffers, file segment, flags (connecting, paused, closing, half-closed), reference count | send, read/write/error events, pause/resume, close, close_after_flush | xpoll; Lua callbacks re-enter | re-entrant close, flow control, partial writes | bytes in order, one close callback, neither direction stalls, a deferred close happens |
| **xshared** (`xshared.c`) | shards: hash, LRU list, `used_bytes`, expiry | set/add/replace, get, incr, delete, expire, sweep | shared by all threads | eviction, lazy expiry, clock read before the lock | budget kept, counts agree, a key reported absent stays absent, expired memory comes back |
| **xrecord** (`xrecord.c`) | schema, slot pool, id -> slot | bind, unbind, get, set, grow | Lua binding | growth while slots are cached, integer ranges | one slot per id; stored values read back |
| **xlog, xproc, xsock, xargs, xdaemon, xframe_aead** | files, child processes, sockets, options | I/O | all | operating system behaviour | not modelled |
| **other Lua bindings** (`xlua/`) | `lua_xnet`, TLS, msgpack, scan, watch, debug, compress | conversions and bindings | xchannel, libraries | mostly data | not modelled |
| **scripts** (`scripts/`, `demo/`) | HTTP, MySQL, NATS, Redis services, applications | | the runtime | | not modelled |

`PROJECT.json` lists the same components with their status, and under `hazards`
the places in the code where a test would hardly reach what can go wrong.

## 2. Plan

Done:

1. `XThreadQueue` with the abstract `TaskMailbox` and `XThreadQueueProofs`: the
   mailbox of a thread is what everything else is built on.
2. `XMpscQueue`: the other implementation of the same mailbox.
3. `XTimer`, and `LuaXTimer` which composes it with the Lua objects.
4. `XThreadRpc` and `XThreadRpcProofs`: calls between threads.
5. `XPoll`: descriptor table, generations and dispatch with reused descriptor
   numbers.
6. `XChannel`: buffers, flow control, deferred close, half close, files and
   connect, driven by the callbacks in the order of `xpoll_poll`.
7. `XShared`: a dictionary with shards, LRU, expiry, eviction and the
   incremental sweep.

8. Proofs of the safety properties of all these modules, in the eight `*Proofs`
   modules (section 5).

Left:

9. The thread table and thread groups, and `xrecord`: sequential or unlocked
   code about which a model would say little beyond the hazards listed in
   `PROJECT.json`.

## 3. Modules

| Module | Models | How |
|---|---|---|
| `TaskMailbox` | what `xthread.h` promises of `xthread_post` | tasks are sent, delivered in order and once, and what is left is discarded when the thread is destroyed |
| `XThreadQueue` | `xthread.c` without `XTHREAD_MPSCQ` | one registered thread, its producers, and one thread unregistering it. Each critical section and each access outside one is an action: `PostBegin` (lookup and test of `running`), `PostCheck` (cap, pool node), `PostMalloc`, `PostEnqueue`, `PostNotify`, `PostWrite`; `WakeupInit`, `LoopHead`, `PopAll`, `RunTask`, `ReturnNodes`, the waits, `Uninit`; `Unregister` to `Destroy`. `role`, chosen at the start from `Roles`, makes the owner a poll-driven worker, a worker on the condition variable, or the main thread calling `xthread_update` |
| `XMpscQueue` | `xmpsc_queue.h` and the `XTHREAD_MPSCQ` code | pointers `head`, `cache`, `next` over a small set of addresses that malloc may hand out again; one action per atomic operation. `Chain(p)` is the list that starts at `p`, found through its number of links rather than by recursion on the pointers |
| `XTimer` | `xtimer.c` | nodes with level and slot, a wheel position, the clock as input of each poll; `Advance` is one jiffy (cascade and locking of the slot), `Fire` one node of the batch, `CallbackReturns` the rest of the loop body. Between the two the callback may `Create` and `Delete` |
| `LuaXTimer` | `xlua/lua_xtimer.c` | EXTENDS `XTimer`: each Lua operation is the C action it calls joined with its effect on the userdata; `LuaGC` may happen whenever an object is unreferenced, also to the one whose callback runs. `LuaTimers` are the places in memory; `cut` is a history variable (section 6) |
| `XThreadRpc` | the rpc part of `xlua/lua_xthread.c` | coroutines, `pending`, `_rpc_timers` and inbox of the caller, the bounded queue of the callee, which takes, drops, answers, repeats or ignores requests |
| `XPoll` | `xpoll.c`, epoll backend | the table of registrations (`fd_map`), the kernel's interest list, and a batch of events: `Poll`, then `Dispatch` of one event at a time with its write, read and error callback. The code outside the loop and the callbacks `Open`, register, withdraw and close; a socket gets the lowest free number and malloc may return a freed address |
| `XChannel` | `xchannel.c`, epoll build | one channel with its registration and socket, the peer and the kernel's buffers. The C functions that call each other (`FlushOutput`, `CloseInternal`, `QueueOrSend`, ...) are operators from a channel to the set of channels they may leave; events, callbacks and API calls are actions. `process_input` stops at each callback, in which the application may call any operation |
| `XShared` | `xshared.c` | shards as records of buckets, LRU list and counters. A call is its critical section with a clock reading that may be older than the lock; `SweepBegin` and `SweepShard` are one `sweep_expired`, one action per shard lock. `Need` is what an entry is charged, `Bytes` what `entry_bytes` gives back through the 32-bit `vlen`; `lost` is the history of the difference |
| `MC*` | | instances for TLC, with the symmetry sets |
| `XThreadQueueProofs`, `XMpscQueueProofs`, `XTimerProofs`, `LuaXTimerProofs`, `XThreadRpcProofs`, `XPollProofs`, `XChannelProofs`, `XSharedProofs` | | theorems about the module they are named after |

Definitions commented "Mutant:" are deliberately wrong variants of the
definition that follows; no specification uses them. Each property is known to
be violated when one of them takes the place of the definition it varies, which
shows that the property depends on the code it is about.

Abstractions common to all modules: task arguments and message bodies are
identities; logging is left out; `malloc` failure is a choice where the code
handles it. `TasksInOrder`, `EventuallyTaken` and similar properties speak of
history variables (`accepted`, `done`, `lost`, `result`, `missing` and so on) that no guard
reads, except that `posted` bounds the number of posts.

## 4. Runs

| Run | Question | Instance |
|---|---|---|
| `queue` | does the mutex queue keep order, wakeups, the stop request, the slab and the cap under all interleavings with two producers and an unregistration, and implement `TaskMailbox`? | all three kinds of owner, two posts per producer, one pool node (so the heap path is taken too), cap 1, socket buffer of one byte (so a full buffer happens), polls without timeout |
| `queue_live` | is every task taken, and does unregistering return? | one post each, for all three kinds of owner; replies (beyond the cap) and tasks with a deadline; the cap set to 1 and lifted at any time |
| `mpsc` | the lock-free queue: order, wakeups, node conservation with reused addresses, depth and cap, refinement of `TaskMailbox` | two producers, two posts each, three addresses, cap 1 |
| `timer_wheel` | does a timer fire for exactly the expiries passed? | a three-level wheel of 2, 4 and 4 slots (turning every 2, 8 and 32 ms) and segments of 15, delays of 1, 2, 8 and 20 (the last of level 0, the first of levels 1 and 2, and a segmented one), repetition, clock steps of 1 and 11 and a fall of 3, up to time 40, so every level wraps |
| `timer_sleep` (violation) | is the returned sleep time "ms until next expiry"? | one timer in level 1, level 0 empty |
| `lua_timer` | timers deleted, created and collected inside callbacks | three nodes, two Lua objects, one-shot, repeating and endless timers |
| `rpc` | does each call return once, with its own result, and in time if it has a timeout? | two coroutines, two calls, up to two replies per request, failing allocations |
| `xpoll` | do table and kernel agree, and do the callbacks of one event go to one registration? | three sockets over two descriptor numbers, two addresses, three registrations, so number and address are used again inside one event; failing malloc and epoll_ctl |
| `xpoll_batch` (violation) | do "a closed socket's events" never "reach the next socket registered on the same fd"? | the same; an event further down the batch does |
| `xchannel` | are bytes sent in order, does no direction stall, is closing final and announced once, do deferred closes happen? | accepted and connecting channels, framed and raw, with and without an eof callback; three bytes each way, packets of two, limits and kernel buffer of one, the second packet oversized; resets, failing allocations |
| `xchannel_paused` (violation) | does pausing "only affect the read direction"? | a half close of the peer while paused closes the channel with its unsent output |
| `xshared` | are lists, counters and budget exact, does a key reported absent stay absent, is every expired entry reclaimed? | two shards of budget 3 with two keys each, entries of size 1; `vlen` holds lengths below 2, one key has strings of 2, so that `used_bytes` also passes the budget, the others have scalars, and one is longer than the budget; one bucket growing, sweeps of two entries, times to live of 0 and 1. `MaxLost` = 1: a shard with `lost` above 0 gets no more strings of 2 |

The bounds are chosen so that two posts of the same producer, two producers in
the same critical window, an exhausted slab, a full socket buffer, a reused
address, a late reply arriving in a later call of the same coroutine, and a
timer crossing every level all occur; a third producer or coroutine adds no new
kind of interference, since these only meet through the queue.

**Fairness.** `XThreadQueue!Fairness` is weak fairness of each producer that has
begun a post, of the owner and of the unregistering thread: operating system
threads keep running. `PollReturns` is not fair (`xpoll_poll` may be called
without a timeout); `WaitEnds` is fair, because every caller of the condition
variable passes a timeout.
Nobody has to post or unregister. `XThreadRpc!Fairness` covers the caller's
timers and its queue, because the thread runner polls both
(`lua_thread_on_update`); the callee is not fair.

`XChannel!Fairness` has weak fairness of the steps inside a callback (`Loop`) and
strong fairness of `Event`: polling is level-triggered, so a descriptor that is
ready again and again is reported, although the application may pause and resume
in between. The peer reads on or resets (`PeerReads`, `Established \/
PeerReset`): a peer that does neither can hold a deferred close for ever, and the
code has no timeout for it. `XShared!Fairness` is that of the main loop, which
calls `xshared_tick` again and again; the clock does not have to advance, and
`ExpiredReclaimed` is about entries whose time has come.

**Findings.** The violation runs are differences between the code and its own
comments, header or tests: `timer_sleep`, `xpoll_batch`, `xchannel_paused`.
Observations without a run of their own, recorded as hazards: the last
`process_tasks` does not flush what a producer past its test appends later; an
untimed `xthread_update` could sleep on a lost signal (no caller uses it); a
repetition of interval 0; handles left by `xtimer.uninit`; a timer collected in
its own last call, and `used_bytes` after strings of 4 GiB (both in section 6); posts through an
unlocked `xthread_get`; `xchannel_resume_read` from a packet callback; a file
sent before the connection is up (`EarlyFile = TRUE` violates `NoStall`); a
bucket chain longer than the sweep budget (`GrowFails = TRUE` violates
`ExpiredReclaimed`); a channel paused while it was connecting, which
is armed for reading all the same (`xchannel.c:1172`), so that the loop spins
until it is resumed.

## 5. Proofs

The theorems hold for every value of the constants that satisfies the
assumptions named in the models (`QueueAssumption`, `MpscAssumption`,
`TimerAssumption`, `LuaTimerAssumption`, `RpcAssumption`, `PollAssumption`,
`ChannelAssumption`, `SharedAssumption`): any set of producers, coroutines, nodes or sockets, any
slab, cap, buffer, limit or wheel, any number of posts, calls or registrations.
Hypotheses beyond these are named below. The inductive invariants stand at the
end of the models, where TLC can check them.

`XThreadQueueProofs` shows `IInv` inductive and derives from it type
correctness, `NoLostWakeup`, `NoLostStop`, `TasksInOrder`, `OnlyLateTasksLost`
and the refinement of `TaskMailbox`. `NoLostWakeup` is not inductive: whether a
sleeping owner has a wakeup under way depends on what happened before it slept.
`PendingInv` says that a set `pending` flag stands for a byte in the socket or a
producer about to write it, except between the owner's drain and its pop; with
`ArmedInv` (the owner polls only with a socket armed, and runs `process_tasks`
after arming) it gives the property. `StopInv` does the same for the stop
request, and adds that the owner, once past its last pop, leaves only tasks
accepted after the request. Under the mapping `box <- batch \o queue` every step
is a `Send`, `Deliver`, `Discard` or a stutter.

It also proves `PoolConserved` from `PoolInv`, which puts every
slab node in exactly one of the free list, the batch, the queue, the list to be
returned and the hands of a producer; and `SoftCap` from `CapInv`, which bounds
what is queued together with the producers that passed the test but have not
appended yet (`Admitted`). Each of them adds at most one task beyond the cap, so
the bound takes finitely many producers, the one hypothesis of `CapIsSoft`.

`XMpscQueueProofs` is about a linked list. `IsPath(nx, x, s)` says that the
pointers `nx` lead from `x` through the nodes of `s` to NULL; `ChainPath` shows
that there is one such `s` at most and that it is `Chain(x)`, and the lemmas after
it what linking in front, cutting off and reversing do to it, also when an
address is used again. `ListInv` then makes `head` and `cache` lists and
the `next` a producer prepared equal to the head it will compare with (no ABA: it
compares the word it wrote, and any list beginning there is the right
one); `PlaceInv` gives each node one place; `OwnerInv`, `WakeInv`, `CountInv` and
`CapInv` are about the owner's position, the notification, `pending_tasks` and
the cap. `Box` is the tasks of the reversed cache followed by those of the list
in the order they were pushed; with it every step is a step of `TaskMailbox`
or a stutter, the pop included, which reverses the whole list without
changing `Box`.

`XTimerProofs` shows `WheelInv` inductive: types, where a node may be at each
point of a poll (`PollInv`), and `CallsInv`: the calls made and the repetitions
left add up, and a node expires next at its next expiry. `NoneDropped` and
`NoCallAfterDelete` follow as action properties, and `Reclaimed` with `CountInv`,
for finitely many nodes. `TimerFiresOnTime` needs to know where the wheel is when
a timer expires. `TimelyInv` says that some jiffy between the next one
the wheel looks at and the expiry has the timer's slot at its level and 0 at all
lower ones, which is when the slot is emptied; it speaks of a range because a
clock that is set back leaves timers in slots that come early. Three facts about
the geometry carry it: the span of a level is a multiple of every lower one
(`SpanMultiple`), the first jiffy of the slot of an expiry has 0 at all lower
levels (`SlotBegins`), and at the level chosen for a delay the wheel has not
passed that jiffy (`PlacedReach`). Sizes and levels are parameters, and sizes
need not be powers of two. As in `FiresOnTime`, repetitions with interval 0 are
excluded: they go into the slot just emptied and wait for a turn of the wheel
(`xtimer.c:127`). `LuaXTimerProofs` first shows that every step of
`LuaXTimer` is a step of `XTimer` (`LuaDrivesWheel`), so the wheel's theorems
hold for it as they stand, and then `LuaInv`: a handle and its node point at each
other until the last call, which is the only time a userdata is called without
a handle. `HandleFresh`, `CallbackHasOwner` and `PinnedIffArmed` follow with two
hypotheses. They hold although a timer deleted in its last call may be collected
before the call returns: in the last call `LuaInv` knows no more than that the
userdata at the address the bridge keeps does not hold the node
(`LastCallInv`), and a handle and its references agree up to `cut` (`Holds`).
`~Reinit`: timers are not used again after `xtimer.uninit`, which
leaves handles on freed nodes. `[]NotWornOut`: `xtimer_add` stores an
endless repetition as `INT_MAX` (`xtimer.c:394`) and counts it down like any
other (`xtimer.c:528`), so that after 2^31 - 1 calls the wheel releases the node
while the userdata, which takes the timer to be endless, keeps its handle. A
timer of one millisecond gets there in 24 days. `LuaNotWornOut` shows that no
behaviour gets there whose clock stays below that number and whose intervals are
not zero.

`XThreadRpcProofs` shows `IInv` of `XThreadRpc` inductive: `Linked` (the pending
table and the coroutines point at each other), `Fresh` (ids not handed out have
left no trace; waiting ids have no result), and the timer invariants. From it
follow type correctness, `WaitsForItsCall`, `OwnResult`, `ReturnsOnce` and
`TimerGuardsWait` for any behaviour of the callee.

`XPollProofs` proves `InterestAgrees` and `OneOwnerPerEvent`. Descriptor numbers
and addresses come back, so neither tells registrations apart; `GenerationInv`
says that generations do: an entry with the generation of the current
event belongs to the socket the event was raised for.

`XChannelProofs` has one lemma per static function of `xchannel.c` on what it
keeps of a channel, in the order in which they call each other, and above them
one step per operation, event and callback. `ByIndex` states the order of the
stream byte by byte (the `i`-th byte of the wire is `i`, the output continues the
wire, the file the output), which is what a partial write or a truncation
changes. `ChannelNoStall` adds `WatchInv`, `DispatchInv` and `ListenInv`, of
which the first is the heart: output queued from the connect callback is not
watched until `finish_connect` flushes it. Its hypothesis `~EarlyFile` is
needed: `xchannel_send_file_raw` does not test `connect_pending`, and a file sent
that early breaks the property.

`XSharedProofs` shows `IInv` of `XShared` inductive. `Good(i, s)` says of a single
shard what `Accounting` says of all, and there is one lemma for each thing done to a
shard (`DropFacts`, `ReapFacts`, `TouchFacts`, `EvictFacts`, `InsertFacts`,
`GrownFacts`, `ExpireFacts`), so that a call only composes them. Two of them matter
most. `EvictFacts`: the loop over the LRU tail makes room or
empties the shard. `used_bytes` cannot be the bound itself, since what truncated
lengths leave in it is never given back: inductive are `used = Memory + lost`
and `Memory <= Budget`, and an insertion keeps the second in both cases. `GrownFacts`:
when the number of buckets doubles, a key goes to its old bucket or the one as far
up again (`Half`), so `i % n` finds the chain that held it. The bytes of a set of
entries are counted as a set of units (`Units`), so that they add up over
disjoint sets of entries. What is computed by walking a list (`Without`, `Chains`)
is a function of the position, and facts about it are proved by a least
counterexample (`LeastNat`, `Iteration`). The invariant also bounds `scanned`: a
sweep that goes on to the next shard has budget left, so the entry at which it
stops exists.

Only model-checked: all liveness properties (fairness and ENABLED are beyond the
prover). Every invariant and every action property of the passing runs is a
theorem.

## 6. Limits

* Atomics are taken as sequentially consistent. In the code the counters and
  flags are; the operations on the list head are acquire/release, and the two
  that matter for the wakeup are read-modify-writes of the same word, so the later
  one synchronises with the earlier.
* `LuaXTimer`: a callback that deletes its own timer in its last call drops both
  references (`lua_xtimer.c:126`), the handle is already NULL (77), and if the
  script has no other reference, the userdata can be collected before `lua_pcall`
  returns. Line 99 then uses freed memory, against the promise that callers "may
  safely discard the returned handle" (17-19). The model has the outcome in which
  the memory is a new timer, which loses its references and with them the right to
  fire once the collector comes (`cut`), and the one in which it is as
  `l_timer_gc` left it, where nothing happens. Memory reused for anything else is
  outside the model.
* `WakeupInit` of the queues succeeds: if the socket pair cannot be made or
  registered (`xthread.c:741-757`), the thread goes on without it and waits like
  one of role "cond".
* One registered thread per queue model: the thread table and thread groups are
  not modelled, nor is `process_tasks` called from within a task, nor is the
  reuse of the number of a closed notification socket.
* `XPoll` and `XChannel` model the epoll build. The io_uring, kqueue, poll and
  WSAPoll backends differ in how events are armed and are not modelled.
* `XPoll`: callers delete the events of a descriptor before closing it, as all
  callers in the repository do.
* `XChannel`: `xchannel_resume_read` may be called between events and from the
  connect and eof callbacks, not from a packet callback of the same channel; and, in the runs, no file sent while connecting; withdrawing an event
  succeeds. The owner's reference keeps the storage until the last callback
  returned, so the reference count is not a variable.
* `XShared`: an entry is charged its full length (`xshared.c:274`, `295`) and given
  back through `vlen`, a `uint32_t` (`243`, `52`). A string of 4 GiB or more thus
  leaves `used_bytes` too high for good, and the shard evicts as if its budget were
  smaller; `xshared_get` returns such a string cut to its length modulo 2^32.
  `Accounting` says exactly this, and that the memory of the entries never exceeds
  the budget. The proof is for any such losses, the run bounds them.
* `XShared`: one dictionary; growth of the bucket array succeeds in the run; the
  registry, the throttling of the sweep and the statistics are left out.
* `XTimer` reads the clock in `xtimer_poll` only, as the code does; the time a
  callback takes does not exist. `xtimer.update` called from a callback is not
  modelled.
* A script that catches an error of `xtimer.delay` inside `xthread.rpc`, or uses
  timers again after `xtimer.uninit`, is not modelled; both are listed as
  hazards.
* Components without a module are listed in section 1 with the reason in
  `PROJECT.json`.

## 7. Not modelled

* Vendored code (`3rd/`: Lua, mbedTLS, yyjson and others), which is most of the
  repository by lines, is not part of the program's own logic.
* The thread table, thread groups: read and written without locks by convention;
  what can go wrong is recorded as hazards, and a model would only restate it.
* `xrecord`, `xhash`, `xheapmin`: sequential containers of one thread; the last two
  are covered by unit tests in `tests/c`, the first by `demo/xrecord_main.lua`.
* `xlog`, `xproc`, `xsock`, `xargs`, `xdaemon`, `xframe_aead`, and the Lua
  bindings for compression, msgpack, scanning, watching and debugging: system
  calls, formatting and conversions.
* `lua_xnet` and its TLS part: bindings of `xchannel`, and a state machine that
  lives in the vendored library.
* The io_uring builds of `xpoll` and `xchannel`: a second protocol (submission,
  cancellation, completion) over the same API, behind a build option.
* Lua services and applications under `scripts/` and `demo/`.
