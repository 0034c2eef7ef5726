----------------------------- MODULE LuaXTimer -----------------------------
(***************************************************************************)
(* The Lua timer objects of lua_xtimer.c on top of the wheel: a userdata   *)
(* that owns a C node through its handle, keeps itself alive with          *)
(* registry references while armed, and counts its remaining calls itself. *)
(* The script, which may run inside a callback, adds and deletes timers;   *)
(* the collector frees what is no longer referenced, which in the last     *)
(* call of a timer that was deleted there is the very userdata that        *)
(* timer_callback_bridge goes on to use.                                   *)
(***************************************************************************)
EXTENDS XTimer

CONSTANTS
  LuaTimers,    \* timer userdata: the memory of each, which is used again
  Infinite,     \* the member of Repeats that stands for repeat_num = -1
  Reinit        \* TRUE: scripts may use timers again after xtimer.uninit

ASSUME LuaTimerAssumption == None \notin LuaTimers /\ Reinit \in BOOLEAN /\ Infinite \in Nat

VARIABLES
  ltimer,       \* [LuaTimers -> LuaTimer]
  user_data,    \* [Nodes -> LuaTimers]: node->user_data, NULL (None) once deleted
  last_call,    \* local of timer_callback_bridge
  in_lua,       \* the bridge is inside lua_pcall
  closed        \* xtimer_uninit has been called

lvars == <<ltimer, user_data, last_call, in_lua, closed>>
vars  == <<tvars, lvars>>

\* refs: self_ref and callback_ref are held.  cut (history): they were released
\* through a pointer to the userdata that was in this memory before.
Dead == [alive |-> FALSE, handle |-> None, refs |-> FALSE, remaining |-> 0, cut |-> FALSE]

LuaInit ==
  /\ Init
  /\ ltimer = [t \in LuaTimers |-> Dead]
  /\ user_data = [n \in Nodes |-> None]
  /\ last_call = FALSE /\ in_lua = FALSE /\ closed = FALSE

\* The script runs between polls, or as a callback.
Script == pc = "idle" \/ (pc = "callback" /\ in_lua)
-----------------------------------------------------------------------------
LuaPoolCreate ==
  /\ PoolCreate /\ (closed => Reinit)
  /\ UNCHANGED lvars

\* xtimer.uninit, or the thread runner's cleanup: the nodes go, the userdata stay.
LuaUninit ==
  /\ PoolDestroy
  /\ user_data' = [n \in Nodes |-> None]
  /\ closed' = TRUE
  /\ UNCHANGED <<ltimer, last_call, in_lua>>

\* xtimer_create_lua
LuaAdd(t) == \E n \in Nodes, i \in Intervals, r \in Repeats :
  /\ Script /\ ~ltimer[t].alive
  /\ Create(n, i, r)
  /\ user_data' = [user_data EXCEPT ![n] = t]
  /\ ltimer' = [ltimer EXCEPT ![t] = [alive |-> TRUE, handle |-> n, refs |-> TRUE,
                                      remaining |-> IF r = Infinite THEN -1 ELSE r,
                                      cut |-> FALSE]]
  /\ UNCHANGED <<last_call, in_lua, closed>>

\* xtimer_del(t->handle): nothing without a pool, or for a node already deleted.
DelHandle(n) ==
  IF pool /\ n # None /\ node[n].status # "free" /\ ~node[n].cancelled
  THEN Delete(n) /\ user_data' = [user_data EXCEPT ![n] = None]
  ELSE UNCHANGED <<tvars, user_data>>

\* Mutant: the references are released but the node stays armed.
LuaDelForgetsNode(t) ==
  /\ Script /\ ltimer[t].alive
  /\ ltimer' = [ltimer EXCEPT ![t].handle = None, ![t].refs = FALSE]
  /\ UNCHANGED <<tvars, user_data, last_call, in_lua, closed>>

\* l_timer_del
LuaDel(t) ==
  /\ Script /\ ltimer[t].alive
  /\ DelHandle(ltimer[t].handle)
  /\ ltimer' = [ltimer EXCEPT ![t].handle = None, ![t].refs = FALSE]
  /\ UNCHANGED <<last_call, in_lua, closed>>

\* l_timer_gc, after which the memory is free: of an unreferenced userdata, or of
\* any of them when the Lua state closes after the pool.  A callback that deletes
\* its own timer holds no reference either, unless it takes its argument or has
\* another.
LuaGC(t) ==
  /\ Script /\ ltimer[t].alive
  /\ ~ltimer[t].refs \/ (closed /\ ~pool)
  /\ DelHandle(ltimer[t].handle)
  /\ ltimer' = [ltimer EXCEPT ![t] = Dead]
  /\ UNCHANGED <<last_call, in_lua, closed>>

\* Mutant: the handle is not cleared for the last call.
BridgeKeepsHandle(t) ==
  /\ last_call' = (ltimer[t].remaining = 1)
  /\ ltimer' = [ltimer EXCEPT ![t].remaining = IF @ > 0 THEN @ - 1 ELSE @]

\* timer_callback_bridge, up to the call of the Lua function, which is left out
\* without callback_ref.
Bridge(t) ==
  /\ last_call' = (ltimer[t].remaining = 1)
  /\ ltimer' = [ltimer EXCEPT ![t].remaining = IF @ > 0 THEN @ - 1 ELSE @,
                              ![t].handle = IF last_call' THEN None ELSE @]

LuaFire(n) ==
  /\ Fire(n)
  /\ IF pc' = "callback" /\ user_data[n] # None
     THEN Bridge(user_data[n]) /\ in_lua' = ltimer[user_data[n]].refs
     ELSE UNCHANGED <<ltimer, last_call, in_lua>>
  /\ UNCHANGED <<user_data, closed>>

\* Mutant: the references are kept after the last call.
LuaCallbackReturnsKeepsRefs ==
  /\ CallbackReturns
  /\ last_call' = FALSE /\ in_lua' = FALSE
  /\ UNCHANGED <<ltimer, user_data, closed>>

\* The Lua function returns: the last call drops the references of the userdata at
\* the address it began with.  If that one was collected meanwhile and its memory
\* holds a new timer, it is the new timer that loses them; memory not used again
\* still has the L = NULL of l_timer_gc, and nothing is done.
LuaCallbackReturns ==
  /\ CallbackReturns
  /\ ltimer' = IF last_call
               THEN [ltimer EXCEPT ![user_data[cur]].refs = FALSE,
                                   ![user_data[cur]].cut = ltimer[user_data[cur]].handle # None]
               ELSE ltimer
  /\ user_data' = [user_data EXCEPT ![cur] = IF node'[cur].status = "free" THEN None ELSE @]
  /\ last_call' = FALSE /\ in_lua' = FALSE
  /\ UNCHANGED closed

LuaNext ==
  \/ LuaPoolCreate \/ LuaUninit
  \/ \E t \in LuaTimers : LuaAdd(t) \/ LuaDel(t) \/ LuaGC(t)
  \/ \E n \in Nodes : LuaFire(n)
  \/ LuaCallbackReturns
  \/ PollStep /\ UNCHANGED lvars

LuaSpec == LuaInit /\ [][LuaNext]_vars
-----------------------------------------------------------------------------
(* Properties.                                                              *)

\* Node n will still call back: it is in a slot or waits in the batch.
Armed(n) == ~node[n].cancelled /\ (node[n].status = "pending" \/ n \in batch)

\* A handle is never stale while the pool lives: it names a node that is in use,
\* not deleted, and belongs to this very userdata, so timer:del cannot hit a
\* node recycled for another timer (bridge: "clear handle so xtimer.del becomes
\* a no-op").
HandleFresh ==
  pool => \A t \in LuaTimers : ltimer[t].handle # None =>
    LET n == ltimer[t].handle IN
      node[n].status # "free" /\ ~node[n].cancelled /\ user_data[n] = t

\* Every node that will call back has a live userdata to call, also after userdata
\* were collected and their memory used again inside callbacks: it is pinned by its
\* own references ("Timer userdata holds a strong self-ref while it is live"), or
\* if those were cut, its collection takes the node along.
CallbackHasOwner ==
  \A n \in Nodes : Armed(n) =>
    /\ user_data[n] \in LuaTimers
    /\ LET t == ltimer[user_data[n]] IN t.alive /\ t.handle = n /\ (t.refs \/ t.cut)

\* Between polls a userdata pins itself exactly while it is armed, so a finished
\* or deleted timer can be collected, and a discarded one fires; but for the timer
\* whose references were cut.  Both layers agree on the calls left.
PinnedIffArmed ==
  pool /\ pc = "idle" => \A t \in LuaTimers :
    /\ ltimer[t].refs => ltimer[t].handle # None
    /\ ltimer[t].handle # None =>
         /\ ltimer[t].refs <=> ~ltimer[t].cut
         /\ ltimer[t].remaining \in {-1, node[ltimer[t].handle].repeat}

(* The inductive invariants behind HandleFresh, CallbackHasOwner and          *)
(* PinnedIffArmed, for scripts that leave timers alone after xtimer.uninit.   *)

\* xtimer_add stores an infinite repetition as INT_MAX calls; no timer has made
\* that many.  After the last of them its node is recycled although the userdata,
\* which counts for itself, keeps the handle.
NotWornOut ==
  \A n \in Nodes : node[n].status # "free" /\ node[n].rep0 = Infinite => node[n].fired < Infinite

\* Handle n of t is good, and both layers agree on the calls left: the bridge
\* counts before the Lua function runs, the wheel after it returned.
Holds(t, n) ==
  /\ n \in Nodes /\ node[n].status # "free" /\ ~node[n].cancelled
  /\ user_data[n] = t /\ ltimer[t].alive /\ (ltimer[t].refs <=> ~ltimer[t].cut)
  /\ \/ ltimer[t].remaining = -1 /\ node[n].rep0 = Infinite
     \/ /\ ltimer[t].remaining >= 1
        /\ ltimer[t].remaining = IF Called(n) THEN node[n].repeat - 1 ELSE node[n].repeat

HandleInv == pool => \A t \in LuaTimers : ltimer[t].handle # None => Holds(t, ltimer[t].handle)

\* Only its last call makes a node call back a userdata without a handle on it.
OwnerInv ==
  \A n \in Nodes : Armed(n) \/ (Called(n) /\ ~last_call /\ ~node[n].cancelled) =>
    user_data[n] \in LuaTimers /\ ltimer[user_data[n]].handle = n

\* In its last call the userdata has given the node up; its memory may hold another.
LastCallInv ==
  last_call =>
    /\ pc = "callback" /\ ~node[cur].cancelled /\ node[cur].repeat = 1
    /\ user_data[cur] \in LuaTimers /\ ltimer[user_data[cur]].handle # cur

\* A userdata pins itself without a handle only while its last call runs.
PinInv ==
  /\ pool => \A t \in LuaTimers :
       ltimer[t].refs /\ ltimer[t].handle = None => last_call /\ user_data[cur] = t
  /\ \A t \in LuaTimers : ~ltimer[t].alive => ltimer[t] = Dead
  /\ ~pool /\ ~closed => \A t \in LuaTimers : ltimer[t] = Dead
  /\ ~Reinit /\ closed => ~pool

LuaInv == HandleInv /\ OwnerInv /\ LastCallInv /\ PinInv
============================================================================
