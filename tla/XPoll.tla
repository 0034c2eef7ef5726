------------------------------- MODULE XPoll -------------------------------
(***************************************************************************)
(* The event loop of xpoll.c with the epoll backend: the table of          *)
(* registrations, the kernel's interest list, and the dispatch of a batch  *)
(* of events by xpoll_poll.                                                *)
(*                                                                         *)
(* Everything happens in one thread.  The code outside the loop and the    *)
(* callbacks may open sockets, register and withdraw interest and close    *)
(* sockets; a socket gets the lowest free descriptor number, so a number   *)
(* is soon used again.  Callers follow the order of close_internal         *)
(* (xchannel.c), of the listeners and of the TLS connections: all events   *)
(* of a descriptor are deleted before it is closed.                        *)
(***************************************************************************)
EXTENDS Integers, FiniteSets

CONSTANTS
  Fds,       \* descriptor numbers
  Socks,     \* sockets, each opened once
  Addrs,     \* addresses malloc may return for a registration
  None,
  MaxRegs    \* bound: registrations made in all (next_gen)

ASSUME PollAssumption ==
  /\ Fds \subseteq Nat /\ IsFiniteSet(Fds)
  /\ None \notin Socks /\ None \notin Addrs
  /\ MaxRegs \in Nat

Masks == {"R", "W"}                      \* XPOLL_READABLE, XPOLL_WRITABLE
Events == {"IN", "OUT", "HUP", "ERR"}    \* EPOLLIN, EPOLLOUT, EPOLLRDHUP|EPOLLHUP, EPOLLERR

\* xPoolFD: interest, registered procs ("E" is efileProc), clientData (the
\* socket it belongs to), generation and address.  No registration has an
\* empty mask.
Entry == [mask : SUBSET Masks, procs : SUBSET {"R", "W", "E"}, owner : Socks \cup {None},
          gen : 0..MaxRegs, addr : Addrs \cup {None}]

NoEntry == [mask |-> {}, procs |-> {}, owner |-> None, gen |-> 0, addr |-> None]

VARIABLES
  sock,      \* the kernel: socket open under each number
  epoll,     \* the kernel: interest registered for each number, {} if none
  unopened,  \* sockets not opened yet
  fd_map, next_gen, nfds,
  batch,     \* ep_events not dispatched yet; sock is the socket that was ready
  pc,        \* "user": outside xpoll_poll; "wcb", "rcb", "ecb": in a callback;
             \*   "next", "rtest", "etest": in the dispatch loop
  cur,       \* the event in dispatch, and fe and gen as read at its start
  called     \* history: owner of the registration whose callback runs

kernel == <<sock, epoll, unopened>>
table  == <<fd_map, next_gen, nfds>>
disp   == <<batch, pc, cur, called>>
vars   == <<kernel, table, disp>>

NoEvent == [fd |-> 0, sock |-> None, ev |-> {}, owner |-> None, gen |-> 0, addr |-> None]

Init ==
  /\ sock = [f \in Fds |-> None] /\ epoll = [f \in Fds |-> {}] /\ unopened = Socks
  /\ fd_map = [f \in Fds |-> NoEntry] /\ next_gen = 0 /\ nfds = 0
  /\ batch = {} /\ pc = "user" /\ cur = NoEvent /\ called = None

Registered(f) == fd_map[f].mask # {}

\* Application code runs: between polls, or in a callback.
InUserCode == pc \in {"user", "wcb", "rcb", "ecb"}
-----------------------------------------------------------------------------
(* The application.                                                         *)

\* socket() or accept(): the lowest number that is free.
Open(s) ==
  /\ InUserCode /\ s \in unopened
  /\ \E f \in Fds :
       /\ sock[f] = None
       /\ \A g \in Fds : g < f => sock[g] # None
       /\ sock' = [sock EXCEPT ![f] = s]
  /\ unopened' = unopened \ {s}
  /\ UNCHANGED <<epoll, table, disp>>

\* Mutant: a failed EPOLL_CTL_ADD leaves the new entry in the table.
AddEventKeepsFailed(f, m) ==
  /\ InUserCode /\ sock[f] # None /\ ~Registered(f)
  /\ next_gen < MaxRegs
  /\ next_gen' = next_gen + 1
  /\ \E a \in Addrs \ {fd_map[g].addr : g \in Fds} :
       fd_map' = [fd_map EXCEPT ![f] = [mask |-> m, procs |-> m \cup {"E"}, owner |-> sock[f],
                                        gen |-> next_gen + 1, addr |-> a]]
  /\ \/ epoll' = [epoll EXCEPT ![f] = m] /\ nfds' = nfds + 1
     \/ UNCHANGED <<epoll, nfds>>
  /\ UNCHANGED <<sock, unopened, disp>>

\* xpoll_add_event on a descriptor without a registration: malloc may hand out
\* any free address; a failed malloc or EPOLL_CTL_ADD leaves no entry.
AddEventNew(f, m) ==
  /\ InUserCode /\ sock[f] # None /\ ~Registered(f)
  /\ next_gen < MaxRegs
  /\ next_gen' = next_gen + 1
  /\ \/ /\ \E a \in Addrs \ {fd_map[g].addr : g \in Fds} :
             fd_map' = [fd_map EXCEPT ![f] = [mask |-> m, procs |-> m \cup {"E"}, owner |-> sock[f],
                                              gen |-> next_gen + 1, addr |-> a]]
        /\ epoll' = [epoll EXCEPT ![f] = m]
        /\ nfds' = nfds + 1
     \/ UNCHANGED <<fd_map, epoll, nfds>>
  /\ UNCHANGED <<sock, unopened, disp>>

\* xpoll_add_event on a registered one: the procs are replaced at once when the
\* mask does not grow, else together with a successful EPOLL_CTL_MOD.
AddEvent(f, m) ==
  /\ InUserCode /\ Registered(f)
  /\ LET new_mask == fd_map[f].mask \cup m
     IN \/ /\ fd_map' = [fd_map EXCEPT ![f].mask = new_mask, ![f].procs = @ \cup m \cup {"E"},
                                       ![f].owner = sock[f]]
           /\ epoll' = [epoll EXCEPT ![f] = new_mask]
        \/ new_mask # fd_map[f].mask /\ UNCHANGED <<fd_map, epoll>>
  /\ UNCHANGED <<sock, unopened, next_gen, nfds, disp>>

\* Mutant: the mask is cleared although EPOLL_CTL_MOD failed.
DelEventUnchecked(f, m) ==
  /\ InUserCode /\ fd_map[f].mask \cap m # {}
  /\ LET new_mask == fd_map[f].mask \ m
     IN IF new_mask = {}
        THEN /\ fd_map' = [fd_map EXCEPT ![f] = NoEntry]
             /\ epoll' = [epoll EXCEPT ![f] = {}]
             /\ nfds' = nfds - 1
        ELSE /\ UNCHANGED nfds
             /\ fd_map' = [fd_map EXCEPT ![f].mask = new_mask]
             /\ epoll' = [epoll EXCEPT ![f] = new_mask] \/ UNCHANGED epoll
  /\ UNCHANGED <<sock, unopened, next_gen, disp>>

\* xpoll_del_event: the last interest destroys the entry; otherwise the mask
\* only shrinks when EPOLL_CTL_MOD succeeds.
DelEvent(f, m) ==
  /\ InUserCode /\ fd_map[f].mask \cap m # {}
  /\ LET new_mask == fd_map[f].mask \ m
     IN IF new_mask = {}
        THEN /\ fd_map' = [fd_map EXCEPT ![f] = NoEntry]
             /\ epoll' = [epoll EXCEPT ![f] = {}]
             /\ nfds' = nfds - 1
        ELSE /\ UNCHANGED nfds
             /\ \/ /\ fd_map' = [fd_map EXCEPT ![f].mask = new_mask]
                   /\ epoll' = [epoll EXCEPT ![f] = new_mask]
                \/ UNCHANGED <<fd_map, epoll>>
  /\ UNCHANGED <<sock, unopened, next_gen, disp>>

\* close() of a descriptor whose events were all deleted.
Close(f) ==
  /\ InUserCode /\ sock[f] # None /\ ~Registered(f)
  /\ sock' = [sock EXCEPT ![f] = None]
  /\ UNCHANGED <<epoll, unopened, table, disp>>
-----------------------------------------------------------------------------
(* xpoll_poll.                                                              *)

\* What epoll_wait may report of a descriptor: errors and hangups always.
Reports(f) == {ev \in (SUBSET Events) \ {{}} : ("IN" \in ev => "R" \in epoll[f])
                                            /\ ("OUT" \in ev => "W" \in epoll[f])}

\* epoll_wait: the descriptors of `ready`, in no particular order.
Poll ==
  /\ pc = "user"
  /\ \E ready \in (SUBSET {f \in Fds : epoll[f] # {}}) \ {{}} :
       \E rep \in [ready -> SUBSET Events] :
         /\ \A f \in ready : rep[f] \in Reports(f)
         /\ batch' = {[fd |-> f, sock |-> sock[f], ev |-> rep[f]] : f \in ready}
  /\ pc' = "next"
  /\ UNCHANGED <<kernel, table, cur, called>>

\* The mask xpoll_poll makes of the events.
Wants(ev) ==
  (IF "OUT" \in ev THEN {"W"} ELSE {}) \cup (IF "IN" \in ev THEN {"R"} ELSE {})
  \cup (IF "ERR" \in ev \/ ("HUP" \in ev /\ "IN" \notin ev) THEN {"E"} ELSE {})

\* Call proc k of the registration under f if the event wants it and it is set.
CallOr(k, f, ev, in, after) ==
  IF k \in Wants(ev) /\ k \in fd_map[f].procs
  THEN pc' = in /\ called' = fd_map[f].owner
  ELSE pc' = after /\ called' = None

\* The next event: looked up by number; fe and gen are remembered, and the
\* write callback comes first.
Dispatch == \E e \in batch :
  /\ pc = "next"
  /\ batch' = batch \ {e}
  /\ IF Registered(e.fd)
     THEN /\ cur' = [fd |-> e.fd, sock |-> e.sock, ev |-> e.ev, owner |-> fd_map[e.fd].owner,
                     gen |-> fd_map[e.fd].gen, addr |-> fd_map[e.fd].addr]
          /\ CallOr("W", e.fd, e.ev, "wcb", "rtest")
     ELSE UNCHANGED <<cur, pc, called>>
  /\ UNCHANGED <<kernel, table>>

\* Mutant: entries are told apart by their address alone.
SamePointer == Registered(cur.fd) /\ fd_map[cur.fd].addr = cur.addr

\* _fe_get_same
Same == Registered(cur.fd) /\ fd_map[cur.fd].addr = cur.addr /\ fd_map[cur.fd].gen = cur.gen

\* After the write callback, and after the read callback: go on only with the
\* entry the event began with.
ReadTest ==
  /\ pc = "rtest"
  /\ IF Same THEN CallOr("R", cur.fd, cur.ev, "rcb", "etest") ELSE pc' = "next" /\ called' = None
  /\ cur' = IF pc' = "next" THEN NoEvent ELSE cur
  /\ UNCHANGED <<kernel, table, batch>>

ErrorTest ==
  /\ pc = "etest"
  /\ IF Same THEN CallOr("E", cur.fd, cur.ev, "ecb", "next") ELSE pc' = "next" /\ called' = None
  /\ cur' = IF pc' = "next" THEN NoEvent ELSE cur
  /\ UNCHANGED <<kernel, table, batch>>

Return ==
  /\ \/ pc = "wcb" /\ pc' = "rtest"
     \/ pc = "rcb" /\ pc' = "etest"
     \/ pc = "ecb" /\ pc' = "next"
     \/ pc = "next" /\ batch = {} /\ pc' = "user"
  /\ called' = None
  /\ cur' = IF pc' = "next" THEN NoEvent ELSE cur
  /\ UNCHANGED <<kernel, table, batch>>
-----------------------------------------------------------------------------
Next ==
  \/ \E s \in Socks : Open(s)
  \/ \E f \in Fds : Close(f)
  \/ \E f \in Fds, m \in (SUBSET Masks) \ {{}} : AddEventNew(f, m) \/ AddEvent(f, m) \/ DelEvent(f, m)
  \/ Poll \/ Dispatch \/ ReadTest \/ ErrorTest \/ Return

Spec == Init /\ [][Next]_vars
-----------------------------------------------------------------------------
(* Properties.                                                              *)

\* The types of the kernel's and the loop's tables and of the dispatch.
TypeOK ==
  /\ sock \in [Fds -> Socks \cup {None}] /\ epoll \in [Fds -> SUBSET Masks]
  /\ unopened \subseteq Socks
  /\ fd_map \in [Fds -> Entry] /\ next_gen \in 0..MaxRegs /\ nfds \in Nat
  /\ batch \subseteq [fd : Fds, sock : Socks \cup {None}, ev : SUBSET Events]
  /\ pc \in {"user", "next", "wcb", "rtest", "rcb", "etest", "ecb"}
  /\ cur \in [fd : Nat, sock : Socks \cup {None}, ev : SUBSET Events, owner : Socks \cup {None},
              gen : 0..MaxRegs, addr : Addrs \cup {None}]
  /\ called \in Socks \cup {None}

\* The table is what the kernel watches, through failing malloc and epoll_ctl,
\* partial withdrawal and descriptor reuse: same interest, owned by the socket
\* that is open under the number, and nfds (the size of the next batch) counts
\* the registrations.
InterestAgrees ==
  /\ \A f \in Fds : /\ epoll[f] = fd_map[f].mask
                    /\ Registered(f) => fd_map[f].owner = sock[f] /\ sock[f] # None
  /\ nfds = Cardinality({f \in Fds : Registered(f)})

\* The comment of _fe_get_same: callbacks may close the descriptor and register
\* a new socket under the same number and at the same address, yet the later
\* callbacks of this event only go to the registration it began with.
OneOwnerPerEvent == pc \in {"wcb", "rcb", "ecb"} => called = cur.owner

\* tests/lua/xpoll_fd_reuse_test.lua: "a closed socket's events must not reach
\* the next socket registered on the same fd".
EventReachesItsSocket == pc \in {"wcb", "rcb", "ecb"} => called = cur.sock
-----------------------------------------------------------------------------
(* The inductive invariant behind them.                                     *)

\* Generations name registrations: none is ahead of the counter, and while an
\* event is dispatched the generation it began with still stands for its owner,
\* however often its number was registered since.
GenerationInv ==
  /\ \A f \in Fds : fd_map[f].gen <= next_gen
  /\ cur.gen <= next_gen
  /\ pc \in {"wcb", "rtest", "rcb", "etest", "ecb"} =>
       /\ cur.fd \in Fds
       /\ Registered(cur.fd) /\ fd_map[cur.fd].gen = cur.gen => fd_map[cur.fd].owner = cur.owner

IInv == TypeOK /\ InterestAgrees /\ GenerationInv /\ OneOwnerPerEvent
=============================================================================
