---------------------------- MODULE XPollProofs ----------------------------
(***************************************************************************)
(* Proofs about XPoll, for any set of descriptor numbers, sockets and      *)
(* addresses and any number of registrations.                              *)
(***************************************************************************)
EXTENDS XPoll, FiniteSetTheorems, TLAPS

\* The registered descriptors.
Registrations == {f \in Fds : Registered(f)}

\* The counter nfds follows one registration made or destroyed.
LEMMA RegistrationCount ==
  /\ IsFiniteSet(Registrations) /\ Cardinality(Registrations) \in Nat
  /\ IsFiniteSet(Registrations') /\ Cardinality(Registrations') \in Nat
  /\ \A f \in Fds : f \notin Registrations /\ Registrations' = Registrations \cup {f}
       => Cardinality(Registrations') = Cardinality(Registrations) + 1
  /\ \A f \in Fds : f \in Registrations /\ Registrations' = Registrations \ {f}
       => Cardinality(Registrations') = Cardinality(Registrations) - 1
<1>1. IsFiniteSet(Registrations) /\ IsFiniteSet(Registrations')
  BY PollAssumption, FS_Subset DEF Registrations
<1> QED
  BY <1>1, FS_CardinalityType, FS_AddElement, FS_RemoveElement

\* The same counter, by the name of the set it counts.
LEMMA CountIsNfds == ASSUME IInv PROVE nfds = Cardinality(Registrations)
  BY DEF IInv, InterestAgrees, Registrations

\* The initial state satisfies the inductive invariant.
LEMMA InitIInv == Init => IInv
<1> SUFFICES ASSUME Init PROVE IInv
  OBVIOUS
<1>1. TypeOK
  BY PollAssumption DEF Init, TypeOK, Entry, NoEntry, NoEvent
<1>2. {f \in Fds : Registered(f)} = {}
  BY DEF Init, Registered, NoEntry
<1>3. InterestAgrees
  BY <1>2, FS_EmptySet DEF Init, InterestAgrees, Registered, NoEntry
<1> QED
  BY <1>1, <1>3 DEF IInv, Init, GenerationInv, OneOwnerPerEvent, NoEntry, NoEvent

\* A socket opened under a free number disturbs no registration.
LEMMA OpenStep == ASSUME IInv, NEW s \in Socks, Open(s) PROVE IInv'
<1> USE DEF IInv, Open, table, disp
<1>1. PICK f \in Fds : sock[f] = None /\ sock' = [sock EXCEPT ![f] = s]
  OBVIOUS
<1>2. TypeOK'
  BY <1>1 DEF TypeOK
<1>3. InterestAgrees'
  BY <1>1, PollAssumption DEF InterestAgrees, Registered, TypeOK
<1>4. GenerationInv' /\ OneOwnerPerEvent'
  BY DEF GenerationInv, OneOwnerPerEvent, Registered
<1> QED
  BY <1>2, <1>3, <1>4

\* Only descriptors without a registration are closed.
LEMMA CloseStep == ASSUME IInv, NEW f \in Fds, Close(f) PROVE IInv'
<1> USE DEF IInv, Close, table, disp
<1>1. TypeOK'
  BY DEF TypeOK
<1>2. InterestAgrees'
  BY DEF InterestAgrees, Registered, TypeOK
<1>3. GenerationInv' /\ OneOwnerPerEvent'
  BY DEF GenerationInv, OneOwnerPerEvent, Registered
<1> QED
  BY <1>1, <1>2, <1>3

\* A new registration has a generation no event in dispatch can have seen.
LEMMA AddEventNewStep ==
  ASSUME IInv, NEW f \in Fds, NEW m \in (SUBSET Masks) \ {{}}, AddEventNew(f, m)
  PROVE  IInv'
<1> USE DEF IInv
<1>1. next_gen' = next_gen + 1 /\ next_gen' \in 0..MaxRegs /\ UNCHANGED <<sock, unopened, disp>>
      /\ sock[f] \in Socks /\ ~Registered(f)
  BY PollAssumption DEF AddEventNew, TypeOK
<1>2. CASE UNCHANGED <<fd_map, epoll, nfds>>
  <2>1. TypeOK' /\ InterestAgrees'
    BY <1>1, <1>2 DEF TypeOK, InterestAgrees, Registered, disp
  <2>2. GenerationInv' /\ OneOwnerPerEvent'
    BY <1>1, <1>2 DEF TypeOK, Entry, GenerationInv, OneOwnerPerEvent, Registered, disp
  <2> QED
    BY <2>1, <2>2
<1>3. CASE /\ epoll' = [epoll EXCEPT ![f] = m] /\ nfds' = nfds + 1
           /\ \E a \in Addrs : fd_map' = [fd_map EXCEPT ![f] =
                [mask |-> m, procs |-> m \cup {"E"}, owner |-> sock[f], gen |-> next_gen + 1, addr |-> a]]
  <2>0. PICK a \in Addrs : fd_map' = [fd_map EXCEPT ![f] =
          [mask |-> m, procs |-> m \cup {"E"}, owner |-> sock[f], gen |-> next_gen + 1, addr |-> a]]
    BY <1>3
  <2> DEFINE r == [mask |-> m, procs |-> m \cup {"E"}, owner |-> sock[f],
                   gen |-> next_gen + 1, addr |-> a]
  <2>1. /\ r \in Entry /\ fd_map' = [fd_map EXCEPT ![f] = r]
        /\ r.mask = m /\ r.owner = sock[f] /\ r.gen = next_gen + 1
    BY <1>1, <2>0 DEF Entry, Masks
  <2> HIDE DEF r
  <2>2. /\ fd_map' \in [Fds -> Entry] /\ fd_map'[f] = r
        /\ \A g \in Fds \ {f} : fd_map'[g] = fd_map[g]
    BY <2>1 DEF TypeOK
  <2>3. TypeOK'
    BY <1>1, <1>3, <2>2 DEF TypeOK, disp
  <2>4. Registrations' = Registrations \cup {f} /\ f \notin Registrations
    <3>1. \A g \in Fds : Registered(g)' <=> Registered(g) \/ g = f
      <4>1. m # {} /\ fd_map'[f].mask = m
        BY <2>1, <2>2
      <4> QED
        BY <2>2, <4>1 DEF Registered
    <3> QED
      BY <1>1, <3>1 DEF Registrations
  <2>5. InterestAgrees'
    <3>1. nfds' = Cardinality(Registrations')
      BY <1>3, <2>4, RegistrationCount, CountIsNfds
    <3>2. epoll'[f] = m /\ \A g \in Fds \ {f} : epoll'[g] = epoll[g]
      BY <1>3 DEF TypeOK
    <3>3. sock' = sock /\ sock[f] # None
      BY <1>1, PollAssumption
    <3> QED
      BY <2>1, <2>2, <3>1, <3>2, <3>3 DEF InterestAgrees, Registrations, Registered
  <2>6. GenerationInv'
    BY <1>1, <2>1, <2>2 DEF GenerationInv, Registered, TypeOK, Entry, disp
  <2> QED
    BY <1>1, <2>3, <2>5, <2>6 DEF OneOwnerPerEvent, disp
<1> QED
  BY <1>2, <1>3 DEF AddEventNew

\* Registering more interest keeps generation and owner.
LEMMA AddEventStep ==
  ASSUME IInv, NEW f \in Fds, NEW m \in (SUBSET Masks) \ {{}}, AddEvent(f, m)
  PROVE  IInv'
<1> USE DEF IInv
<1>1. UNCHANGED <<sock, unopened, next_gen, nfds, disp>> /\ Registered(f)
  BY DEF AddEvent
<1>2. CASE UNCHANGED <<fd_map, epoll>>
  BY <1>1, <1>2 DEF TypeOK, InterestAgrees, GenerationInv, OneOwnerPerEvent, Registered, disp
<1>3. CASE /\ fd_map' = [fd_map EXCEPT ![f].mask = fd_map[f].mask \cup m,
                                       ![f].procs = @ \cup m \cup {"E"}, ![f].owner = sock[f]]
           /\ epoll' = [epoll EXCEPT ![f] = fd_map[f].mask \cup m]
  <2>1. /\ fd_map[f] \in Entry /\ sock[f] \in Socks \cup {None}
        /\ fd_map[f].owner = sock[f]
    BY <1>1 DEF TypeOK, InterestAgrees
  <2>2. /\ fd_map' \in [Fds -> Entry]
        /\ fd_map'[f].mask = fd_map[f].mask \cup m /\ fd_map'[f].owner = fd_map[f].owner
        /\ fd_map'[f].gen = fd_map[f].gen
        /\ \A g \in Fds \ {f} : fd_map'[g] = fd_map[g]
    BY <1>3, <2>1 DEF TypeOK, Entry, Masks
  <2>3. TypeOK'
    BY <1>1, <1>3, <2>1, <2>2 DEF TypeOK, Entry, disp
  <2>4. Registrations' = Registrations
    BY <1>1, <2>2 DEF Registrations, Registered
  <2>5. InterestAgrees'
    <3>1. nfds' = Cardinality(Registrations')
      BY <1>1, <2>4, CountIsNfds
    <3>2. epoll'[f] = fd_map[f].mask \cup m /\ \A g \in Fds \ {f} : epoll'[g] = epoll[g]
      BY <1>3 DEF TypeOK
    <3> QED
      BY <1>1, <2>2, <3>1, <3>2 DEF InterestAgrees, Registrations, Registered
  <2>6. GenerationInv' /\ OneOwnerPerEvent'
    BY <1>1, <2>2 DEF GenerationInv, OneOwnerPerEvent, Registered, disp
  <2> QED
    BY <2>3, <2>5, <2>6
<1> QED
  BY <1>2, <1>3 DEF AddEvent

\* Withdrawing interest shrinks an entry or destroys it.
LEMMA DelEventStep ==
  ASSUME IInv, NEW f \in Fds, NEW m \in (SUBSET Masks) \ {{}}, DelEvent(f, m)
  PROVE  IInv'
<1> USE DEF IInv
<1>1. UNCHANGED <<sock, unopened, next_gen, disp>> /\ Registered(f)
  BY DEF DelEvent, Registered
<1>2. CASE UNCHANGED <<fd_map, epoll, nfds>>
  BY <1>1, <1>2 DEF TypeOK, InterestAgrees, GenerationInv, OneOwnerPerEvent, Registered, disp
<1>3. CASE /\ fd_map' = [fd_map EXCEPT ![f] = NoEntry]
           /\ epoll' = [epoll EXCEPT ![f] = {}] /\ nfds' = nfds - 1
  <2>1. NoEntry \in Entry /\ NoEntry.mask = {} /\ NoEntry.gen = 0
    BY PollAssumption DEF NoEntry, Entry
  <2>2. Registrations' = Registrations \ {f} /\ f \in Registrations
    BY <1>1, <1>3, <2>1 DEF Registrations, Registered, TypeOK
  <2>3. nfds' = Cardinality(Registrations')
    BY <1>3, <2>2, RegistrationCount DEF InterestAgrees, Registrations
  <2>4. TypeOK'
    BY <1>1, <1>3, <2>1, <2>3, RegistrationCount DEF TypeOK, disp
  <2>5. InterestAgrees'
    BY <1>1, <1>3, <2>1, <2>3 DEF InterestAgrees, Registered, TypeOK, Registrations
  <2>6. GenerationInv' /\ OneOwnerPerEvent'
    BY <1>1, <1>3, <2>1 DEF GenerationInv, OneOwnerPerEvent, Registered, TypeOK, disp
  <2> QED
    BY <2>4, <2>5, <2>6
<1>4. CASE /\ fd_map[f].mask \ m # {} /\ UNCHANGED nfds
           /\ fd_map' = [fd_map EXCEPT ![f].mask = fd_map[f].mask \ m]
           /\ epoll' = [epoll EXCEPT ![f] = fd_map[f].mask \ m]
  <2>1. /\ fd_map' \in [Fds -> Entry]
        /\ fd_map'[f].mask = fd_map[f].mask \ m /\ fd_map'[f].owner = fd_map[f].owner
        /\ fd_map'[f].gen = fd_map[f].gen
        /\ \A g \in Fds \ {f} : fd_map'[g] = fd_map[g]
    BY <1>4 DEF TypeOK, Entry
  <2>2. TypeOK'
    BY <1>1, <1>4, <2>1 DEF TypeOK, Entry, disp
  <2>3. Registrations' = Registrations
    BY <1>1, <1>4, <2>1 DEF Registrations, Registered
  <2>4. InterestAgrees'
    <3>1. nfds' = Cardinality(Registrations')
      BY <1>4, <2>3, CountIsNfds
    <3>2. epoll'[f] = fd_map[f].mask \ m /\ \A g \in Fds \ {f} : epoll'[g] = epoll[g]
      BY <1>4 DEF TypeOK
    <3> QED
      BY <1>1, <2>1, <3>1, <3>2 DEF InterestAgrees, Registrations, Registered
  <2>5. GenerationInv' /\ OneOwnerPerEvent'
    BY <1>1, <2>1 DEF GenerationInv, OneOwnerPerEvent, Registered, disp
  <2> QED
    BY <2>2, <2>4, <2>5
<1> QED
  BY <1>2, <1>3, <1>4 DEF DelEvent

\* Steps of the dispatch loop leave the tables alone.
LEMMA LoopKeepsTables ==
  ASSUME IInv, UNCHANGED <<kernel, table>>
  PROVE  InterestAgrees'
  BY DEF IInv, InterestAgrees, Registered, kernel, table

\* epoll_wait fills the batch.
LEMMA PollStep == ASSUME IInv, Poll PROVE IInv'
<1> USE DEF IInv, Poll, kernel, table
<1>1. TypeOK'
  <2>1. PICK ready \in SUBSET Fds :
          \E rep \in [ready -> SUBSET Events] :
            batch' = {[fd |-> f, sock |-> sock[f], ev |-> rep[f]] : f \in ready}
    OBVIOUS
  <2>2. PICK rep \in [ready -> SUBSET Events] :
          batch' = {[fd |-> f, sock |-> sock[f], ev |-> rep[f]] : f \in ready}
    BY <2>1
  <2>3. batch' \subseteq [fd : Fds, sock : Socks \cup {None}, ev : SUBSET Events]
    BY <2>2 DEF TypeOK
  <2> QED
    BY <2>2 DEF TypeOK
<1>2. GenerationInv' /\ OneOwnerPerEvent'
  BY DEF GenerationInv, OneOwnerPerEvent
<1> QED
  BY <1>1, <1>2, LoopKeepsTables

\* An event is dispatched to the registration found under its number.
LEMMA DispatchStep == ASSUME IInv, Dispatch PROVE IInv'
<1> USE DEF IInv
<1>1. PICK e \in batch :
        /\ pc = "next" /\ batch' = batch \ {e} /\ UNCHANGED <<kernel, table>>
        /\ IF Registered(e.fd)
           THEN /\ cur' = [fd |-> e.fd, sock |-> e.sock, ev |-> e.ev, owner |-> fd_map[e.fd].owner,
                           gen |-> fd_map[e.fd].gen, addr |-> fd_map[e.fd].addr]
                /\ CallOr("W", e.fd, e.ev, "wcb", "rtest")
           ELSE UNCHANGED <<cur, pc, called>>
  BY DEF Dispatch
<1>2. e.fd \in Fds /\ e.sock \in Socks \cup {None} /\ e.ev \in SUBSET Events /\ fd_map[e.fd] \in Entry
  BY DEF TypeOK
<1>3. CASE ~Registered(e.fd)
  BY <1>1, <1>3, LoopKeepsTables
     DEF TypeOK, GenerationInv, OneOwnerPerEvent, Registered, kernel, table
<1>4. CASE Registered(e.fd)
  <2>1. /\ cur' \in [fd : Nat, sock : Socks \cup {None}, ev : SUBSET Events,
                     owner : Socks \cup {None}, gen : 0..MaxRegs, addr : Addrs \cup {None}]
        /\ cur'.fd = e.fd /\ cur'.owner = fd_map[e.fd].owner /\ cur'.gen = fd_map[e.fd].gen
    <3>1. fd_map[e.fd] \in Entry /\ fd_map[e.fd].owner \in Socks \cup {None}
          /\ fd_map[e.fd].gen \in 0..MaxRegs /\ fd_map[e.fd].addr \in Addrs \cup {None}
      BY <1>2 DEF Entry
    <3>2. e.fd \in Nat
      BY <1>2, PollAssumption
    <3> QED
      BY <1>1, <1>2, <1>4, <3>1, <3>2
  <2>2. \/ pc' = "wcb" /\ called' = fd_map[e.fd].owner
        \/ pc' = "rtest" /\ called' = None
    BY <1>1, <1>4 DEF CallOr
  <2>3. TypeOK'
    BY <1>1, <1>2, <2>1, <2>2 DEF TypeOK, Entry, kernel, table
  <2>4. GenerationInv' /\ OneOwnerPerEvent'
    BY <1>1, <1>2, <2>1, <2>2 DEF GenerationInv, OneOwnerPerEvent, Registered, kernel, table
  <2> QED
    BY <1>1, <2>3, <2>4, LoopKeepsTables
<1> QED
  BY <1>3, <1>4

\* The next callback is made only for the generation the event began with, and
\* that one still has its owner.
LEMMA TestStep ==
  ASSUME IInv, NEW k, NEW in \in {"rcb", "ecb"}, NEW after \in {"etest", "next"},
         pc \in {"rtest", "etest"},
         IF Same THEN CallOr(k, cur.fd, cur.ev, in, after) ELSE pc' = "next" /\ called' = None,
         cur' = IF pc' = "next" THEN NoEvent ELSE cur,
         UNCHANGED <<kernel, table, batch>>
  PROVE  IInv'
<1> USE DEF IInv
<1>1. \/ pc' = in /\ Same /\ called' = fd_map[cur.fd].owner /\ cur' = cur
      \/ pc' = "etest" /\ called' = None /\ cur' = cur
      \/ pc' = "next" /\ called' = None /\ cur' = NoEvent
  BY DEF CallOr
<1>2. cur.fd \in Fds
  BY DEF GenerationInv
<1>3. NoEvent.gen = 0 /\ NoEvent \in [fd : Nat, sock : Socks \cup {None}, ev : SUBSET Events,
        owner : Socks \cup {None}, gen : 0..MaxRegs, addr : Addrs \cup {None}]
  BY PollAssumption DEF NoEvent
<1>4. TypeOK'
  BY <1>1, <1>2, <1>3 DEF TypeOK, Entry, kernel, table
<1>5. GenerationInv'
  BY <1>1, <1>3 DEF GenerationInv, TypeOK, Registered, kernel, table
<1>6. OneOwnerPerEvent'
  BY <1>1, <1>2 DEF GenerationInv, OneOwnerPerEvent, Same
<1> QED
  BY <1>4, <1>5, <1>6, LoopKeepsTables

\* A callback, or the loop, returns.
LEMMA ReturnStep == ASSUME IInv, Return PROVE IInv'
<1> USE DEF IInv
<1>1. NoEvent.gen = 0 /\ NoEvent \in [fd : Nat, sock : Socks \cup {None}, ev : SUBSET Events,
        owner : Socks \cup {None}, gen : 0..MaxRegs, addr : Addrs \cup {None}]
  BY PollAssumption DEF NoEvent
<1>2. /\ cur' \in {cur, NoEvent} /\ called' = None /\ UNCHANGED <<kernel, table, batch>>
      /\ \/ pc' \in {"rtest", "etest"} /\ pc \in {"wcb", "rcb"} /\ cur' = cur
         \/ pc' \in {"next", "user"}
  BY DEF Return
<1>3. TypeOK'
  BY <1>1, <1>2 DEF TypeOK, kernel, table
<1>4. GenerationInv' /\ OneOwnerPerEvent'
  BY <1>1, <1>2 DEF GenerationInv, OneOwnerPerEvent, TypeOK, Registered, kernel, table
<1> QED
  BY <1>2, <1>3, <1>4, LoopKeepsTables

\* Every step keeps the inductive invariant.
LEMMA StepIInv == IInv /\ [Next]_vars => IInv'
<1> SUFFICES ASSUME IInv, [Next]_vars PROVE IInv'
  OBVIOUS
<1>1. CASE UNCHANGED vars
  BY <1>1 DEF vars, kernel, table, disp, IInv, TypeOK, InterestAgrees, GenerationInv,
     OneOwnerPerEvent, Registered
<1>2. CASE ReadTest
  BY <1>2, TestStep DEF ReadTest
<1>3. CASE ErrorTest
  BY <1>3, TestStep DEF ErrorTest
<1> QED
  BY <1>1, <1>2, <1>3, OpenStep, CloseStep, AddEventNewStep, AddEventStep, DelEventStep,
     PollStep, DispatchStep, ReturnStep DEF Next

\* The inductive invariant holds in every reachable state.
LEMMA Inductive == Spec => []IInv
  BY InitIInv, StepIInv, PTL DEF Spec

\* The tables of the kernel and the loop, and the dispatch, keep their types.
THEOREM TypeCorrect == Spec => []TypeOK
<1>1. IInv => TypeOK
  BY DEF IInv
<1> QED
  BY <1>1, Inductive, PTL

\* The table of registrations is what the kernel watches, for any interleaving of
\* registrations, withdrawals, closing and reuse, and any failures of malloc and
\* epoll_ctl; nfds counts the registrations.
THEOREM TableMatchesKernel == Spec => []InterestAgrees
<1>1. IInv => InterestAgrees
  BY DEF IInv
<1> QED
  BY <1>1, Inductive, PTL

\* _fe_get_same: the callbacks of one event all go to the registration found when
\* its dispatch began.
THEOREM EventKeepsOwner == Spec => []OneOwnerPerEvent
<1>1. IInv => OneOwnerPerEvent
  BY DEF IInv
<1> QED
  BY <1>1, Inductive, PTL
=============================================================================
