------------------------------ MODULE XChannel ------------------------------
(***************************************************************************)
(* One buffered, framed connection (xchannel.c, epoll build) between the   *)
(* event loop, the application and the peer.                               *)
(*                                                                         *)
(* The loop delivers an event of the descriptor in the order of xpoll_poll *)
(* (writable, readable, error), and stops when the registration is gone.   *)
(* The application calls the API between events and from its callbacks;    *)
(* an operation is a pure function from the channel to the set of channels *)
(* it may leave behind, composed the way the C functions call each other.  *)
(*                                                                         *)
(* Output bytes are numbered in the order in which they are accepted;      *)
(* input is a stream of packets of PacketSize bytes, of which the first    *)
(* stands for the header.  Transforms, statistics and buffer growth are    *)
(* left out.  Any allocation may fail, and so may arming an event (with-   *)
(* drawing one is taken to succeed).                                       *)
(*                                                                         *)
(* The application never calls xchannel_resume_read from a packet callback *)
(* of the same channel.                                                    *)
(***************************************************************************)
EXTENDS Integers, Sequences, FiniteSets

CONSTANTS
  Frames,       \* subset of {"len", "raw"}
  PacketSize,   \* bytes of a framed packet with its header (or trailer)
  Oversized,    \* numbers of the framed packets whose length exceeds max_packet
  MaxPacket,    \* max_packet of a raw channel
  InMax,        \* in.max; 0 = no limit
  OutMax,       \* out.max; 0 = no limit
  SndBuf,       \* bytes the kernel's send buffer holds
  EarlyFile,    \* TRUE: files may be sent before the connection is up
  MaxIn,        \* bound: bytes the peer sends
  MaxOut        \* bound: bytes the application sends

ASSUME ChannelAssumption ==
  /\ Frames \subseteq {"len", "raw"} /\ PacketSize \in Nat \ {0}
  /\ Oversized \subseteq Nat /\ MaxPacket \in Nat /\ InMax \in Nat /\ OutMax \in Nat /\ SndBuf \in Nat \ {0}
  /\ EarlyFile \in BOOLEAN /\ MaxIn \in Nat /\ MaxOut \in Nat

VARIABLES
  ch,     \* the xChannel, its registration with xpoll and its socket
  net,    \* the peer and the kernel
  pc,     \* "idle"; "process": in process_input; "after": behind it;
          \*   "packet", "connect", "eof": in that callback
  loc     \* locals of xchannel_read_event / xchannel_resume_read

vars == <<ch, net, pc, loc>>

NoLoc == [from |-> "read", over |-> FALSE, n |-> FALSE, tail |-> "none"]

\* xchannel_create followed by xchannel_attach (an accepted socket) or by
\* xchannel_attach_connect (a connecting one).
Init ==
  /\ \E f \in Frames, e \in BOOLEAN, c \in BOOLEAN :
       /\ ch = [frame |-> f, eof_cb |-> e,
                closed |-> FALSE, read_closed |-> FALSE, write_closed |-> FALSE,
                connected |-> ~c, connect_pending |-> c, read_paused |-> FALSE,
                close_after_flush |-> FALSE, shutdown_write_after_flush |-> FALSE,
                out |-> <<>>, file |-> <<>>, in |-> 0,
                fd |-> "open",                          \* "open", "closed" or "released"
                reg |-> IF c THEN {"W"} ELSE {"R"},     \* xPoolFD mask
                wproc |-> IF c THEN "connect" ELSE "write",
                ev |-> {},                              \* callbacks left of the event in dispatch
                wire |-> <<>>, room |-> SndBuf,         \* bytes sent; space in the kernel's buffer
                accepted |-> 0, got |-> 0,              \* bytes accepted for sending; bytes read
                closes |-> 0]                           \* close_cb calls
       /\ net = [avail |-> 0, total |-> 0, fin |-> FALSE, err |-> FALSE, est |-> ~c]
  /\ pc = "idle" /\ loc = NoLoc

Min2(a, b) == IF a <= b THEN a ELSE b

Numbers(a, k) == [i \in 1..k |-> a + i]
-----------------------------------------------------------------------------
(* The static functions of xchannel.c.                                      *)

\* xpoll_del_event: without interest the registration is gone, and with it the
\* rest of the event that is being dispatched.
DelEvent(c, m) == [c EXCEPT !.reg = @ \ m, !.ev = IF c.reg \subseteq m THEN {} ELSE @]

\* Mutant: a channel that is closed already is closed again.
CloseInternalTwice(c) ==
  [DelEvent(c, {"R", "W"}) EXCEPT
     !.closed = TRUE, !.connected = FALSE, !.connect_pending = FALSE,
     !.read_closed = TRUE, !.write_closed = TRUE,
     !.close_after_flush = FALSE, !.shutdown_write_after_flush = FALSE,
     !.fd = "closed", !.file = <<>>, !.closes = @ + 1]

\* close_internal with notify
CloseInternal(c) ==
  IF c.closed THEN c
  ELSE [DelEvent(c, {"R", "W"}) EXCEPT
          !.closed = TRUE, !.connected = FALSE, !.connect_pending = FALSE,
          !.read_closed = TRUE, !.write_closed = TRUE,
          !.close_after_flush = FALSE, !.shutdown_write_after_flush = FALSE,
          !.fd = "closed", !.file = <<>>, !.closes = @ + 1]

\* arm_writable
ArmWritable(c, proc) ==
  {[c EXCEPT !.reg = @ \cup {"W"}, !.wproc = proc], CloseInternal(c)}

\* xpoll_add_event(READABLE), closing the channel when it fails.
ArmReadable(c) == {[c EXCEPT !.reg = @ \cup {"R"}], CloseInternal(c)}

WriteProc(c) == IF c.connect_pending THEN "connect" ELSE "write"

HasPendingOutput(c) == c.connect_pending \/ c.out # <<>> \/ c.file # <<>>

ShutdownWriteNow(c) ==
  IF c.write_closed THEN c
  ELSE [DelEvent(c, {"W"}) EXCEPT !.write_closed = TRUE, !.shutdown_write_after_flush = FALSE]

\* finish_deferred_close
FinishDeferredClose(c) ==
  IF c.closed \/ HasPendingOutput(c) THEN c
  ELSE IF c.close_after_flush THEN CloseInternal(c)
  ELSE LET d == IF c.shutdown_write_after_flush THEN ShutdownWriteNow(c) ELSE c
       IN IF d.read_closed /\ d.write_closed THEN CloseInternal(d) ELSE d

\* The first k bytes of out and file have gone to the kernel.
Sent(c, k) ==
  LET all == c.out \o c.file
      o   == Min2(k, Len(c.out))
  IN [c EXCEPT !.wire = @ \o SubSeq(all, 1, k), !.room = @ - k,
               !.out = SubSeq(c.out, o + 1, Len(c.out)),
               !.file = SubSeq(c.file, k - o + 1, Len(c.file))]

\* The file turned out shorter than its size when it was opened.
Truncated(c) == [c EXCEPT !.file = <<>>, !.accepted = @ - Len(c.file)]

\* Mutant: the writable interest is kept when everything has been sent.
FlushOutputKeepsArmed(c) ==
  IF c.closed \/ c.connect_pending THEN {c}
  ELSE LET all == c.out \o c.file
           s   == Sent(c, Min2(Len(all), c.room))
       IN IF all # <<>> /\ (net.err \/ c.write_closed) THEN {CloseInternal(c)}
          ELSE {IF HasPendingOutput(s) THEN s ELSE FinishDeferredClose(s)}

\* Mutant: a flush that sends everything does not look at the deferred close.
FlushOutputNoFinish(c) ==
  IF c.closed \/ c.connect_pending THEN {c}
  ELSE LET all == c.out \o c.file
           s   == Sent(c, Min2(Len(all), c.room))
       IN IF all # <<>> /\ (net.err \/ c.write_closed) THEN {CloseInternal(c)}
          ELSE {IF HasPendingOutput(s) THEN s ELSE DelEvent(s, {"W"})}

\* flush_output: send until the kernel takes no more, first out, then the file.
FlushOutput(c) ==
  IF c.closed \/ c.connect_pending THEN {c}
  ELSE LET all == c.out \o c.file
           s   == Sent(c, Min2(Len(all), c.room))
       IN IF all # <<>> /\ (net.err \/ c.write_closed) THEN {CloseInternal(c)}
          ELSE {IF HasPendingOutput(s) THEN s ELSE FinishDeferredClose(DelEvent(s, {"W"}))}
               \cup {FinishDeferredClose(DelEvent(Truncated(t), {"W"})) :
                       t \in {x \in {s} : x.out = <<>> /\ x.file # <<>>}}

\* Mutant: a send is accepted while a file is still going out.
CanSendDuringFile(c) ==
  /\ ~c.closed /\ ~c.close_after_flush /\ ~c.write_closed /\ ~c.shutdown_write_after_flush
  /\ OutMax > 0 => Len(c.out) < OutMax

\* check_send_limit returns 0.
CanSend(c) ==
  /\ ~c.closed /\ ~c.close_after_flush /\ ~c.write_closed /\ ~c.shutdown_write_after_flush
  /\ c.file = <<>>
  /\ OutMax > 0 => Len(c.out) < OutMax

\* queue_or_send_iov of k bytes: behind what is queued, else straight to the
\* kernel, which may take any part of them.
QueueOrSend(c, k) ==
  LET new == Numbers(c.accepted, k)
      a   == [c EXCEPT !.accepted = @ + k]
  IN IF c.connect_pending \/ c.out # <<>> \/ ~c.connected
     THEN LET q == [a EXCEPT !.out = @ \o new]
          IN {CloseInternal(c)}
             \cup (IF c.out = <<>> THEN ArmWritable(q, WriteProc(c)) ELSE {q})
     ELSE IF net.err THEN {CloseInternal(c)}
     ELSE UNION { LET s == [a EXCEPT !.wire = @ \o SubSeq(new, 1, j), !.room = @ - j,
                                     !.out = SubSeq(new, j + 1, k)]
                  IN IF j = k THEN {s} ELSE ArmWritable(s, "write") : j \in 0..Min2(k, c.room) }

\* The tail of send_file_raw, close_after_flush and shutdown_write_after_flush.
ArmIfPending(c, proc) == IF ~c.closed /\ HasPendingOutput(c) THEN ArmWritable(c, proc) ELSE {c}
-----------------------------------------------------------------------------
(* The application.                                                         *)

InCallback == pc \in {"packet", "connect", "eof"}

AppRuns == (pc = "idle" /\ ch.ev = {}) \/ InCallback

Call(outcomes) == /\ AppRuns
                  /\ ch' \in outcomes
                  /\ UNCHANGED <<net, pc, loc>>

\* xchannel_send_raw, xchannel_send_packet
Send == \E k \in 1..(MaxOut - ch.accepted) : CanSend(ch) /\ Call(QueueOrSend(ch, k))

\* xchannel_send_file_raw: a header of h bytes and k bytes of a file.
SendFile == \E h \in {0, 1}, k \in 1..(MaxOut - ch.accepted) :
  /\ ch.accepted + h + k <= MaxOut
  /\ ~ch.closed /\ ~ch.close_after_flush /\ ch.file = <<>>
  /\ ch.connect_pending => EarlyFile
  /\ LET q == [ch EXCEPT !.out = @ \o Numbers(ch.accepted, h),
                         !.file = Numbers(ch.accepted + h, k), !.accepted = @ + h + k]
     IN Call((UNION {ArmIfPending(c, "write") : c \in FlushOutput(q)})
             \cup (IF h = 0 THEN {} ELSE {CloseInternal(ch)}))

\* xchannel_close
Close == ~ch.closed /\ Call({CloseInternal(ch)})

CloseAfterFlush ==
  /\ ~ch.closed
  /\ Call(UNION {ArmIfPending(c, WriteProc(ch)) :
                   c \in FlushOutput([ch EXCEPT !.close_after_flush = TRUE])})

ShutdownWriteAfterFlush ==
  /\ ~ch.closed /\ ~ch.write_closed
  /\ Call(UNION {ArmIfPending(c, WriteProc(ch)) :
                   c \in FlushOutput([ch EXCEPT !.shutdown_write_after_flush = TRUE])})

PauseRead ==
  /\ ~ch.closed /\ ~ch.read_paused
  /\ Call({DelEvent([ch EXCEPT !.read_paused = TRUE], {"R"})})

\* xchannel_resume_read up to its process_input.
ResumeRead ==
  /\ pc = "idle" /\ ch.ev = {} /\ ~ch.closed /\ ch.read_paused
  /\ ch' = [ch EXCEPT !.read_paused = FALSE]
  /\ IF ch.read_closed THEN UNCHANGED <<pc, loc>>
     ELSE pc' = "process" /\ loc' = [NoLoc EXCEPT !.from = "resume"]
  /\ UNCHANGED net

\* xchannel_resume_read from connect_cb, when nothing has been read yet, and from
\* eof_cb, when reading is over: process_input has nothing to do.
ResumeInCallback ==
  /\ pc \in {"connect", "eof"} /\ ~ch.closed /\ ch.read_paused
  /\ ch.in = 0 \/ ch.read_closed
  /\ LET c == [ch EXCEPT !.read_paused = FALSE]
     IN Call(IF c.read_closed THEN {c} ELSE ArmReadable(c))

\* xchannel_destroy by the owner (l_conn_gc): closed without close_cb.
Destroy ==
  /\ ~ch.closed
  /\ Call({[CloseInternal(ch) EXCEPT !.closes = ch.closes]})

\* xchannel_release_fd: the descriptor survives the channel.
ReleaseFd ==
  /\ ~ch.closed
  /\ Call({[DelEvent(ch, {"R", "W"}) EXCEPT
              !.closed = TRUE, !.connected = FALSE, !.connect_pending = FALSE,
              !.read_closed = TRUE, !.write_closed = TRUE, !.fd = "released"]})
-----------------------------------------------------------------------------
(* The event loop.                                                          *)

\* What epoll_wait reports of this descriptor, as the callbacks xpoll_poll will
\* make: a hangup of the peer alone is an error unless EPOLLIN came with it.
Ready ==
  LET r == "R" \in ch.reg /\ (net.avail > 0 \/ net.fin \/ net.err)
      w == "W" \in ch.reg /\ (net.err \/ (net.est /\ ch.room > 0))
      e == ch.reg # {} /\ (net.err \/ (net.fin /\ ~r))
  IN {x \in {"R", "W", "E"} : (x = "R" /\ r) \/ (x = "W" /\ w) \/ (x = "E" /\ e)}

Event ==
  /\ pc = "idle" /\ ch.ev = {} /\ Ready # {}
  /\ ch' = [ch EXCEPT !.ev = Ready]
  /\ UNCHANGED <<net, pc, loc>>

\* xchannel_write_event
WriteEvent ==
  /\ pc = "idle" /\ "W" \in ch.ev /\ ch.wproc = "write"
  /\ ch' \in FlushOutput([ch EXCEPT !.ev = @ \ {"W"}])
  /\ UNCHANGED <<net, pc, loc>>

\* xchannel_connect_event, finish_connect up to connect_cb: withdrawing the
\* writable interest destroys the registration that xchannel_attach makes anew.
\* getsockopt and xchannel_attach may fail.
ConnectEvent ==
  /\ pc = "idle" /\ "W" \in ch.ev /\ ch.wproc = "connect"
  /\ LET c == [ch EXCEPT !.ev = @ \ {"W"}, !.connect_pending = FALSE, !.connected = TRUE]
     IN \/ /\ ~net.err /\ pc' = "connect"
           /\ ch' = [DelEvent(c, {"W"}) EXCEPT !.reg = @ \cup IF ch.read_closed THEN {} ELSE {"R"}]
        \/ ch' = CloseInternal(c) /\ UNCHANGED pc
  /\ UNCHANGED <<net, loc>>

\* The rest of finish_connect: flush what was queued meanwhile.
ConnectReturns ==
  /\ pc = "connect" /\ pc' = "idle"
  /\ ch' \in UNION {ArmIfPending(c, "write") : c \in FlushOutput(ch)}
  /\ UNCHANGED <<net, loc>>

\* Mutant: what recv returns is added to the buffered length twice.
ReadEventCountsTwice ==
  /\ pc = "idle" /\ "R" \in ch.ev /\ "W" \notin ch.ev
  /\ IF ch.read_paused
     THEN ch' = [ch EXCEPT !.ev = @ \ {"R"}] /\ UNCHANGED <<net, pc, loc>>
     ELSE \E k \in (IF net.avail = 0 THEN {} ELSE 1..net.avail) :
            LET over == InMax > 0 /\ ch.in + 2 * k > InMax
                c    == [ch EXCEPT !.ev = @ \ {"R"}, !.in = @ + 2 * k, !.got = @ + k]
            IN /\ ch' = IF over THEN DelEvent(c, {"R"}) ELSE c
               /\ net' = [net EXCEPT !.avail = @ - k]
               /\ loc' = [NoLoc EXCEPT !.over = over]
               /\ pc' = "process"

\* xchannel_read_event up to process_input: up to three recv calls; the end of
\* the stream is only seen when the buffer stayed within its limit.
ReadEvent ==
  /\ pc = "idle" /\ "R" \in ch.ev /\ "W" \notin ch.ev
  /\ IF ch.read_paused
     THEN ch' = [ch EXCEPT !.ev = @ \ {"R"}] /\ UNCHANGED <<net, pc, loc>>
     ELSE \/ ch' = CloseInternal(ch) /\ UNCHANGED <<net, pc, loc>>
          \/ \E k \in (IF net.avail = 0 THEN {0} ELSE 1..net.avail), tail \in {"none", "eof", "error"} :
              LET over == InMax > 0 /\ ch.in + k > InMax
                  c    == [ch EXCEPT !.ev = @ \ {"R"}, !.in = @ + k, !.got = @ + k]
              IN /\ tail = "eof" => net.fin /\ k = net.avail /\ ~over
                 /\ tail = "error" => net.err /\ ~over
                 /\ k = 0 => tail # "none"
                 /\ ch' = IF over THEN DelEvent(c, {"R"}) ELSE c
                 /\ net' = [net EXCEPT !.avail = @ - k]
                 /\ loc' = [from |-> "read", over |-> over, n |-> FALSE, tail |-> tail]
                 /\ pc' = "process"

\* xchannel_error_event
ErrorEvent ==
  /\ pc = "idle" /\ ch.ev = {"E"}
  /\ ch' = CloseInternal([ch EXCEPT !.ev = {}])
  /\ UNCHANGED <<net, pc, loc>>
-----------------------------------------------------------------------------
(* process_input and what its two callers do afterwards.                    *)

PacketNumber == ((ch.got - ch.in) \div PacketSize) + 1

\* A whole packet is at the head of the input buffer.
Complete == ch.in > 0 /\ (ch.frame = "len" => ch.in >= PacketSize)

\* The length in the header, or the amount of raw input, exceeds max_packet.
TooLarge == IF ch.frame = "len" THEN ch.in > 0 /\ PacketNumber \in Oversized ELSE ch.in > MaxPacket

\* One round of the loop of process_input, up to packet_cb.
ProcessInput ==
  /\ pc = "process"
  /\ IF ~ch.closed /\ TooLarge
     THEN ch' = CloseInternal(ch) /\ pc' = "after"
     ELSE pc' = (IF ~ch.closed /\ Complete THEN "packet" ELSE "after") /\ UNCHANGED ch
  /\ UNCHANGED <<net, loc>>

\* packet_cb returns: a framed packet is consumed; raw, as much as it says.
PacketReturns ==
  /\ pc = "packet"
  /\ IF ch.closed THEN pc' = "after" /\ UNCHANGED <<ch, loc>>
     ELSE \E k \in (IF ch.frame = "len" THEN {PacketSize} ELSE 0..(ch.in + 1)) :
       IF k = 0 THEN pc' = "after" /\ UNCHANGED <<ch, loc>>
       ELSE IF k > ch.in
       THEN pc' = "after" /\ ch' = CloseInternal(ch) /\ UNCHANGED loc
       ELSE pc' = "process" /\ ch' = [ch EXCEPT !.in = @ - k] /\ loc' = [loc EXCEPT !.n = TRUE]
  /\ UNCHANGED net

\* Reading resumes when the buffer is back within its limit.
Rearmed ==
  LET c == IF loc.from = "read" /\ loc.over /\ ~loc.n THEN CloseInternal(ch) ELSE ch
  IN IF /\ ~c.closed /\ ~c.read_paused
        /\ loc.from = "read" => loc.over
        /\ loc.from = "resume" => ~c.read_closed
        /\ InMax = 0 \/ c.in <= InMax
     THEN ArmReadable(c) ELSE {c}

\* The rest of xchannel_read_event (with xchannel_read_eof) and of
\* xchannel_resume_read.
AfterInput ==
  /\ pc = "after"
  /\ \E c \in Rearmed :
       IF ~c.closed /\ loc.tail = "eof" /\ ~c.read_closed
       THEN LET d == DelEvent([c EXCEPT !.read_closed = TRUE], {"R"})
            IN /\ ch' = IF ch.eof_cb THEN d ELSE CloseInternal(d)
               /\ pc' = IF ch.eof_cb THEN "eof" ELSE "idle"
       ELSE /\ ch' = IF loc.tail = "error" THEN CloseInternal(c) ELSE c
            /\ pc' = "idle"
  /\ loc' = NoLoc
  /\ UNCHANGED net

EofReturns ==
  /\ pc = "eof" /\ pc' = "idle"
  /\ ch' = FinishDeferredClose(ch)
  /\ UNCHANGED <<net, loc>>
-----------------------------------------------------------------------------
(* The peer and the kernel.                                                 *)

PeerSends == \E k \in 1..(MaxIn - net.total) :
  /\ net.est /\ ~net.fin /\ ~net.err /\ ch.fd = "open"
  /\ net' = [net EXCEPT !.avail = @ + k, !.total = @ + k]
  /\ UNCHANGED <<ch, pc, loc>>

\* The peer shuts down its sending side.
PeerFin ==
  /\ net.est /\ ~net.fin /\ ~net.err /\ ch.fd = "open"
  /\ net' = [net EXCEPT !.fin = TRUE]
  /\ UNCHANGED <<ch, pc, loc>>

\* The connection is reset, or could not be made.
PeerReset ==
  /\ ~net.err /\ ch.fd = "open"
  /\ net' = [net EXCEPT !.err = TRUE]
  /\ UNCHANGED <<ch, pc, loc>>

Established ==
  /\ ~net.est /\ ~net.err /\ ch.fd = "open"
  /\ net' = [net EXCEPT !.est = TRUE]
  /\ UNCHANGED <<ch, pc, loc>>

\* The peer acknowledges: the send buffer has room again.
PeerReads ==
  /\ ch.room < SndBuf /\ ~net.err /\ ch.fd = "open"
  /\ ch' = [ch EXCEPT !.room = SndBuf]
  /\ UNCHANGED <<net, pc, loc>>
-----------------------------------------------------------------------------
App == \/ Send \/ SendFile \/ Close \/ CloseAfterFlush \/ ShutdownWriteAfterFlush
       \/ PauseRead \/ ResumeRead \/ ResumeInCallback \/ Destroy \/ ReleaseFd

Loop == \/ Event \/ WriteEvent \/ ConnectEvent \/ ReadEvent \/ ErrorEvent
        \/ ProcessInput \/ AfterInput
        \/ PacketReturns \/ ConnectReturns \/ EofReturns

Peer == PeerSends \/ PeerFin \/ PeerReset \/ Established \/ PeerReads

Next == App \/ Loop \/ Peer

\* Callbacks return and every round of the loop polls, however often the
\* application pauses and resumes in between (hence strong fairness of Event); a
\* connection attempt ends, and the peer reads what it is sent.
Fairness == WF_vars(Loop) /\ SF_vars(Event) /\ WF_vars(Established \/ PeerReset) /\ WF_vars(PeerReads)

Spec == Init /\ [][Next]_vars

FairSpec == Spec /\ Fairness
-----------------------------------------------------------------------------
(* Properties.                                                              *)

Channel ==
  [frame : {"len", "raw"}, eof_cb : BOOLEAN,
   closed : BOOLEAN, read_closed : BOOLEAN, write_closed : BOOLEAN,
   connected : BOOLEAN, connect_pending : BOOLEAN, read_paused : BOOLEAN,
   close_after_flush : BOOLEAN, shutdown_write_after_flush : BOOLEAN,
   out : Seq(Nat), file : Seq(Nat), in : 0..MaxIn,
   fd : {"open", "closed", "released"}, reg : SUBSET {"R", "W"},
   wproc : {"connect", "write"}, ev : SUBSET {"R", "W", "E"},
   wire : Seq(Nat), room : 0..SndBuf, accepted : 0..MaxOut, got : 0..MaxIn, closes : Nat]

\* The types of the channel, the peer and the locals: no counter leaves its
\* bounds, whatever is sent, read, truncated and consumed.
TypeOK ==
  /\ ch \in Channel
  /\ net \in [avail : Nat, total : 0..MaxIn, fin : BOOLEAN, err : BOOLEAN, est : BOOLEAN]
  /\ pc \in {"idle", "process", "packet", "after", "connect", "eof"}
  /\ loc \in [from : {"read", "resume"}, over : BOOLEAN, n : BOOLEAN,
              tail : {"none", "eof", "error"}]

InOrder(c) ==
  /\ c.wire = Numbers(0, Len(c.wire))
  /\ ~c.closed => c.wire \o c.out \o c.file = Numbers(0, c.accepted)

\* What reaches the wire is what was accepted, in that order and without gaps,
\* however sends, partial writes, files and flushes are mixed.
StreamInOrder == InOrder(ch)

\* While the loop waits, pending output is watched by the right handler and by
\* nothing else (a writable socket without output would spin); an unpaused
\* channel listens, unless what process_input left behind exceeds in.max (the
\* one way to fall deaf, xchannel.c:883); a closed channel is not registered.
NoStall ==
  pc = "idle" /\ ch.ev = {} =>
    IF ch.closed THEN ch.reg = {} /\ ch.fd # "open"
    ELSE /\ HasPendingOutput(ch) <=> "W" \in ch.reg
         /\ "W" \in ch.reg => ch.wproc = WriteProc(ch)
         /\ ch.connected /\ ~ch.read_paused /\ ~ch.read_closed =>
              "R" \in ch.reg \/ (InMax > 0 /\ ch.in > InMax)

\* Closing is final and announced once: afterwards no callback begins and no
\* byte is sent, whatever the loop and the application had under way.
QuietAfterClose ==
  [][ch.closed => /\ ch'.closes = ch.closes /\ ch'.wire = ch.wire /\ ch'.closed
                  /\ pc' \in {"packet", "connect", "eof"} => pc' = pc]_vars

\* close_after_flush closes the channel and shutdown_write_after_flush ends its
\* sending side, from whatever state they were called in.
FlushThenClose ==
  /\ ch.close_after_flush ~> ch.closed
  /\ ch.shutdown_write_after_flush ~> ch.write_closed

\* xchannel.h on pause_read: "Only affects the read direction; the write side
\* (and its flush) keeps running while reads are paused": a paused channel on
\* an intact connection is not closed under its pending output.
PausedKeepsWriting ==
  [][~ch.closed /\ ch.read_paused /\ HasPendingOutput(ch) /\ ~net.err
       => ~ErrorEvent]_vars
-----------------------------------------------------------------------------
(* The inductive invariants behind them.                                    *)

\* A closed channel has no registration and nothing left to dispatch; an open
\* one is connected or connecting.
Settled(c) ==
  /\ c.closed => c.reg = {} /\ c.ev = {} /\ c.fd # "open"
  /\ ~c.closed => (c.connected <=> ~c.connect_pending)

\* What is buffered was read, and what was sent is read or still with the kernel.
InputInv == ch.in <= ch.got /\ ch.got + net.avail = net.total

IInv == TypeOK /\ StreamInOrder /\ Settled(ch) /\ InputInv

\* Writable interest means pending output and the handler that fits it.
Wanted(c) == "W" \in c.reg => HasPendingOutput(c) /\ c.wproc = WriteProc(c)

\* Pending output is watched.
Watched(c) == ~c.closed /\ HasPendingOutput(c) => "W" \in c.reg

\* Output queued from connect_cb waits for finish_connect to flush it.
WatchInv ==
  /\ Wanted(ch)
  /\ IF pc = "connect" THEN ch.connect_pending => ch.closed ELSE Watched(ch)

\* A writable event is dispatched to the registration that asked for it.
DispatchInv == "W" \in ch.ev => pc = "idle" /\ "W" \in ch.reg

\* The channel listens, or process_input and its caller will see to it, or
\* what they left behind exceeds in.max.
ListenInv ==
  ~ch.closed /\ ch.connected /\ ~ch.read_paused /\ ~ch.read_closed =>
    \/ "R" \in ch.reg
    \/ IF pc \in {"process", "packet", "after"} THEN loc.over \/ loc.from = "resume"
       ELSE InMax > 0 /\ ch.in > InMax

StallInv == IInv /\ WatchInv /\ DispatchInv /\ ListenInv
=============================================================================
