--------------------------- MODULE XChannelProofs ---------------------------
(***************************************************************************)
(* Proofs about the buffered connection of XChannel: one lemma per static  *)
(* function of xchannel.c on what it keeps of a channel, then one step per *)
(* operation, event and callback.                                          *)
(***************************************************************************)
EXTENDS XChannel, SequenceTheorems, TLAPS

-----------------------------------------------------------------------------
(* The order of the stream, byte by byte.                                   *)

ByIndex(c) ==
  /\ \A i \in 1..Len(c.wire) : c.wire[i] = i
  /\ ~c.closed =>
       /\ Len(c.wire) + Len(c.out) + Len(c.file) = c.accepted
       /\ \A i \in 1..Len(c.out) : c.out[i] = Len(c.wire) + i
       /\ \A i \in 1..Len(c.file) : c.file[i] = Len(c.wire) + Len(c.out) + i

Ok(c) == c \in Channel /\ ByIndex(c) /\ Settled(c)

LEMMA ConcatIndex ==
  ASSUME NEW s \in Seq(Nat), NEW t \in Seq(Nat)
  PROVE  /\ s \o t \in Seq(Nat)
         /\ Len(s \o t) = Len(s) + Len(t)
         /\ \A i \in 1..Len(s) : (s \o t)[i] = s[i]
         /\ \A i \in 1..Len(t) : (s \o t)[Len(s) + i] = t[i]
<1>1. /\ s \o t \in Seq(Nat)
      /\ Len(s \o t) = Len(s) + Len(t)
      /\ \A i \in 1..(Len(s) + Len(t)) : (s \o t)[i] = IF i <= Len(s) THEN s[i] ELSE t[i - Len(s)]
  BY ConcatProperties
<1>2. Len(s) \in Nat /\ Len(t) \in Nat
  BY LenProperties
<1> QED
  BY <1>1, <1>2

LEMMA NumbersIndex ==
  ASSUME NEW a \in Nat, NEW k \in Nat
  PROVE  /\ Numbers(a, k) \in Seq(Nat)
         /\ Len(Numbers(a, k)) = k
         /\ \A i \in 1..k : Numbers(a, k)[i] = a + i
<1>1. Numbers(a, k) \in [1..k -> Nat]
  BY DEF Numbers
<1>2. \A i \in 1..k : Numbers(a, k)[i] = a + i
  BY DEF Numbers
<1> QED
  BY <1>1, <1>2, LenProperties, SeqDef

LEMMA NumbersIs ==
  ASSUME NEW s \in Seq(Nat), NEW k \in Nat
  PROVE  s = Numbers(0, k) <=> Len(s) = k /\ \A i \in 1..k : s[i] = i
<1>1. /\ Numbers(0, k) \in Seq(Nat) /\ Len(Numbers(0, k)) = k
      /\ \A i \in 1..k : Numbers(0, k)[i] = 0 + i
  BY 0 \in Nat, NumbersIndex
<1>2. \A i \in 1..k : Numbers(0, k)[i] = i
  BY <1>1
<1>3. CASE s = Numbers(0, k)
  BY <1>1, <1>2, <1>3
<1>4. CASE Len(s) = k /\ \A i \in 1..k : s[i] = i
  BY <1>1, <1>2, <1>4, SeqEqual
<1> QED
  BY <1>3, <1>4

LEMMA SubSeqIndex ==
  ASSUME NEW s \in Seq(Nat), NEW m \in 1..(Len(s) + 1), NEW n \in (m - 1)..Len(s)
  PROVE  /\ SubSeq(s, m, n) \in Seq(Nat)
         /\ Len(SubSeq(s, m, n)) = n - m + 1
         /\ \A i \in 1..(n - m + 1) : SubSeq(s, m, n)[i] = s[m + i - 1]
  BY SubSeqProperties, LenProperties

\* What is left of a buffer when its first o bytes are gone.
LEMMA RestIndex ==
  ASSUME NEW s \in Seq(Nat), NEW o \in 0..Len(s)
  PROVE  /\ SubSeq(s, o + 1, Len(s)) \in Seq(Nat)
         /\ Len(SubSeq(s, o + 1, Len(s))) = Len(s) - o
         /\ \A i \in 1..(Len(s) - o) : SubSeq(s, o + 1, Len(s))[i] = s[o + i]
<1> DEFINE m == o + 1
           n == Len(s)
<1>1. n \in Nat /\ m \in 1..(n + 1) /\ n \in (m - 1)..n
  BY LenProperties
<1>2. n - m + 1 = n - o /\ \A i \in 1..(n - o) : m + i - 1 = o + i
  BY <1>1
<1> HIDE DEF m
<1>3. /\ SubSeq(s, m, n) \in Seq(Nat) /\ Len(SubSeq(s, m, n)) = n - m + 1
      /\ \A i \in 1..(n - m + 1) : SubSeq(s, m, n)[i] = s[m + i - 1]
  BY <1>1, SubSeqIndex
<1> QED
  BY <1>2, <1>3 DEF m

LEMMA ConcatIs ==
  ASSUME NEW s \in Seq(Nat), NEW t \in Seq(Nat), NEW k \in Nat
  PROVE  s \o t = Numbers(0, k) <=>
           /\ k = Len(s) + Len(t)
           /\ \A i \in 1..Len(s) : s[i] = i
           /\ \A i \in 1..Len(t) : t[i] = Len(s) + i
<1> DEFINE st == s \o t
           m == Len(s)
           n == Len(t)
<1>1. /\ st \in Seq(Nat) /\ Len(st) = m + n
      /\ \A i \in 1..m : st[i] = s[i]
      /\ \A i \in 1..n : st[m + i] = t[i]
  BY ConcatIndex
<1>2. m \in Nat /\ n \in Nat
  BY LenProperties
<1>3. st = Numbers(0, k) <=> Len(st) = k /\ \A i \in 1..k : st[i] = i
  BY <1>1, NumbersIs
<1> HIDE DEF st, m, n
<1>4. ASSUME k = m + n, \A i \in 1..k : st[i] = i
      PROVE  (\A i \in 1..m : s[i] = i) /\ (\A i \in 1..n : t[i] = m + i)
  <2>1. \A i \in 1..m : i \in 1..k
    BY <1>2, <1>4
  <2>2. \A i \in 1..n : m + i \in 1..k
    BY <1>2, <1>4
  <2> QED
    BY <1>1, <1>4, <2>1, <2>2
<1>5. ASSUME k = m + n, \A i \in 1..m : s[i] = i, \A i \in 1..n : t[i] = m + i, NEW i \in 1..k
      PROVE  st[i] = i
  <2>1. CASE i <= m
    BY <2>1, <1>1, <1>2, <1>5
  <2>2. CASE i > m
    <3>1. i - m \in 1..n /\ m + (i - m) = i
      BY <2>2, <1>2, <1>5
    <3> QED
      BY <3>1, <1>1, <1>5
  <2> QED
    BY <2>1, <2>2, <1>2
<1> QED
  BY <1>1, <1>3, <1>4, <1>5 DEF st, m, n

LEMMA IndexForm ==
  ASSUME NEW c \in Channel
  PROVE  InOrder(c) <=> ByIndex(c)
<1>1. /\ c.wire \in Seq(Nat) /\ c.out \in Seq(Nat) /\ c.file \in Seq(Nat) /\ c.accepted \in Nat
      /\ Len(c.wire) \in Nat /\ Len(c.out) \in Nat /\ Len(c.file) \in Nat
  BY LenProperties, ChannelAssumption DEF Channel
<1>2. c.wire = Numbers(0, Len(c.wire)) <=> \A i \in 1..Len(c.wire) : c.wire[i] = i
  BY <1>1, NumbersIs
<1> DEFINE wo == c.wire \o c.out
<1>3. wo \in Seq(Nat) /\ Len(wo) = Len(c.wire) + Len(c.out)
  BY <1>1, ConcatIndex
<1>4. Len(wo) \in Nat
  BY <1>3, LenProperties
<1>5. \A k \in Nat : c.wire \o c.out = Numbers(0, k) <=>
        /\ k = Len(c.wire) + Len(c.out)
        /\ \A i \in 1..Len(c.wire) : c.wire[i] = i
        /\ \A i \in 1..Len(c.out) : c.out[i] = Len(c.wire) + i
  BY <1>1, ConcatIs
<1>6. wo = Numbers(0, Len(wo)) <=> \A i \in 1..Len(wo) : wo[i] = i
  BY <1>3, <1>4, NumbersIs
<1>7. ASSUME NEW w \in Seq(Nat)
      PROVE  \A k \in Nat : w \o c.file = Numbers(0, k) <=>
               /\ k = Len(w) + Len(c.file)
               /\ \A i \in 1..Len(w) : w[i] = i
               /\ \A i \in 1..Len(c.file) : c.file[i] = Len(w) + i
  BY <1>1, ConcatIs
<1>8. wo \o c.file = Numbers(0, c.accepted) <=>
        /\ c.accepted = Len(wo) + Len(c.file)
        /\ \A i \in 1..Len(wo) : wo[i] = i
        /\ \A i \in 1..Len(c.file) : c.file[i] = Len(wo) + i
  <2> HIDE DEF wo
  <2> QED
    BY <1>1, <1>3, <1>7
<1>9. wo \o c.file = c.wire \o c.out \o c.file /\ wo = c.wire \o c.out
  OBVIOUS
<1> HIDE DEF wo
<1> QED
  BY <1>2, <1>3, <1>4, <1>5, <1>6, <1>8, <1>9 DEF InOrder, ByIndex
-----------------------------------------------------------------------------
(* What the static functions of xchannel.c keep.                            *)

\* From c to d nothing was read, no event was added, and the read direction is
\* as it was unless the channel is closed now.
Keeps(c, d) ==
  /\ d.in = c.in /\ d.got = c.got /\ d.ev \subseteq c.ev
  /\ \/ d.closed
     \/ /\ ~c.closed
        /\ d.connected = c.connected /\ d.connect_pending = c.connect_pending
        /\ d.read_paused = c.read_paused /\ d.read_closed = c.read_closed
        /\ "R" \in c.reg => "R" \in d.reg

\* c and d have the same output and the same flags that say how to watch it.
SameOutput(c, d) ==
  /\ d.closed = c.closed /\ d.connect_pending = c.connect_pending
  /\ d.out = c.out /\ d.file = c.file /\ d.wproc = c.wproc

LEMMA KeepsTransitive ==
  ASSUME NEW c, NEW d, NEW e, Keeps(c, d), Keeps(d, e), d.closed => e = d
  PROVE  Keeps(c, e)
  BY DEF Keeps

LEMMA DelEventFacts ==
  ASSUME NEW c, Ok(c), NEW m \in SUBSET {"R", "W"}
  PROVE  /\ Ok(DelEvent(c, m)) /\ SameOutput(c, DelEvent(c, m))
         /\ DelEvent(c, m).reg = c.reg \ m
         /\ DelEvent(c, m).ev \subseteq c.ev
         /\ "R" \notin m => Keeps(c, DelEvent(c, m))
<1> DEFINE d == DelEvent(c, m)
<1>1. /\ d \in Channel /\ d.reg = c.reg \ m /\ d.ev \subseteq c.ev
      /\ d.wire = c.wire /\ d.accepted = c.accepted /\ d.fd = c.fd
      /\ d.connected = c.connected /\ SameOutput(c, d)
  BY DEF Ok, DelEvent, Channel, SameOutput
<1>2. d.in = c.in /\ d.got = c.got /\ d.read_paused = c.read_paused /\ d.read_closed = c.read_closed
  BY DEF Ok, DelEvent, Channel
<1> HIDE DEF d
<1>3. Ok(d)
  BY <1>1 DEF Ok, ByIndex, Settled, SameOutput
<1>4. "R" \notin m => Keeps(c, d)
  BY <1>1, <1>2 DEF Keeps, SameOutput
<1> QED
  BY <1>1, <1>3, <1>4 DEF d

LEMMA CloseFacts ==
  ASSUME NEW c, Ok(c)
  PROVE  /\ Ok(CloseInternal(c)) /\ CloseInternal(c).closed
         /\ Keeps(c, CloseInternal(c))
         /\ c.closed => CloseInternal(c) = c
<1>1. CASE c.closed
  BY <1>1 DEF CloseInternal, Keeps
<1>2. CASE ~c.closed
  <2> DEFINE d == DelEvent(c, {"R", "W"})
  <2>1. /\ d \in Channel /\ d.wire = c.wire /\ d.reg = {} /\ d.ev = {} /\ d.closes \in Nat
        /\ d.in = c.in /\ d.got = c.got
    BY DEF Ok, DelEvent, Channel
  <2>2. CloseInternal(c) =
          [d EXCEPT !.closed = TRUE, !.connected = FALSE, !.connect_pending = FALSE,
                    !.read_closed = TRUE, !.write_closed = TRUE,
                    !.close_after_flush = FALSE, !.shutdown_write_after_flush = FALSE,
                    !.fd = "closed", !.file = <<>>, !.closes = @ + 1]
    BY <1>2 DEF CloseInternal
  <2> HIDE DEF d
  <2>3. CloseInternal(c) \in Channel
    <3>1. <<>> \in Seq(Nat)
      OBVIOUS
    <3> DEFINE e ==
          [d EXCEPT !.closed = TRUE, !.connected = FALSE, !.connect_pending = FALSE,
                    !.read_closed = TRUE, !.write_closed = TRUE,
                    !.close_after_flush = FALSE, !.shutdown_write_after_flush = FALSE,
                    !.fd = "closed", !.file = <<>>]
    <3>2. e \in Channel /\ e.closes = d.closes
      <4> DEFINE g == [d EXCEPT !.closed = TRUE, !.connected = FALSE, !.connect_pending = FALSE,
                                !.read_closed = TRUE, !.write_closed = TRUE]
      <4>1. g \in Channel /\ g.closes = d.closes
        BY <2>1 DEF Channel
      <4>2. e = [g EXCEPT !.close_after_flush = FALSE, !.shutdown_write_after_flush = FALSE,
                          !.fd = "closed", !.file = <<>>]
        BY <2>1 DEF Channel
      <4> HIDE DEF e, g
      <4> QED
        BY <3>1, <4>1, <4>2 DEF Channel
    <3>3. CloseInternal(c) = [e EXCEPT !.closes = d.closes + 1]
      BY <2>1, <2>2, <3>2 DEF Channel
    <3>4. d.closes + 1 \in Nat
      BY <2>1
    <3> HIDE DEF e
    <3>5. [e EXCEPT !.closes = d.closes + 1] \in Channel
      BY <3>2, <3>4 DEF Channel
    <3> QED
      BY <3>3, <3>5
  <2>4. /\ CloseInternal(c).wire = c.wire /\ CloseInternal(c).closed
        /\ CloseInternal(c).reg = {} /\ CloseInternal(c).ev = {} /\ CloseInternal(c).fd = "closed"
        /\ CloseInternal(c).in = c.in /\ CloseInternal(c).got = c.got
    BY <2>1, <2>2 DEF Channel
  <2> QED
    BY <1>2, <2>3, <2>4 DEF Ok, ByIndex, Settled, Keeps
<1> QED
  BY <1>1, <1>2

LEMMA ArmWritableFacts ==
  ASSUME NEW c, Ok(c), ~c.closed, NEW proc \in {"connect", "write"},
         NEW d \in ArmWritable(c, proc)
  PROVE  /\ Ok(d) /\ Keeps(c, d)
         /\ \/ d.closed
            \/ /\ d.out = c.out /\ d.file = c.file
               /\ d.reg = c.reg \cup {"W"} /\ d.wproc = proc
<1>1. CASE d = CloseInternal(c)
  BY <1>1, CloseFacts
<1>2. CASE d = [c EXCEPT !.reg = @ \cup {"W"}, !.wproc = proc]
  <2>1. /\ d \in Channel /\ d.reg = c.reg \cup {"W"} /\ d.wproc = proc
        /\ d.wire = c.wire /\ d.out = c.out /\ d.file = c.file /\ d.accepted = c.accepted
        /\ d.closed = c.closed /\ d.connected = c.connected /\ d.connect_pending = c.connect_pending
    BY <1>2 DEF Ok, Channel
  <2>2. /\ d.in = c.in /\ d.got = c.got /\ d.ev = c.ev
        /\ d.read_paused = c.read_paused /\ d.read_closed = c.read_closed
    BY <1>2 DEF Ok, Channel
  <2> QED
    BY <2>1, <2>2 DEF Ok, ByIndex, Settled, Keeps
<1> QED
  BY <1>1, <1>2 DEF ArmWritable

LEMMA FinishFacts ==
  ASSUME NEW c, Ok(c)
  PROVE  LET d == FinishDeferredClose(c)
         IN /\ Ok(d) /\ Keeps(c, d)
            /\ c.closed => d = c
            /\ \/ d.closed \/ d = c
               \/ SameOutput(c, d) /\ ~HasPendingOutput(d) /\ d.reg \subseteq c.reg
<1> DEFINE e == IF c.shutdown_write_after_flush THEN ShutdownWriteNow(c) ELSE c
<1>1. /\ Ok(e) /\ Keeps(c, e)
      /\ SameOutput(c, e) /\ e.reg \subseteq c.reg
  <2>1. CASE e = c
    BY <2>1 DEF Keeps, SameOutput
  <2>2. CASE e = [DelEvent(c, {"W"}) EXCEPT !.write_closed = TRUE, !.shutdown_write_after_flush = FALSE]
    <3> DEFINE b == DelEvent(c, {"W"})
    <3>1. Ok(b) /\ SameOutput(c, b) /\ b.reg \subseteq c.reg /\ Keeps(c, b)
      BY DelEventFacts
    <3> HIDE DEF b
    <3>2. e = [b EXCEPT !.write_closed = TRUE, !.shutdown_write_after_flush = FALSE]
      BY <2>2 DEF b
    <3> HIDE DEF e
    <3>3. /\ e \in Channel /\ SameOutput(b, e) /\ e.reg = b.reg /\ e.ev = b.ev
          /\ e.wire = b.wire /\ e.accepted = b.accepted /\ e.fd = b.fd
          /\ e.connected = b.connected
      <4>1. b \in Channel
        BY <3>1 DEF Ok
      <4>2. e \in Channel
        BY <3>2, <4>1 DEF Channel
      <4> QED
        BY <3>2, <4>1, <4>2 DEF Channel, SameOutput
    <3>4. /\ e.in = b.in /\ e.got = b.got
          /\ e.read_paused = b.read_paused /\ e.read_closed = b.read_closed
      BY <3>1, <3>2 DEF Ok, Channel
    <3>5. Ok(e)
      BY <3>1, <3>3 DEF Ok, ByIndex, Settled, SameOutput
    <3>6. Keeps(c, e) /\ SameOutput(c, e)
      BY <3>1, <3>3, <3>4 DEF Keeps, SameOutput
    <3> QED
      BY <3>1, <3>3, <3>5, <3>6
  <2> QED
    BY <2>1, <2>2 DEF ShutdownWriteNow
<1> HIDE DEF e
<1>2. CASE c.closed \/ HasPendingOutput(c)
  BY <1>2 DEF FinishDeferredClose, Keeps
<1>3. CASE ~c.closed /\ ~HasPendingOutput(c) /\ c.close_after_flush
  BY <1>3, CloseFacts DEF FinishDeferredClose
<1>4. CASE ~c.closed /\ ~HasPendingOutput(c) /\ ~c.close_after_flush
  <2>1. FinishDeferredClose(c) = IF e.read_closed /\ e.write_closed THEN CloseInternal(e) ELSE e
    BY <1>4 DEF FinishDeferredClose, e
  <2>2. ~e.closed /\ ~HasPendingOutput(e)
    BY <1>1, <1>4 DEF SameOutput, HasPendingOutput
  <2>3. CASE e.read_closed /\ e.write_closed
    <3>1. FinishDeferredClose(c) = CloseInternal(e)
      BY <2>1, <2>3
    <3>2. Ok(CloseInternal(e)) /\ CloseInternal(e).closed /\ Keeps(e, CloseInternal(e))
      BY <1>1, CloseFacts
    <3>3. Keeps(c, CloseInternal(e))
      BY <1>1, <2>2, <3>2 DEF Keeps
    <3> QED
      BY <1>4, <3>1, <3>2, <3>3
  <2>4. CASE ~(e.read_closed /\ e.write_closed)
    BY <1>1, <1>4, <2>1, <2>2, <2>4
  <2> QED
    BY <2>3, <2>4
<1> QED
  BY <1>2, <1>3, <1>4

LEMMA OkLengths ==
  ASSUME NEW c, Ok(c)
  PROVE  /\ c.wire \in Seq(Nat) /\ c.out \in Seq(Nat) /\ c.file \in Seq(Nat)
         /\ Len(c.wire) \in Nat /\ Len(c.out) \in Nat /\ Len(c.file) \in Nat
         /\ c.room \in 0..SndBuf /\ c.accepted \in 0..MaxOut
         /\ c.closed \in BOOLEAN /\ SndBuf \in Nat /\ MaxOut \in Nat
  BY LenProperties, ChannelAssumption DEF Ok, Channel

\* Whatever part the kernel takes, the stream stays in order.
LEMMA SentFacts ==
  ASSUME NEW c, Ok(c), ~c.closed,
         NEW k \in 0..Min2(Len(c.out \o c.file), c.room)
  PROVE  /\ Ok(Sent(c, k)) /\ Keeps(c, Sent(c, k))
         /\ Sent(c, k).closed = c.closed /\ Sent(c, k).connect_pending = c.connect_pending
         /\ Sent(c, k).reg = c.reg /\ Sent(c, k).wproc = c.wproc
<1> DEFINE d == Sent(c, k)
           all == c.out \o c.file
           L == Len(c.out)
           F == Len(c.file)
           W == Len(c.wire)
           o == Min2(k, L)
           p == SubSeq(all, 1, k)
<1>1. L \in Nat /\ F \in Nat /\ W \in Nat
  BY OkLengths
<1>2. /\ all \in Seq(Nat) /\ Len(all) = L + F
      /\ \A i \in 1..L : all[i] = c.out[i]
      /\ \A i \in 1..F : all[L + i] = c.file[i]
  <2>1. c.out \in Seq(Nat) /\ c.file \in Seq(Nat)
    BY OkLengths
  <2> QED
    BY <2>1, ConcatIndex
<1> HIDE DEF all, L, F, W, o
<1>3. k \in Nat /\ k <= L + F /\ k <= c.room /\ c.room \in Nat
  <2>1. k \in 0..Min2(Len(all), c.room)
    BY DEF all
  <2> QED
    BY <2>1, <1>1, <1>2, OkLengths DEF Min2
<1>4. o \in Nat /\ o <= k /\ o <= L /\ k - o <= F /\ (o = k \/ o = L)
  BY <1>1, <1>3 DEF Min2, o
<1>5. /\ p \in Seq(Nat) /\ Len(p) = k
      /\ \A i \in 1..k : p[i] = all[i]
  <2>1. 1 \in 1..(Len(all) + 1) /\ k \in (1 - 1)..Len(all) /\ k - 1 + 1 = k
    BY <1>1, <1>2, <1>3
  <2>2. /\ p \in Seq(Nat) /\ Len(p) = k - 1 + 1
        /\ \A i \in 1..(k - 1 + 1) : p[i] = all[1 + i - 1]
    BY <1>2, <2>1, SubSeqIndex
  <2> QED
    BY <2>1, <2>2
<1>6. /\ SubSeq(c.out, o + 1, L) \in Seq(Nat) /\ Len(SubSeq(c.out, o + 1, L)) = L - o
      /\ \A i \in 1..(L - o) : SubSeq(c.out, o + 1, L)[i] = c.out[o + i]
  <2>1. o \in 0..Len(c.out)
    BY <1>1, <1>4 DEF L
  <2> QED
    BY <2>1, OkLengths, RestIndex DEF L
<1>7. /\ SubSeq(c.file, k - o + 1, F) \in Seq(Nat) /\ Len(SubSeq(c.file, k - o + 1, F)) = F - (k - o)
      /\ \A i \in 1..(F - (k - o)) : SubSeq(c.file, k - o + 1, F)[i] = c.file[(k - o) + i]
  <2>1. k - o \in 0..Len(c.file)
    BY <1>1, <1>3, <1>4 DEF F
  <2> QED
    BY <2>1, OkLengths, RestIndex DEF F
<1>8. /\ c.wire \o p \in Seq(Nat) /\ Len(c.wire \o p) = W + k
      /\ \A i \in 1..W : (c.wire \o p)[i] = c.wire[i]
      /\ \A i \in 1..k : (c.wire \o p)[W + i] = p[i]
  <2>1. c.wire \in Seq(Nat) /\ p \in Seq(Nat) /\ Len(p) = k
    BY <1>5, OkLengths
  <2> HIDE DEF p
  <2> QED
    BY <2>1, ConcatIndex DEF W
<1> HIDE DEF p
<1>9. d = [c EXCEPT !.wire = c.wire \o p, !.room = c.room - k,
                    !.out = SubSeq(c.out, o + 1, L), !.file = SubSeq(c.file, k - o + 1, F)]
  BY DEF Sent, Ok, Channel, p, all, o, L, F
<1> HIDE DEF d
<1>10. c.room - k \in 0..SndBuf
  BY <1>3, OkLengths
<1>11. /\ d \in Channel /\ d.wire = c.wire \o p
       /\ d.out = SubSeq(c.out, o + 1, L) /\ d.file = SubSeq(c.file, k - o + 1, F)
       /\ d.closed = c.closed /\ d.accepted = c.accepted
       /\ d.reg = c.reg /\ d.ev = c.ev /\ d.fd = c.fd /\ d.wproc = c.wproc
       /\ d.connected = c.connected /\ d.connect_pending = c.connect_pending
  BY <1>6, <1>7, <1>8, <1>9, <1>10 DEF Ok, Channel
<1>12. /\ d.in = c.in /\ d.got = c.got
       /\ d.read_paused = c.read_paused /\ d.read_closed = c.read_closed
  BY <1>9 DEF Ok, Channel
<1>13. /\ \A i \in 1..W : c.wire[i] = i
       /\ W + L + F = c.accepted
       /\ \A i \in 1..L : c.out[i] = W + i
       /\ \A i \in 1..F : c.file[i] = W + L + i
  BY DEF Ok, ByIndex, W, L, F
<1>14. ByIndex(d)
  <2>1. ASSUME NEW i \in 1..(W + k)
        PROVE  d.wire[i] = i
    <3>1. CASE i <= W
      <4>1. i \in 1..W
        BY <3>1, <1>1, <1>3
      <4> QED
        BY <4>1, <1>8, <1>11, <1>13
    <3>2. CASE i > W /\ i - W <= L
      <4>1. i - W \in 1..k /\ i - W \in 1..L /\ W + (i - W) = i
        BY <3>2, <1>1, <1>3
      <4>2. d.wire[W + (i - W)] = p[i - W] /\ p[i - W] = all[i - W] /\ all[i - W] = c.out[i - W]
        BY <4>1, <1>2, <1>5, <1>8, <1>11
      <4> QED
        BY <4>1, <4>2, <1>13
    <3>3. CASE i > W /\ i - W > L
      <4>1. /\ i - W \in 1..k /\ i - W - L \in 1..F
            /\ W + (i - W) = i /\ L + (i - W - L) = i - W /\ W + L + (i - W - L) = i
        BY <3>3, <1>1, <1>3
      <4>2. d.wire[W + (i - W)] = p[i - W] /\ p[i - W] = all[i - W]
        BY <4>1, <1>5, <1>8, <1>11
      <4>3. all[L + (i - W - L)] = c.file[i - W - L] /\ c.file[i - W - L] = W + L + (i - W - L)
        BY <4>1, <1>2, <1>13
      <4> QED
        BY <4>1, <4>2, <4>3
    <3> QED
      BY <3>1, <3>2, <3>3, <1>1, <1>3
  <2>2. ASSUME NEW i \in 1..(L - o)
        PROVE  d.out[i] = (W + k) + i
    <3>1. o + i \in 1..L /\ o = k /\ W + (o + i) = (W + k) + i
      BY <1>1, <1>3, <1>4
    <3> QED
      BY <3>1, <1>6, <1>11, <1>13
  <2>3. ASSUME NEW i \in 1..(F - (k - o))
        PROVE  d.file[i] = (W + k) + (L - o) + i
    <3>1. (k - o) + i \in 1..F /\ W + L + ((k - o) + i) = (W + k) + (L - o) + i
      BY <1>1, <1>3, <1>4
    <3> QED
      BY <3>1, <1>7, <1>11, <1>13
  <2>4. (W + k) + (L - o) + (F - (k - o)) = d.accepted
    BY <1>1, <1>3, <1>4, <1>11, <1>13
  <2>5. Len(d.wire) = W + k /\ Len(d.out) = L - o /\ Len(d.file) = F - (k - o)
    BY <1>6, <1>7, <1>8, <1>11
  <2> QED
    BY <2>1, <2>2, <2>3, <2>4, <2>5 DEF ByIndex
<1>15. Ok(d) /\ Keeps(c, d)
  BY <1>11, <1>12, <1>14 DEF Ok, Settled, Keeps
<1> QED
  BY <1>11, <1>15 DEF d

LEMMA EmptyBuffer == <<>> \in Seq(Nat) /\ Len(<<>>) = 0
  OBVIOUS

LEMMA TruncatedFacts ==
  ASSUME NEW c, Ok(c), ~c.closed
  PROVE  LET d == Truncated(c)
         IN /\ Ok(d) /\ Keeps(c, d)
            /\ d.closed = c.closed /\ d.connect_pending = c.connect_pending
            /\ d.out = c.out /\ d.file = <<>>
<1> DEFINE d == Truncated(c)
           left == c.accepted - Len(c.file)
<1>1. d = [c EXCEPT !.file = <<>>, !.accepted = left]
  BY DEF Truncated, Ok, Channel
<1>0. /\ Len(c.wire) \in Nat /\ Len(c.out) \in Nat /\ Len(c.file) \in Nat
      /\ c.accepted \in Nat /\ c.accepted <= MaxOut /\ MaxOut \in Nat
  BY OkLengths
<1>2. Len(c.wire) + Len(c.out) = left /\ left \in Nat /\ left \in 0..MaxOut
  <2>1. Len(c.wire) + Len(c.out) + Len(c.file) = c.accepted
    BY DEF Ok, ByIndex
  <2> DEFINE w == Len(c.wire)
             o == Len(c.out)
             f == Len(c.file)
  <2> HIDE DEF w, o, f
  <2>2. w \in Nat /\ o \in Nat /\ f \in Nat /\ w + o + f = c.accepted
    BY <1>0, <2>1 DEF w, o, f
  <2>3. left = c.accepted - f
    BY DEF f
  <2> HIDE DEF left
  <2>4. w + o = left /\ left \in Nat /\ left \in 0..MaxOut
    BY <1>0, <2>2, <2>3
  <2> QED
    BY <2>4 DEF w, o
<1> HIDE DEF d, left
<1>3. /\ d \in Channel /\ d.file = <<>> /\ d.accepted = left
      /\ d.wire = c.wire /\ d.out = c.out /\ d.closed = c.closed
      /\ d.reg = c.reg /\ d.ev = c.ev /\ d.fd = c.fd
      /\ d.connected = c.connected /\ d.connect_pending = c.connect_pending
  BY <1>1, <1>2, EmptyBuffer DEF Ok, Channel
<1>4. /\ d.in = c.in /\ d.got = c.got
      /\ d.read_paused = c.read_paused /\ d.read_closed = c.read_closed
  BY <1>1 DEF Ok, Channel
<1>5. ByIndex(d)
  <2>1. /\ \A i \in 1..Len(c.wire) : c.wire[i] = i
        /\ \A i \in 1..Len(c.out) : c.out[i] = Len(c.wire) + i
    BY DEF Ok, ByIndex
  <2>2. Len(d.file) = 0 /\ Len(d.wire) + Len(d.out) + Len(d.file) = d.accepted
    <3>1. Len(d.file) = 0
      BY <1>3, EmptyBuffer
    <3>2. Len(d.wire) = Len(c.wire) /\ Len(d.out) = Len(c.out) /\ d.accepted = left
      BY <1>3
    <3>3. Len(c.wire) + Len(c.out) + 0 = left
      <4> DEFINE w == Len(c.wire)
                 o == Len(c.out)
      <4>1. w \in Nat /\ o \in Nat
        BY <1>0
      <4>2. w + o = left
        BY <1>2
      <4> HIDE DEF left, w, o
      <4>3. w + o + 0 = left
        BY <4>1, <4>2
      <4> QED
        BY <4>3 DEF w, o
    <3> QED
      BY <3>1, <3>2, <3>3
  <2>3. \A i \in 1..Len(d.file) : d.file[i] = Len(d.wire) + Len(d.out) + i
    BY <2>2
  <2> QED
    BY <1>3, <2>1, <2>2, <2>3 DEF ByIndex
<1>6. Ok(d) /\ Keeps(c, d)
  BY <1>3, <1>4, <1>5 DEF Ok, Settled, Keeps
<1> QED
  BY <1>3, <1>6 DEF d

\* Withdrawing the writable interest of a channel without pending output and
\* then finishing a deferred close.
LEMMA DoneFacts ==
  ASSUME NEW c, Ok(c), ~HasPendingOutput(c)
  PROVE  LET d == FinishDeferredClose(DelEvent(c, {"W"}))
         IN Ok(d) /\ Keeps(c, d) /\ (d.closed \/ (~HasPendingOutput(d) /\ "W" \notin d.reg))
<1> DEFINE b == DelEvent(c, {"W"})
           d == FinishDeferredClose(b)
<1>1. Ok(b) /\ Keeps(c, b) /\ SameOutput(c, b) /\ "W" \notin b.reg
  BY DelEventFacts
<1>2. ~HasPendingOutput(b)
  BY <1>1 DEF SameOutput, HasPendingOutput
<1> HIDE DEF b
<1>3. /\ Ok(d) /\ Keeps(b, d)
      /\ b.closed => d = b
      /\ \/ d.closed \/ d = b
         \/ SameOutput(b, d) /\ ~HasPendingOutput(d) /\ d.reg \subseteq b.reg
  BY <1>1, FinishFacts
<1> HIDE DEF d
<1>4. Keeps(c, d)
  BY <1>1, <1>3 DEF Keeps
<1> QED
  BY <1>1, <1>2, <1>3, <1>4 DEF d, b

\* flush_output leaves output behind only where it was watched, or withdraws the
\* writable interest.
LEMMA FlushFacts ==
  ASSUME NEW c, Ok(c), NEW d \in FlushOutput(c)
  PROVE  /\ Ok(d) /\ Keeps(c, d)
         /\ c.closed => d = c
         /\ \/ d.closed
            \/ d = c /\ c.connect_pending
            \/ /\ HasPendingOutput(d) /\ ~d.connect_pending
               /\ d.reg = c.reg /\ d.wproc = c.wproc
            \/ ~HasPendingOutput(d) /\ "W" \notin d.reg
<1> DEFINE all == c.out \o c.file
           k == Min2(Len(all), c.room)
           s == Sent(c, k)
<1>1. CASE c.closed \/ c.connect_pending
  BY <1>1 DEF FlushOutput, Keeps
<1>2. CASE ~c.closed /\ ~c.connect_pending
  <2>1. \/ d = CloseInternal(c)
        \/ d = s /\ HasPendingOutput(s)
        \/ d = FinishDeferredClose(DelEvent(s, {"W"})) /\ ~HasPendingOutput(s)
        \/ d = FinishDeferredClose(DelEvent(Truncated(s), {"W"})) /\ s.out = <<>>
    <3> HIDE DEF s, k, all
    <3> QED
      BY <1>2 DEF FlushOutput, s, k, all
  <2>2. k \in 0..Min2(Len(all), c.room)
    <3>1. Len(all) \in Nat /\ c.room \in Nat
      <4>1. c.out \in Seq(Nat) /\ c.file \in Seq(Nat) /\ c.room \in Nat
        BY OkLengths
      <4>2. all \in Seq(Nat)
        BY <4>1, ConcatIndex
      <4> QED
        BY <4>1, <4>2, LenProperties
    <3> HIDE DEF all
    <3> QED
      BY <3>1 DEF Min2
  <2>3. /\ Ok(s) /\ Keeps(c, s)
        /\ s.closed = c.closed /\ s.connect_pending = c.connect_pending
        /\ s.reg = c.reg /\ s.wproc = c.wproc
    <3> HIDE DEF k
    <3> QED
      BY <1>2, <2>2, SentFacts
  <2> HIDE DEF s
  <2>4. CASE d = CloseInternal(c)
    BY <1>2, <2>4, CloseFacts
  <2>5. CASE d = s /\ HasPendingOutput(s)
    BY <1>2, <2>3, <2>5
  <2>6. CASE d = FinishDeferredClose(DelEvent(s, {"W"})) /\ ~HasPendingOutput(s)
    <3>1. Ok(d) /\ Keeps(s, d) /\ (d.closed \/ (~HasPendingOutput(d) /\ "W" \notin d.reg))
      BY <2>3, <2>6, DoneFacts
    <3>2. Keeps(c, d)
      BY <1>2, <2>3, <3>1 DEF Keeps
    <3> QED
      BY <1>2, <3>1, <3>2
  <2>7. CASE d = FinishDeferredClose(DelEvent(Truncated(s), {"W"})) /\ s.out = <<>>
    <3> DEFINE t == Truncated(s)
    <3>1. /\ Ok(t) /\ Keeps(s, t)
          /\ t.closed = s.closed /\ t.connect_pending = s.connect_pending
          /\ t.out = s.out /\ t.file = <<>>
      BY <1>2, <2>3, TruncatedFacts
    <3> HIDE DEF t
    <3>2. ~HasPendingOutput(t)
      BY <1>2, <2>3, <2>7, <3>1 DEF HasPendingOutput
    <3>3. Ok(d) /\ Keeps(t, d) /\ (d.closed \/ (~HasPendingOutput(d) /\ "W" \notin d.reg))
      BY <2>7, <3>1, <3>2, DoneFacts DEF t
    <3>4. Keeps(c, d)
      BY <1>2, <2>3, <3>1, <3>3 DEF Keeps
    <3> QED
      BY <1>2, <3>3, <3>4
  <2> QED
    BY <2>1, <2>4, <2>5, <2>6, <2>7
<1> QED
  BY <1>1, <1>2

\* flush_output followed by arm_writable for what is left.
FlushAndArm(c, proc) == UNION {ArmIfPending(b, proc) : b \in FlushOutput(c)}

LEMMA FlushAndArmFacts ==
  ASSUME NEW c, Ok(c), NEW proc \in {"connect", "write"}, NEW d \in FlushAndArm(c, proc)
  PROVE  /\ Ok(d) /\ Keeps(c, d)
         /\ c.closed => d = c
         /\ proc = WriteProc(c) => Wanted(d) /\ Watched(d)
<1>1. PICK b \in FlushOutput(c) : d \in ArmIfPending(b, proc)
  BY DEF FlushAndArm
<1>2. /\ Ok(b) /\ Keeps(c, b)
      /\ c.closed => b = c
      /\ \/ b.closed
         \/ b = c /\ c.connect_pending
         \/ /\ HasPendingOutput(b) /\ ~b.connect_pending
            /\ b.reg = c.reg /\ b.wproc = c.wproc
         \/ ~HasPendingOutput(b) /\ "W" \notin b.reg
  BY FlushFacts
<1>3. CASE b.closed
  <2>1. d = b
    BY <1>1, <1>3 DEF ArmIfPending
  <2> QED
    BY <1>2, <1>3, <2>1 DEF Wanted, Watched, Ok, Settled
<1>4. CASE ~b.closed /\ ~HasPendingOutput(b)
  <2>1. d = b
    BY <1>1, <1>4 DEF ArmIfPending
  <2>2. "W" \notin b.reg
    BY <1>2, <1>4 DEF HasPendingOutput
  <2> QED
    BY <1>2, <1>4, <2>1, <2>2 DEF Wanted, Watched
<1>5. CASE ~b.closed /\ HasPendingOutput(b)
  <2>1. /\ Ok(d) /\ Keeps(b, d)
        /\ \/ d.closed
           \/ /\ d.out = b.out /\ d.file = b.file
              /\ d.reg = b.reg \cup {"W"} /\ d.wproc = proc
    BY <1>1, <1>2, <1>5, ArmWritableFacts DEF ArmIfPending
  <2>2. Keeps(c, d) /\ ~c.closed /\ b.connect_pending = c.connect_pending
    BY <1>2, <1>5, <2>1 DEF Keeps
  <2>3. CASE d.closed
    BY <2>1, <2>2, <2>3 DEF Wanted, Watched, Ok, Settled
  <2>4. CASE ~d.closed
    <3>1. d.connect_pending = b.connect_pending
      BY <2>1, <2>4 DEF Keeps
    <3>2. HasPendingOutput(d) /\ WriteProc(d) = WriteProc(c)
      BY <1>5, <2>1, <2>2, <2>4, <3>1 DEF HasPendingOutput, WriteProc
    <3> QED
      BY <2>1, <2>2, <2>4, <3>2 DEF Wanted, Watched
  <2> QED
    BY <2>3, <2>4
<1> QED
  BY <1>3, <1>4, <1>5

\* New bytes go behind what is queued: h of them to out, k of them to the file.
LEMMA QueuedOrder ==
  ASSUME NEW c, Ok(c), ~c.closed, c.file = <<>>,
         NEW h \in Nat, NEW k \in Nat, NEW q,
         q.wire = c.wire, q.out = c.out \o Numbers(c.accepted, h),
         Len(q.file) = k, \A i \in 1..k : q.file[i] = c.accepted + h + i,
         q.accepted = c.accepted + h + k
  PROVE  ByIndex(q)
<1> DEFINE new == Numbers(c.accepted, h)
           W == Len(c.wire)
           L == Len(c.out)
           a == c.accepted
<1>1. W \in Nat /\ L \in Nat /\ a \in Nat /\ Len(c.file) = 0
  BY OkLengths, EmptyBuffer
<1>2. /\ new \in Seq(Nat) /\ Len(new) = h
      /\ \A i \in 1..h : new[i] = a + i
  BY <1>1, NumbersIndex
<1>3. /\ \A i \in 1..W : c.wire[i] = i
      /\ W + L + Len(c.file) = a
      /\ \A i \in 1..L : c.out[i] = W + i
  BY DEF Ok, ByIndex
<1>4. c.out \in Seq(Nat)
  BY OkLengths
<1>5. /\ Len(q.out) = L + h
      /\ \A i \in 1..L : q.out[i] = c.out[i]
      /\ \A i \in 1..h : q.out[L + i] = new[i]
  <2>1. q.out = c.out \o new
    OBVIOUS
  <2> HIDE DEF new
  <2>2. /\ Len(c.out \o new) = Len(c.out) + Len(new)
        /\ \A i \in 1..Len(c.out) : (c.out \o new)[i] = c.out[i]
        /\ \A i \in 1..Len(new) : (c.out \o new)[Len(c.out) + i] = new[i]
    BY <1>2, <1>4, ConcatIndex
  <2>3. Len(q.out) = Len(c.out) + h
    BY <1>2, <2>1, <2>2
  <2>4. \A i \in 1..Len(c.out) : q.out[i] = c.out[i]
    BY <2>1, <2>2
  <2>5. \A i \in 1..h : q.out[Len(c.out) + i] = new[i]
    BY <1>2, <2>1, <2>2
  <2> QED
    BY <2>3, <2>4, <2>5
<1> HIDE DEF new, W, L, a
<1>6. W + L = a
  BY <1>1, <1>3
<1>7. ASSUME NEW i \in 1..(L + h)
      PROVE  q.out[i] = W + i
  <2>1. CASE i <= L
    <3>1. i \in 1..L
      BY <2>1, <1>1
    <3> QED
      BY <3>1, <1>3, <1>5
  <2>2. CASE i > L
    <3>1. i - L \in 1..h /\ L + (i - L) = i /\ a + (i - L) = W + i
      BY <2>2, <1>1, <1>6
    <3> QED
      <4>1. q.out[L + (i - L)] = new[i - L] /\ new[i - L] = a + (i - L)
        BY <3>1, <1>2, <1>5
      <4> QED
        BY <3>1, <4>1
  <2>3. i <= L \/ i > L
    BY <1>1
  <2> QED
    BY <2>1, <2>2, <2>3
<1>8. W + (L + h) + k = a + h + k /\ \A i \in 1..k : W + (L + h) + i = a + h + i
  BY <1>1, <1>6
<1>9. /\ q.wire = c.wire /\ Len(q.wire) = W
      /\ Len(q.file) = k /\ q.accepted = a + h + k
      /\ \A i \in 1..k : q.file[i] = a + h + i
  BY DEF W, a
<1> QED
  BY <1>3, <1>5, <1>7, <1>8, <1>9 DEF ByIndex

\* The same when nothing goes to a file.
LEMMA AppendedOrder ==
  ASSUME NEW c, Ok(c), ~c.closed, c.file = <<>>, NEW k \in Nat, NEW q,
         q.wire = c.wire, q.out = c.out \o Numbers(c.accepted, k),
         q.file = <<>>, q.accepted = c.accepted + k
  PROVE  ByIndex(q)
<1>1. PICK z \in Nat : z = 0
  OBVIOUS
<1>2. c.accepted \in Nat
  BY OkLengths
<1>3. q.accepted = c.accepted + k + z
  BY <1>1, <1>2
<1>4. Len(q.file) = z
  BY <1>1, EmptyBuffer
<1>5. \A i \in 1..z : q.file[i] = c.accepted + k + i
  BY <1>1
<1> QED
  BY <1>3, <1>4, <1>5, QueuedOrder

LEMMA QueueOrSendFacts ==
  ASSUME NEW c, Ok(c), ~c.closed, c.file = <<>>,
         NEW k \in Nat \ {0}, c.accepted + k <= MaxOut,
         NEW d \in QueueOrSend(c, k)
  PROVE  /\ Ok(d) /\ Keeps(c, d)
         /\ Wanted(c) => Wanted(d)
         /\ Watched(c) => Watched(d)
<1> DEFINE new == Numbers(c.accepted, k)
           a == [c EXCEPT !.accepted = @ + k]
           q == [a EXCEPT !.out = @ \o new]
           s(j) == [a EXCEPT !.wire = @ \o SubSeq(new, 1, j), !.room = @ - j,
                             !.out = SubSeq(new, j + 1, k)]
<1>1. CASE d = CloseInternal(c)
  BY <1>1, CloseFacts DEF Wanted, Watched, Ok, Settled
<1>2. CASE /\ c.connect_pending \/ c.out # <<>> \/ ~c.connected
           /\ d \in (IF c.out = <<>> THEN ArmWritable(q, WriteProc(c)) ELSE {q})
  <2>1. /\ c.accepted \in Nat /\ c.accepted + k \in 0..MaxOut /\ c.accepted + 0 = c.accepted
        /\ MaxOut \in Nat /\ c.accepted + k + 0 = c.accepted + k /\ c.out \in Seq(Nat)
    BY OkLengths
  <2>2. new \in Seq(Nat) /\ Len(new) = k
    BY <2>1, NumbersIndex
  <2> HIDE DEF new
  <2>3. c.out \o new \in Seq(Nat) /\ Len(c.out \o new) = Len(c.out) + k
    BY <2>1, <2>2, ConcatIndex
  <2>4. q = [c EXCEPT !.accepted = c.accepted + k, !.out = c.out \o new]
    BY DEF Ok, Channel
  <2> HIDE DEF q, a
  <2>5. /\ q \in Channel /\ q.wire = c.wire /\ q.out = c.out \o new /\ q.file = <<>>
        /\ q.accepted = c.accepted + k
        /\ q.closed = c.closed /\ q.connected = c.connected /\ q.connect_pending = c.connect_pending
        /\ q.reg = c.reg /\ q.wproc = c.wproc /\ q.ev = c.ev /\ q.fd = c.fd
    BY <2>1, <2>3, <2>4 DEF Ok, Channel
  <2>6. /\ q.in = c.in /\ q.got = c.got
        /\ q.read_paused = c.read_paused /\ q.read_closed = c.read_closed
    BY <2>4 DEF Ok, Channel
  <2>7. ByIndex(q)
    <3>1. q.wire = c.wire /\ q.out = c.out \o Numbers(c.accepted, k)
          /\ q.file = <<>> /\ q.accepted = c.accepted + k
      BY <2>1, <2>5 DEF new
    <3> QED
      BY <3>1, AppendedOrder
  <2>8. Ok(q) /\ Keeps(c, q)
    BY <2>5, <2>6, <2>7 DEF Ok, Settled, Keeps
  <2>9. q.out # <<>>
    <3>1. Len(c.out) + k > 0
      BY OkLengths
    <3> QED
      BY <2>3, <2>5, <3>1, EmptyBuffer
  <2>10. HasPendingOutput(q) /\ WriteProc(q) = WriteProc(c)
    BY <2>5, <2>9 DEF HasPendingOutput, WriteProc
  <2>11. CASE c.out # <<>>
    <3>1. d = q
      BY <1>2, <2>11
    <3> QED
      BY <2>5, <2>8, <2>10, <2>11, <3>1 DEF Wanted, Watched, HasPendingOutput
  <2>12. CASE c.out = <<>>
    <3>1. WriteProc(c) \in {"connect", "write"} /\ d \in ArmWritable(q, WriteProc(c)) /\ ~q.closed
      BY <1>2, <2>5, <2>12 DEF WriteProc
    <3>2. /\ Ok(d) /\ Keeps(q, d)
          /\ \/ d.closed
             \/ /\ d.out = q.out /\ d.file = q.file
                /\ d.reg = q.reg \cup {"W"} /\ d.wproc = WriteProc(c)
      BY <2>8, <3>1, ArmWritableFacts
    <3>3. Keeps(c, d) /\ (d.closed \/ d.connect_pending = c.connect_pending)
      BY <2>5, <2>8, <3>1, <3>2 DEF Keeps
    <3> QED
      BY <2>9, <3>2, <3>3 DEF Wanted, Watched, Ok, Settled, HasPendingOutput, WriteProc
  <2> QED
    BY <2>11, <2>12
<1>3. ASSUME ~(c.connect_pending \/ c.out # <<>> \/ ~c.connected),
             NEW j \in 0..Min2(k, c.room),
             d \in (IF j = k THEN {s(j)} ELSE ArmWritable(s(j), "write"))
      PROVE  /\ Ok(d) /\ Keeps(c, d)
             /\ Wanted(c) => Wanted(d)
             /\ Watched(c) => Watched(d)
  <2> DEFINE e == s(j)
             p == SubSeq(new, 1, j)
             r == SubSeq(new, j + 1, k)
             W == Len(c.wire)
             n == c.accepted
  <2>1. /\ n \in Nat /\ n + k \in 0..MaxOut /\ W \in Nat /\ MaxOut \in Nat
        /\ c.wire \in Seq(Nat) /\ c.room \in 0..SndBuf /\ SndBuf \in Nat
        /\ Len(c.file) = 0 /\ Len(c.out) = 0
    BY <1>3, OkLengths, EmptyBuffer
  <2>2. /\ j \in Nat /\ j <= k /\ c.room - j \in 0..SndBuf
    BY <2>1 DEF Min2
  <2>3. /\ \A i \in 1..W : c.wire[i] = i
        /\ W = n
    BY <2>1, <1>3 DEF Ok, ByIndex
  <2>4. /\ new \in Seq(Nat) /\ Len(new) = k
        /\ \A i \in 1..k : new[i] = n + i
    BY <2>1, NumbersIndex
  <2> HIDE DEF new
  <2>5. /\ p \in Seq(Nat) /\ Len(p) = j
        /\ \A i \in 1..j : p[i] = new[i]
    <3>1. 1 \in 1..(Len(new) + 1) /\ j \in (1 - 1)..Len(new) /\ j - 1 + 1 = j
      BY <2>2, <2>4
    <3>2. /\ p \in Seq(Nat) /\ Len(p) = j - 1 + 1
          /\ \A i \in 1..(j - 1 + 1) : p[i] = new[1 + i - 1]
      BY <2>4, <3>1, SubSeqIndex
    <3> QED
      BY <3>1, <3>2
  <2>6. /\ r \in Seq(Nat) /\ Len(r) = k - j
        /\ \A i \in 1..(k - j) : r[i] = new[j + i]
    <3>1. j \in 0..Len(new)
      BY <2>2, <2>4
    <3> QED
      BY <2>4, <3>1, RestIndex
  <2> HIDE DEF p, r
  <2>7. /\ c.wire \o p \in Seq(Nat) /\ Len(c.wire \o p) = W + j
        /\ \A i \in 1..W : (c.wire \o p)[i] = c.wire[i]
        /\ \A i \in 1..j : (c.wire \o p)[W + i] = p[i]
    BY <2>1, <2>5, ConcatIndex
  <2>8. e = [c EXCEPT !.accepted = n + k, !.wire = c.wire \o p, !.room = c.room - j, !.out = r]
    BY DEF Ok, Channel, p, r
  <2> HIDE DEF e, W, n, a, q, s
  <2>9. /\ e \in Channel /\ e.wire = c.wire \o p /\ e.out = r /\ e.file = c.file
        /\ e.accepted = n + k
        /\ e.closed = c.closed /\ e.connected = c.connected /\ e.connect_pending = c.connect_pending
        /\ e.reg = c.reg /\ e.wproc = c.wproc /\ e.ev = c.ev /\ e.fd = c.fd
    BY <2>1, <2>2, <2>6, <2>7, <2>8 DEF Ok, Channel
  <2>10. /\ e.in = c.in /\ e.got = c.got
         /\ e.read_paused = c.read_paused /\ e.read_closed = c.read_closed
    BY <2>8 DEF Ok, Channel
  <2>11. ByIndex(e)
    <3>1. ASSUME NEW i \in 1..(W + j)
          PROVE  e.wire[i] = i
      <4>1. CASE i <= W
        <5>1. i \in 1..W
          BY <4>1, <2>1, <2>2
        <5> QED
          BY <5>1, <2>3, <2>7, <2>9
      <4>2. CASE i > W
        <5>1. i - W \in 1..j /\ i - W \in 1..k /\ W + (i - W) = i /\ n + (i - W) = i
          BY <4>2, <2>1, <2>2, <2>3
        <5>2. e.wire[W + (i - W)] = p[i - W] /\ p[i - W] = new[i - W] /\ new[i - W] = n + (i - W)
          BY <5>1, <2>4, <2>5, <2>7, <2>9
        <5> QED
          BY <5>1, <5>2
      <4> QED
        BY <4>1, <4>2, <2>1, <2>2
    <3>2. ASSUME NEW i \in 1..(k - j)
          PROVE  e.out[i] = (W + j) + i
      <4>1. j + i \in 1..k /\ n + (j + i) = (W + j) + i
        BY <2>1, <2>2, <2>3
      <4> QED
        BY <4>1, <2>4, <2>6, <2>9
    <3>3. Len(e.wire) = W + j /\ Len(e.out) = k - j /\ Len(e.file) = 0
      BY <2>1, <2>6, <2>7, <2>9
    <3>4. (W + j) + (k - j) + 0 = e.accepted
      BY <2>1, <2>2, <2>3, <2>9
    <3>5. \A i \in 1..Len(e.file) : e.file[i] = Len(e.wire) + Len(e.out) + i
      BY <3>3
    <3> QED
      BY <3>1, <3>2, <3>3, <3>4, <3>5 DEF ByIndex
  <2>12. Ok(e) /\ Keeps(c, e)
    BY <2>9, <2>10, <2>11 DEF Ok, Settled, Keeps
  <2>13. CASE j = k
    <3>1. d = e
      BY <1>3, <2>13 DEF e
    <3>2. e.out = <<>>
      BY <2>6, <2>9, <2>13, EmptyBuffer, SeqEqual
    <3>3. ~HasPendingOutput(c) /\ ~HasPendingOutput(e)
      BY <1>3, <2>9, <3>2 DEF HasPendingOutput
    <3> QED
      BY <2>9, <2>12, <3>1, <3>3 DEF Wanted, Watched
  <2>14. CASE j # k
    <3>1. d \in ArmWritable(e, "write") /\ ~e.closed
      BY <1>3, <2>9, <2>14 DEF e
    <3>2. /\ Ok(d) /\ Keeps(e, d)
          /\ \/ d.closed
             \/ /\ d.out = e.out /\ d.file = e.file
                /\ d.reg = e.reg \cup {"W"} /\ d.wproc = "write"
      BY <2>12, <3>1, ArmWritableFacts
    <3>3. e.out # <<>>
      <4>1. k - j # 0
        BY <2>2, <2>14
      <4> QED
        BY <2>6, <2>9, <4>1, EmptyBuffer
    <3>4. Keeps(c, d) /\ (d.closed \/ d.connect_pending = c.connect_pending)
      BY <2>9, <2>12, <3>1, <3>2 DEF Keeps
    <3> QED
      BY <1>3, <3>2, <3>3, <3>4 DEF Wanted, Watched, Ok, Settled, HasPendingOutput, WriteProc
  <2> QED
    BY <2>13, <2>14
<1> HIDE DEF new, a, q, s
<1> QED
  BY <1>1, <1>2, <1>3 DEF QueueOrSend, new, a, q, s
-----------------------------------------------------------------------------
(* The invariants as the steps use them.                                    *)

Others ==
  /\ net \in [avail : Nat, total : 0..MaxIn, fin : BOOLEAN, err : BOOLEAN, est : BOOLEAN]
  /\ pc \in {"idle", "process", "packet", "after", "connect", "eof"}
  /\ loc \in [from : {"read", "resume"}, over : BOOLEAN, n : BOOLEAN,
              tail : {"none", "eof", "error"}]

LEMMA Unfold ==
  /\ IInv <=> Ok(ch) /\ Others /\ InputInv
  /\ IInv' <=> Ok(ch') /\ Others' /\ InputInv'
<1>1. ASSUME NEW c \in Channel
      PROVE  InOrder(c) <=> ByIndex(c)
  BY IndexForm
<1>2. IInv <=> Ok(ch) /\ Others /\ InputInv
  BY <1>1 DEF IInv, TypeOK, StreamInOrder, Ok, Others
<1>3. IInv' <=> Ok(ch') /\ Others' /\ InputInv'
  BY <1>1 DEF IInv, TypeOK, StreamInOrder, Ok, Others
<1> QED
  BY <1>2, <1>3

\* What every step has to show: the order of the stream for every application,
\* the interest in events for one that sends no file before it is connected.
Keep == IInv' /\ (~EarlyFile /\ StallInv => StallInv')

\* What a call of the application makes of the channel.
Result(c, d) ==
  /\ Ok(d) /\ d.in = c.in /\ d.got = c.got /\ d.ev \subseteq c.ev
  /\ ~EarlyFile => (Wanted(c) => Wanted(d)) /\ (Watched(c) => Watched(d))
  /\ \/ d.closed
     \/ /\ ~c.closed /\ d.connected = c.connected /\ d.connect_pending = c.connect_pending
        /\ d.read_closed = c.read_closed
        /\ d.read_paused \/ (~c.read_paused /\ ("R" \in c.reg => "R" \in d.reg))

LEMMA KeepsResult ==
  ASSUME NEW c, NEW d, Ok(d), Keeps(c, d), Ok(c),
         ~EarlyFile => (Wanted(c) => Wanted(d)) /\ (Watched(c) => Watched(d))
  PROVE  Result(c, d)
<1>1. d.read_paused \in BOOLEAN /\ c.read_paused \in BOOLEAN
  BY DEF Ok, Channel
<1> QED
  BY <1>1 DEF Keeps, Result

LEMMA ClosedResult ==
  ASSUME NEW c, NEW d, Ok(d), d.closed, d.in = c.in, d.got = c.got
  PROVE  Result(c, d) /\ Wanted(d) /\ Watched(d)
<1>1. d.ev = {} /\ d.reg = {}
  BY DEF Ok, Settled
<1> QED
  BY <1>1 DEF Result, Wanted, Watched

LEMMA CallKeeps ==
  ASSUME IInv, AppRuns, Result(ch, ch'), UNCHANGED <<net, pc, loc>>
  PROVE  Keep
<1>1. IInv'
  <2>1. Ok(ch') /\ Others' /\ InputInv'
    BY Unfold DEF Result, Others, InputInv
  <2> QED
    BY <2>1, Unfold
<1>2. ASSUME ~EarlyFile, StallInv
      PROVE  StallInv'
  <2>1. "W" \notin ch.ev
    BY <1>2 DEF AppRuns, InCallback, StallInv, DispatchInv
  <2>2. DispatchInv'
    BY <2>1 DEF Result, DispatchInv
  <2>3. WatchInv'
    BY <1>2 DEF StallInv, WatchInv, Result
  <2>4. ListenInv'
    BY <1>2 DEF StallInv, ListenInv, Result
  <2> QED
    BY <1>1, <2>2, <2>3, <2>4 DEF StallInv
<1> QED
  BY <1>1, <1>2 DEF Keep
LEMMA ClosedStall ==
  ASSUME IInv', ch'.closed
  PROVE  Keep
<1>1. ch'.reg = {} /\ ch'.ev = {}
  BY DEF IInv, Settled
<1> QED
  BY <1>1 DEF Keep, StallInv, WatchInv, Wanted, Watched, DispatchInv, ListenInv
-----------------------------------------------------------------------------
(* The application.                                                         *)

LEMMA SendStep == IInv /\ Send => Keep
<1> SUFFICES ASSUME IInv, NEW k \in 1..(MaxOut - ch.accepted), CanSend(ch), Call(QueueOrSend(ch, k))
             PROVE  Keep
  BY DEF Send
<1>1. Ok(ch)
  BY Unfold
<1>2. k \in Nat \ {0} /\ ch.accepted + k <= MaxOut
  BY <1>1, OkLengths
<1>3. ~ch.closed /\ ch.file = <<>> /\ ch' \in QueueOrSend(ch, k)
  BY DEF CanSend, Call
<1>4. /\ Ok(ch') /\ Keeps(ch, ch')
      /\ Wanted(ch) => Wanted(ch')
      /\ Watched(ch) => Watched(ch')
  BY <1>1, <1>2, <1>3, QueueOrSendFacts
<1> QED
  BY <1>1, <1>4, KeepsResult, CallKeeps DEF Call

LEMMA SendFileStep == IInv /\ SendFile => Keep
<1> DEFINE q(h, k) == [ch EXCEPT !.out = @ \o Numbers(ch.accepted, h),
                                 !.file = Numbers(ch.accepted + h, k), !.accepted = @ + h + k]
<1> SUFFICES ASSUME IInv, NEW h \in {0, 1}, NEW k \in 1..(MaxOut - ch.accepted),
                    ch.accepted + h + k <= MaxOut,
                    ~ch.closed /\ ~ch.close_after_flush /\ ch.file = <<>>,
                    ch.connect_pending => EarlyFile,
                    Call((UNION {ArmIfPending(c, "write") : c \in FlushOutput(q(h, k))})
                         \cup (IF h = 0 THEN {} ELSE {CloseInternal(ch)}))
             PROVE  Keep
  <2> HIDE DEF q
  <2> QED
    BY DEF SendFile, q
<1>1. Ok(ch)
  BY Unfold
<1> DEFINE n == ch.accepted
           e == q(h, k)
           new == Numbers(n, h)
           f == Numbers(n + h, k)
<1>2. /\ n \in Nat /\ k \in Nat /\ h \in Nat /\ n + h + k \in 0..MaxOut /\ n + h \in Nat
      /\ ch.out \in Seq(Nat)
  BY <1>1, OkLengths
<1>3. /\ new \in Seq(Nat) /\ f \in Seq(Nat) /\ Len(f) = k
      /\ \A i \in 1..k : f[i] = n + h + i
  BY <1>2, NumbersIndex
<1> HIDE DEF new, f
<1>4. ch.out \o new \in Seq(Nat)
  BY <1>2, <1>3, ConcatIndex
<1>5. e = [ch EXCEPT !.out = ch.out \o new, !.file = f, !.accepted = n + h + k]
  BY <1>1 DEF Ok, Channel, new, f
<1> HIDE DEF e, q
<1>6. /\ e \in Channel /\ e.wire = ch.wire /\ e.out = ch.out \o new /\ e.file = f
      /\ e.accepted = n + h + k
      /\ e.closed = ch.closed /\ e.connected = ch.connected /\ e.connect_pending = ch.connect_pending
      /\ e.reg = ch.reg /\ e.wproc = ch.wproc /\ e.ev = ch.ev /\ e.fd = ch.fd
  BY <1>1, <1>2, <1>3, <1>4, <1>5 DEF Ok, Channel
<1>7. /\ e.in = ch.in /\ e.got = ch.got
      /\ e.read_paused = ch.read_paused /\ e.read_closed = ch.read_closed
  BY <1>1, <1>5 DEF Ok, Channel
<1>8. ByIndex(e)
  <2>1. /\ e.out = ch.out \o Numbers(n, h)
        /\ Len(e.file) = k /\ \A i \in 1..k : e.file[i] = n + h + i
    BY <1>3, <1>6 DEF new
  <2> QED
    BY <1>1, <1>2, <1>6, <2>1, QueuedOrder
<1>9. Ok(e) /\ Keeps(ch, e) /\ ~e.closed
  BY <1>1, <1>6, <1>7, <1>8 DEF Ok, Settled, Keeps
<1>10. ch' \in FlushAndArm(e, "write") \/ ch' = CloseInternal(ch)
  <2>1. \/ ch' \in UNION {ArmIfPending(c, "write") : c \in FlushOutput(q(h, k))}
        \/ ch' = CloseInternal(ch)
    BY DEF Call
  <2>2. q(h, k) = e
    BY DEF e
  <2> QED
    BY <2>1, <2>2, Zenon DEF FlushAndArm
<1>11. CASE ch' = CloseInternal(ch)
  BY <1>1, <1>11, CloseFacts, ClosedResult, CallKeeps DEF Call, Keeps
<1>12. CASE ch' \in FlushAndArm(e, "write")
  <2>1. /\ Ok(ch') /\ Keeps(e, ch')
        /\ "write" = WriteProc(e) => Wanted(ch') /\ Watched(ch')
    BY <1>9, <1>12, FlushAndArmFacts
  <2>2. Keeps(ch, ch')
    BY <1>9, <2>1 DEF Keeps
  <2>3. ~EarlyFile => WriteProc(e) = "write"
    BY <1>1, <1>6 DEF WriteProc
  <2> QED
    BY <1>1, <2>1, <2>2, <2>3, KeepsResult, CallKeeps DEF Call
<1> QED
  BY <1>10, <1>11, <1>12

LEMMA CloseStep == IInv /\ Close => Keep
<1> SUFFICES ASSUME IInv, Close
             PROVE  Keep
  OBVIOUS
<1>1. Ok(ch)
  BY Unfold
<1> QED
  BY <1>1, CloseFacts, ClosedResult, CallKeeps DEF Close, Call, Keeps

\* Setting a flag that neither the stream nor the interest depends on.
LEMMA FlagFacts ==
  ASSUME NEW c, Ok(c), ~c.closed, NEW d,
         \/ d = [c EXCEPT !.close_after_flush = TRUE]
         \/ d = [c EXCEPT !.shutdown_write_after_flush = TRUE]
  PROVE  Ok(d) /\ Keeps(c, d) /\ WriteProc(d) = WriteProc(c)
<1>1. /\ d \in Channel /\ d.wire = c.wire /\ d.out = c.out /\ d.file = c.file
      /\ d.accepted = c.accepted /\ d.reg = c.reg /\ d.ev = c.ev /\ d.fd = c.fd
      /\ d.closed = c.closed /\ d.connected = c.connected /\ d.connect_pending = c.connect_pending
  <2>1. CASE d = [c EXCEPT !.close_after_flush = TRUE]
    BY <2>1 DEF Ok, Channel
  <2>2. CASE d = [c EXCEPT !.shutdown_write_after_flush = TRUE]
    BY <2>2 DEF Ok, Channel
  <2> QED
    BY <2>1, <2>2
<1>2. /\ d.in = c.in /\ d.got = c.got
      /\ d.read_paused = c.read_paused /\ d.read_closed = c.read_closed
  BY DEF Ok, Channel
<1> QED
  BY <1>1, <1>2 DEF Ok, ByIndex, Settled, Keeps, WriteProc

LEMMA FlushLaterStep == IInv /\ (CloseAfterFlush \/ ShutdownWriteAfterFlush) => Keep
<1> SUFFICES ASSUME IInv, ~ch.closed, NEW d,
                    \/ d = [ch EXCEPT !.close_after_flush = TRUE]
                    \/ d = [ch EXCEPT !.shutdown_write_after_flush = TRUE],
                    Call(FlushAndArm(d, WriteProc(ch)))
             PROVE  Keep
  BY DEF CloseAfterFlush, ShutdownWriteAfterFlush, FlushAndArm
<1>1. Ok(ch)
  BY Unfold
<1>2. Ok(d) /\ Keeps(ch, d) /\ WriteProc(d) = WriteProc(ch)
  BY <1>1, FlagFacts
<1>3. WriteProc(ch) \in {"connect", "write"} /\ ch' \in FlushAndArm(d, WriteProc(ch))
  BY DEF WriteProc, Call
<1>4. Ok(ch') /\ Keeps(d, ch') /\ (d.closed => ch' = d) /\ Wanted(ch') /\ Watched(ch')
  BY <1>2, <1>3, FlushAndArmFacts
<1>5. Keeps(ch, ch')
  BY <1>2, <1>4 DEF Keeps
<1> QED
  BY <1>1, <1>4, <1>5, KeepsResult, CallKeeps DEF Call

LEMMA PauseReadStep == IInv /\ PauseRead => Keep
<1> SUFFICES ASSUME IInv, PauseRead
             PROVE  Keep
  OBVIOUS
<1> DEFINE b == [ch EXCEPT !.read_paused = TRUE]
<1>1. Ok(ch) /\ ~ch.closed /\ ch' = DelEvent(b, {"R"})
  BY Unfold DEF PauseRead, Call
<1>2. /\ b \in Channel /\ SameOutput(ch, b) /\ b.read_paused
      /\ b.wire = ch.wire /\ b.accepted = ch.accepted /\ b.reg = ch.reg /\ b.ev = ch.ev
      /\ b.fd = ch.fd /\ b.connected = ch.connected
      /\ b.in = ch.in /\ b.got = ch.got /\ b.read_closed = ch.read_closed
  BY <1>1 DEF Ok, Channel, SameOutput
<1> HIDE DEF b
<1>3. Ok(b)
  BY <1>1, <1>2 DEF Ok, ByIndex, Settled, SameOutput
<1>4. /\ Ok(ch') /\ SameOutput(b, ch') /\ ch'.reg = b.reg \ {"R"} /\ ch'.ev \subseteq b.ev
  BY <1>1, <1>3, DelEventFacts
<1>5. /\ ch'.in = b.in /\ ch'.got = b.got /\ ch'.connected = b.connected
      /\ ch'.read_closed = b.read_closed /\ ch'.read_paused = b.read_paused
  BY <1>1, <1>3 DEF DelEvent, Ok, Channel
<1>6. (Wanted(ch) => Wanted(ch')) /\ (Watched(ch) => Watched(ch'))
  BY <1>2, <1>4 DEF Wanted, Watched, HasPendingOutput, WriteProc, SameOutput
<1>7. Result(ch, ch')
  BY <1>1, <1>2, <1>4, <1>5, <1>6 DEF Result, SameOutput
<1> QED
  BY <1>7, CallKeeps DEF PauseRead, Call

LEMMA ResumeReadStep == IInv /\ ResumeRead => Keep
<1> SUFFICES ASSUME IInv, ResumeRead
             PROVE  Keep
  OBVIOUS
<1>1. /\ Ok(ch) /\ Others /\ InputInv /\ ~ch.closed
      /\ ch' = [ch EXCEPT !.read_paused = FALSE] /\ net' = net
  BY Unfold DEF ResumeRead
<1>2. /\ ch' \in Channel /\ SameOutput(ch, ch') /\ ~ch'.read_paused
      /\ ch'.wire = ch.wire /\ ch'.accepted = ch.accepted /\ ch'.reg = ch.reg /\ ch'.ev = ch.ev
      /\ ch'.fd = ch.fd /\ ch'.connected = ch.connected
      /\ ch'.in = ch.in /\ ch'.got = ch.got /\ ch'.read_closed = ch.read_closed
  BY <1>1 DEF Ok, Channel, SameOutput
<1>3. Ok(ch')
  BY <1>1, <1>2 DEF Ok, ByIndex, Settled, SameOutput
<1>4. /\ Others'
      /\ \/ pc' = "process" /\ loc'.from = "resume"
         \/ ch.read_closed /\ pc' = pc /\ loc' = loc
  <2>1. CASE ch.read_closed
    BY <1>1, <2>1 DEF ResumeRead, Others
  <2>2. CASE ~ch.read_closed
    <3>1. pc' = "process" /\ loc' = [NoLoc EXCEPT !.from = "resume"]
      BY <2>2 DEF ResumeRead
    <3>2. /\ loc' \in [from : {"read", "resume"}, over : BOOLEAN, n : BOOLEAN,
                       tail : {"none", "eof", "error"}]
          /\ loc'.from = "resume"
      BY <3>1 DEF NoLoc
    <3> QED
      BY <1>1, <3>1, <3>2 DEF Others
  <2> QED
    BY <2>1, <2>2
<1>5. IInv'
  BY <1>1, <1>2, <1>3, <1>4, Unfold DEF InputInv
<1>6. ASSUME ~EarlyFile, StallInv
      PROVE  StallInv'
  <2>1. pc = "idle" /\ ch.ev = {} /\ pc' # "connect"
    BY <1>4 DEF ResumeRead
  <2>2. WatchInv'
    BY <1>2, <1>6, <2>1 DEF StallInv, WatchInv, Wanted, Watched, HasPendingOutput, WriteProc, SameOutput
  <2>3. DispatchInv'
    BY <1>2, <2>1 DEF DispatchInv
  <2>4. ListenInv'
    BY <1>2, <1>4 DEF ListenInv
  <2> QED
    BY <1>5, <2>2, <2>3, <2>4 DEF StallInv
<1> QED
  BY <1>5, <1>6 DEF Keep

LEMMA ResumeInCallbackStep == IInv /\ ResumeInCallback => Keep
<1> SUFFICES ASSUME IInv, ResumeInCallback
             PROVE  Keep
  OBVIOUS
<1> DEFINE b == [ch EXCEPT !.read_paused = FALSE]
<1>1. /\ Ok(ch) /\ Others /\ InputInv /\ ~ch.closed /\ pc \in {"connect", "eof"}
      /\ ch' \in (IF b.read_closed THEN {b} ELSE ArmReadable(b)) /\ UNCHANGED <<net, pc, loc>>
  BY Unfold DEF ResumeInCallback, Call
<1>2. /\ b \in Channel /\ SameOutput(ch, b)
      /\ b.wire = ch.wire /\ b.accepted = ch.accepted /\ b.reg = ch.reg /\ b.ev = ch.ev
      /\ b.fd = ch.fd /\ b.connected = ch.connected
      /\ b.in = ch.in /\ b.got = ch.got
  BY <1>1 DEF Ok, Channel, SameOutput
<1> HIDE DEF b
<1>3. Ok(b)
  BY <1>1, <1>2 DEF Ok, ByIndex, Settled, SameOutput
<1>4. ASSUME Ok(ch'), ch'.in = b.in, ch'.got = b.got
      PROVE  IInv'
  BY <1>1, <1>2, <1>4, Unfold DEF InputInv, Others
<1>5. CASE ch' = CloseInternal(b)
  <2>1. Ok(ch') /\ ch'.closed /\ Keeps(b, ch')
    BY <1>3, <1>5, CloseFacts
  <2> QED
    BY <1>4, <2>1, ClosedStall DEF Keeps
<1>6. CASE \/ ch' = b /\ b.read_closed
           \/ ch' = [b EXCEPT !.reg = @ \cup {"R"}]
  <2>1. /\ ch' \in Channel /\ SameOutput(b, ch') /\ ch'.ev = b.ev
        /\ ch'.reg = b.reg \/ ch'.reg = b.reg \cup {"R"}
        /\ ch'.read_closed \/ "R" \in ch'.reg
        /\ ch'.wire = b.wire /\ ch'.accepted = b.accepted /\ ch'.fd = b.fd
        /\ ch'.connected = b.connected /\ ch'.in = b.in /\ ch'.got = b.got
    <3>1. CASE ch' = b /\ b.read_closed
      BY <1>2, <3>1 DEF SameOutput
    <3>2. CASE ch' = [b EXCEPT !.reg = @ \cup {"R"}]
      BY <1>2, <3>2 DEF Channel, SameOutput
    <3> QED
      BY <1>6, <3>1, <3>2
  <2>2. Ok(ch')
    <3>1. ByIndex(b) /\ Settled(b) /\ ~b.closed
      BY <1>1, <1>2, <1>3 DEF Ok, SameOutput
    <3>2. ByIndex(ch')
      BY <2>1, <3>1 DEF ByIndex, SameOutput
    <3>3. Settled(ch')
      BY <2>1, <3>1 DEF Settled, SameOutput
    <3> QED
      BY <2>1, <3>2, <3>3 DEF Ok
  <2>3. IInv'
    BY <1>4, <2>1, <2>2
  <2>4. ASSUME StallInv
        PROVE  StallInv'
    <3>1. "W" \notin ch.ev
      BY <1>1, <2>4 DEF StallInv, DispatchInv
    <3>2. WatchInv'
      <4>1. SameOutput(ch, ch') /\ ("W" \in ch'.reg <=> "W" \in ch.reg) /\ pc' = pc
        <5>1. SameOutput(ch, ch')
          BY <1>2, <2>1 DEF SameOutput
        <5>2. "W" \in ch'.reg <=> "W" \in b.reg
          BY <2>1
        <5> QED
          BY <1>1, <1>2, <5>1, <5>2
      <4> QED
        BY <2>4, <4>1
           DEF StallInv, WatchInv, Wanted, Watched, HasPendingOutput, WriteProc, SameOutput
    <3>3. DispatchInv'
      BY <1>2, <2>1, <3>1 DEF DispatchInv
    <3>4. ListenInv'
      BY <2>1 DEF ListenInv
    <3> QED
      BY <2>3, <3>2, <3>3, <3>4 DEF StallInv
  <2> QED
    BY <2>3, <2>4 DEF Keep
<1> QED
  BY <1>1, <1>5, <1>6 DEF ArmReadable

LEMMA DestroyStep == IInv /\ Destroy => Keep
<1> SUFFICES ASSUME IInv, Destroy
             PROVE  Keep
  OBVIOUS
<1> DEFINE b == CloseInternal(ch)
<1>1. Ok(ch) /\ ch' = [b EXCEPT !.closes = ch.closes] /\ ch.closes \in Nat
  BY Unfold DEF Destroy, Call, Ok, Channel
<1>2. Ok(b) /\ b.closed /\ b.in = ch.in /\ b.got = ch.got
  BY <1>1, CloseFacts DEF Keeps
<1> HIDE DEF b
<1>3. /\ ch' \in Channel /\ ch'.wire = b.wire /\ ch'.reg = b.reg /\ ch'.ev = b.ev
      /\ ch'.fd = b.fd /\ ch'.closed = b.closed /\ ch'.in = b.in /\ ch'.got = b.got
  BY <1>1, <1>2 DEF Ok, Channel
<1>4. Ok(ch')
  BY <1>2, <1>3 DEF Ok, ByIndex, Settled
<1> QED
  BY <1>2, <1>3, <1>4, ClosedResult, CallKeeps DEF Destroy, Call

LEMMA ReleaseFdStep == IInv /\ ReleaseFd => Keep
<1> SUFFICES ASSUME IInv, ReleaseFd
             PROVE  Keep
  OBVIOUS
<1> DEFINE b == DelEvent(ch, {"R", "W"})
<1>1. /\ Ok(ch)
      /\ ch' = [b EXCEPT !.closed = TRUE, !.connected = FALSE, !.connect_pending = FALSE,
                         !.read_closed = TRUE, !.write_closed = TRUE, !.fd = "released"]
  BY Unfold DEF ReleaseFd, Call
<1>2. /\ b \in Channel /\ b.wire = ch.wire /\ b.reg = {} /\ b.ev = {}
      /\ b.in = ch.in /\ b.got = ch.got
  BY <1>1 DEF Ok, DelEvent, Channel
<1> HIDE DEF b
<1>3. /\ ch' \in Channel /\ ch'.wire = b.wire /\ ch'.reg = {} /\ ch'.ev = {}
      /\ ch'.fd = "released" /\ ch'.closed /\ ch'.in = b.in /\ ch'.got = b.got
  <2>1. ch' \in Channel
    BY <1>1, <1>2 DEF Channel
  <2>2. ch'.wire = b.wire /\ ch'.reg = {} /\ ch'.ev = {}
    BY <1>1, <1>2 DEF Channel
  <2>3. ch'.fd = "released" /\ ch'.closed /\ ch'.in = b.in /\ ch'.got = b.got
    BY <1>1, <1>2 DEF Channel
  <2> QED
    BY <2>1, <2>2, <2>3
<1>4. Ok(ch')
  BY <1>1, <1>2, <1>3 DEF Ok, ByIndex, Settled
<1> QED
  BY <1>2, <1>3, <1>4, ClosedResult, CallKeeps DEF ReleaseFd, Call

LEMMA AppStep == IInv /\ App => Keep
  BY SendStep, SendFileStep, CloseStep, FlushLaterStep, PauseReadStep, ResumeReadStep,
     ResumeInCallbackStep, DestroyStep, ReleaseFdStep DEF App
-----------------------------------------------------------------------------
(* The event loop.                                                          *)

\* Taking callbacks off the event in dispatch, or putting a new event there.
LEMMA EvFacts ==
  ASSUME NEW c, Ok(c), NEW v \in SUBSET {"R", "W", "E"}, c.closed => v = {}
  PROVE  LET d == [c EXCEPT !.ev = v]
         IN /\ Ok(d) /\ SameOutput(c, d) /\ d.ev = v /\ d.reg = c.reg
            /\ d.in = c.in /\ d.got = c.got /\ d.connected = c.connected
            /\ d.read_paused = c.read_paused /\ d.read_closed = c.read_closed
            /\ d.closes = c.closes /\ d.wire = c.wire
<1> DEFINE d == [c EXCEPT !.ev = v]
<1>1. /\ d \in Channel /\ SameOutput(c, d) /\ d.ev = v /\ d.reg = c.reg
      /\ d.wire = c.wire /\ d.accepted = c.accepted /\ d.fd = c.fd
      /\ d.connected = c.connected
  BY DEF Ok, Channel, SameOutput
<1>2. /\ d.in = c.in /\ d.got = c.got
      /\ d.read_paused = c.read_paused /\ d.read_closed = c.read_closed /\ d.closes = c.closes
  BY DEF Ok, Channel
<1> HIDE DEF d
<1>3. Ok(d)
  BY <1>1 DEF Ok, ByIndex, Settled, SameOutput
<1> QED
  BY <1>1, <1>2, <1>3 DEF d

LEMMA EventStep == IInv /\ Event => Keep
<1> SUFFICES ASSUME IInv, Event
             PROVE  Keep
  OBVIOUS
<1>1. /\ Ok(ch) /\ Others /\ InputInv
      /\ ch' = [ch EXCEPT !.ev = Ready] /\ pc = "idle" /\ UNCHANGED <<net, pc, loc>>
  BY Unfold DEF Event
<1>2. /\ Ready \in SUBSET {"R", "W", "E"}
      /\ "W" \in Ready => "W" \in ch.reg
      /\ ch.reg = {} => Ready = {}
  BY DEF Ready
<1>3. ch.closed => Ready = {}
  BY <1>1, <1>2 DEF Ok, Settled
<1>4. /\ Ok(ch') /\ SameOutput(ch, ch') /\ ch'.ev = Ready /\ ch'.reg = ch.reg
      /\ ch'.in = ch.in /\ ch'.got = ch.got /\ ch'.connected = ch.connected
      /\ ch'.read_paused = ch.read_paused /\ ch'.read_closed = ch.read_closed
  BY <1>1, <1>2, <1>3, EvFacts
<1>5. IInv'
  BY <1>1, <1>4, Unfold DEF Others, InputInv
<1>6. ASSUME StallInv
      PROVE  StallInv'
  <2>1. WatchInv'
    BY <1>1, <1>4, <1>6 DEF StallInv, WatchInv, Wanted, Watched, HasPendingOutput, WriteProc, SameOutput
  <2>2. DispatchInv'
    BY <1>1, <1>2, <1>4 DEF DispatchInv
  <2>3. ListenInv'
    BY <1>1, <1>4, <1>6 DEF StallInv, ListenInv, SameOutput
  <2> QED
    BY <1>5, <2>1, <2>2, <2>3 DEF StallInv
<1> QED
  BY <1>5, <1>6 DEF Keep

LEMMA WriteEventStep == IInv /\ WriteEvent => Keep
<1> SUFFICES ASSUME IInv, WriteEvent
             PROVE  Keep
  OBVIOUS
<1> DEFINE v == ch.ev \ {"W"}
           b == [ch EXCEPT !.ev = v]
<1>1. /\ Ok(ch) /\ Others /\ InputInv /\ ch.ev \in SUBSET {"R", "W", "E"}
      /\ pc = "idle" /\ "W" \in ch.ev /\ ch.wproc = "write"
      /\ ch' \in FlushOutput(b) /\ UNCHANGED <<net, pc, loc>>
  BY Unfold DEF WriteEvent, Ok, Channel
<1>2. ch.closed => ch.ev = {}
  BY <1>1 DEF Ok, Settled
<1>3. /\ Ok(b) /\ SameOutput(ch, b) /\ b.ev = ch.ev \ {"W"} /\ b.reg = ch.reg
      /\ b.in = ch.in /\ b.got = ch.got /\ b.connected = ch.connected
      /\ b.read_paused = ch.read_paused /\ b.read_closed = ch.read_closed
  <2>1. v \in SUBSET {"R", "W", "E"} /\ (ch.closed => v = {})
    BY <1>1, <1>2
  <2> HIDE DEF v
  <2>2. /\ Ok(b) /\ SameOutput(ch, b) /\ b.ev = v /\ b.reg = ch.reg
        /\ b.in = ch.in /\ b.got = ch.got /\ b.connected = ch.connected
        /\ b.read_paused = ch.read_paused /\ b.read_closed = ch.read_closed
    BY <1>1, <2>1, EvFacts
  <2> QED
    BY <2>2 DEF v
<1> HIDE DEF b
<1>4. /\ Ok(ch') /\ Keeps(b, ch')
      /\ \/ ch'.closed
         \/ ch' = b /\ b.connect_pending
         \/ /\ HasPendingOutput(ch') /\ ~ch'.connect_pending
            /\ ch'.reg = b.reg /\ ch'.wproc = b.wproc
         \/ ~HasPendingOutput(ch') /\ "W" \notin ch'.reg
  BY <1>1, <1>3, FlushFacts
<1>5. IInv'
  BY <1>1, <1>3, <1>4, Unfold DEF Others, InputInv, Keeps
<1>6. ASSUME StallInv, ~ch'.closed
      PROVE  StallInv'
  <2>1. "W" \in ch.reg /\ ~b.connect_pending
    BY <1>1, <1>3, <1>6 DEF StallInv, WatchInv, DispatchInv, Wanted, WriteProc, SameOutput
  <2>2. WatchInv'
    BY <1>1, <1>3, <1>4, <1>6, <2>1 DEF WatchInv, Wanted, Watched, WriteProc, SameOutput
  <2>3. DispatchInv'
    BY <1>3, <1>4 DEF DispatchInv, Keeps
  <2>4. ListenInv'
    BY <1>1, <1>3, <1>4, <1>6 DEF StallInv, ListenInv, Keeps, SameOutput
  <2> QED
    BY <1>5, <2>2, <2>3, <2>4 DEF StallInv
<1> QED
  BY <1>5, <1>6, ClosedStall DEF Keep

LEMMA ConnectEventStep == IInv /\ ConnectEvent => Keep
<1> SUFFICES ASSUME IInv, ConnectEvent
             PROVE  Keep
  OBVIOUS
<1> DEFINE c == [ch EXCEPT !.ev = ch.ev \ {"W"}, !.connect_pending = FALSE, !.connected = TRUE]
<1>1. /\ Ok(ch) /\ Others /\ InputInv /\ pc = "idle" /\ "W" \in ch.ev /\ net' = net /\ loc' = loc
  BY Unfold DEF ConnectEvent
<1>2. \/ /\ pc' = "connect"
         /\ ch' = [DelEvent(c, {"W"}) EXCEPT !.reg = @ \cup IF ch.read_closed THEN {} ELSE {"R"}]
      \/ ch' = CloseInternal(c) /\ pc' = pc
  BY <1>1 DEF ConnectEvent, Ok, Channel
<1>3. ~ch.closed
  BY <1>1 DEF Ok, Settled
<1>4. /\ c \in Channel /\ c.wire = ch.wire /\ c.out = ch.out /\ c.file = ch.file
      /\ c.accepted = ch.accepted /\ c.closed = ch.closed /\ c.fd = ch.fd
      /\ c.connected = TRUE /\ c.connect_pending = FALSE
      /\ c.in = ch.in /\ c.got = ch.got /\ c.ev = ch.ev \ {"W"} /\ c.read_closed = ch.read_closed
  BY <1>1 DEF Ok, Channel
<1> HIDE DEF c
<1>5. Ok(c)
  BY <1>1, <1>3, <1>4 DEF Ok, ByIndex, Settled
<1>6. CASE ch' = CloseInternal(c) /\ pc' = pc
  <2>1. Ok(ch') /\ ch'.closed /\ Keeps(c, ch')
    BY <1>5, <1>6, CloseFacts
  <2>2. IInv'
    BY <1>1, <1>4, <1>6, <2>1, Unfold DEF Others, InputInv, Keeps
  <2> QED
    BY <2>1, <2>2, ClosedStall
<1>7. CASE /\ pc' = "connect"
           /\ ch' = [DelEvent(c, {"W"}) EXCEPT !.reg = @ \cup IF ch.read_closed THEN {} ELSE {"R"}]
  <2> DEFINE b == DelEvent(c, {"W"})
             r == b.reg \cup IF ch.read_closed THEN {} ELSE {"R"}
  <2>1. /\ Ok(b) /\ SameOutput(c, b) /\ b.reg = c.reg \ {"W"} /\ b.ev \subseteq c.ev
        /\ Keeps(c, b) /\ b.reg \in SUBSET {"R", "W"}
    <3>1. /\ Ok(b) /\ SameOutput(c, b) /\ b.reg = c.reg \ {"W"} /\ b.ev \subseteq c.ev
          /\ Keeps(c, b)
      BY <1>5, DelEventFacts
    <3> HIDE DEF b
    <3> QED
      BY <3>1 DEF Ok, Channel
  <2>2. ch' = [b EXCEPT !.reg = r]
    BY <1>7, <2>1 DEF Ok, Channel
  <2> HIDE DEF b
  <2>3. r \in SUBSET {"R", "W"} /\ "W" \notin r /\ ("R" \in r \/ ch.read_closed)
    BY <2>1
  <2> HIDE DEF r
  <2>4. /\ ch' \in Channel /\ SameOutput(b, ch') /\ ch'.reg = r /\ ch'.ev = b.ev
        /\ ch'.wire = b.wire /\ ch'.accepted = b.accepted /\ ch'.fd = b.fd
        /\ ch'.connected = b.connected /\ ch'.in = b.in /\ ch'.got = b.got
        /\ ch'.read_closed = b.read_closed
    BY <2>1, <2>2, <2>3 DEF Ok, Channel, SameOutput
  <2>5. ~ch'.closed /\ ~ch'.connect_pending /\ ch'.connected /\ ch'.read_closed = ch.read_closed
    BY <1>3, <1>4, <2>1, <2>4 DEF SameOutput, Keeps
  <2>6. Ok(ch')
    <3>1. ByIndex(ch')
      BY <2>1, <2>4 DEF Ok, ByIndex, SameOutput
    <3>2. Settled(ch')
      BY <2>5 DEF Settled
    <3> QED
      BY <2>4, <3>1, <3>2 DEF Ok
  <2>7. IInv'
    BY <1>1, <1>4, <1>7, <2>1, <2>4, <2>6, Unfold DEF Others, InputInv, Keeps
  <2>8. WatchInv'
    BY <1>7, <2>3, <2>4, <2>5 DEF WatchInv, Wanted
  <2>9. DispatchInv'
    BY <1>4, <2>1, <2>4 DEF DispatchInv
  <2>10. ListenInv'
    BY <2>3, <2>4, <2>5 DEF ListenInv
  <2> QED
    BY <2>7, <2>8, <2>9, <2>10 DEF StallInv, Keep
<1> QED
  BY <1>2, <1>6, <1>7

LEMMA ConnectReturnsStep == IInv /\ ConnectReturns => Keep
<1> SUFFICES ASSUME IInv, ConnectReturns
             PROVE  Keep
  OBVIOUS
<1>1. /\ Ok(ch) /\ Others /\ InputInv /\ pc = "connect" /\ pc' = "idle"
      /\ ch' \in FlushAndArm(ch, "write") /\ net' = net /\ loc' = loc
  BY Unfold DEF ConnectReturns, FlushAndArm
<1>2. /\ Ok(ch') /\ Keeps(ch, ch')
      /\ ch.closed => ch' = ch
      /\ "write" = WriteProc(ch) => Wanted(ch') /\ Watched(ch')
  BY <1>1, FlushAndArmFacts
<1>3. IInv'
  BY <1>1, <1>2, Unfold DEF Others, InputInv, Keeps
<1>4. ASSUME StallInv, ~ch'.closed
      PROVE  StallInv'
  <2>1. ~ch.closed
    BY <1>2, <1>4
  <2>2. "write" = WriteProc(ch) /\ "W" \notin ch.ev
    BY <1>1, <1>4, <2>1 DEF StallInv, WatchInv, DispatchInv, WriteProc
  <2>3. WatchInv' /\ DispatchInv'
    BY <1>1, <1>2, <2>2 DEF WatchInv, DispatchInv, Keeps
  <2>4. ListenInv'
    BY <1>1, <1>2, <1>4 DEF StallInv, ListenInv, Keeps
  <2> QED
    BY <1>3, <2>3, <2>4 DEF StallInv
<1> QED
  BY <1>3, <1>4, ClosedStall DEF Keep

LEMMA ErrorEventStep == IInv /\ ErrorEvent => Keep
<1> SUFFICES ASSUME IInv, ErrorEvent
             PROVE  Keep
  OBVIOUS
<1> DEFINE b == [ch EXCEPT !.ev = {}]
<1>1. Ok(ch) /\ Others /\ InputInv /\ ch' = CloseInternal(b) /\ UNCHANGED <<net, pc, loc>>
  BY Unfold DEF ErrorEvent
<1>2. Ok(b) /\ b.in = ch.in /\ b.got = ch.got
  BY <1>1, EvFacts
<1> HIDE DEF b
<1>3. Ok(ch') /\ ch'.closed /\ Keeps(b, ch')
  BY <1>1, <1>2, CloseFacts
<1>4. IInv'
  BY <1>1, <1>2, <1>3, Unfold DEF Others, InputInv, Keeps
<1> QED
  BY <1>3, <1>4, ClosedStall

LEMMA ReadEventStep == IInv /\ ReadEvent => Keep
<1> SUFFICES ASSUME IInv, ReadEvent
             PROVE  Keep
  OBVIOUS
<1> DEFINE v == ch.ev \ {"R"}
<1>1. /\ Ok(ch) /\ Others /\ InputInv /\ ch.ev \in SUBSET {"R", "W", "E"}
      /\ pc = "idle" /\ "R" \in ch.ev /\ "W" \notin ch.ev
  BY Unfold DEF ReadEvent, Ok, Channel
<1>2. ~ch.closed
  BY <1>1 DEF Ok, Settled
<1>3. v \in SUBSET {"R", "W", "E"} /\ "W" \notin v
  BY <1>1
<1> HIDE DEF v
<1>4. CASE ch' = [ch EXCEPT !.ev = v] /\ UNCHANGED <<net, pc, loc>>
  <2>1. /\ Ok(ch') /\ SameOutput(ch, ch') /\ ch'.ev = v /\ ch'.reg = ch.reg
        /\ ch'.in = ch.in /\ ch'.got = ch.got /\ ch'.connected = ch.connected
        /\ ch'.read_paused = ch.read_paused /\ ch'.read_closed = ch.read_closed
    BY <1>1, <1>2, <1>3, <1>4, EvFacts
  <2>2. IInv'
    BY <1>1, <1>4, <2>1, Unfold DEF Others, InputInv
  <2>3. ASSUME StallInv
        PROVE  StallInv'
    <3>1. WatchInv'
      BY <1>4, <2>1, <2>3 DEF StallInv, WatchInv, Wanted, Watched, HasPendingOutput, WriteProc, SameOutput
    <3>2. DispatchInv'
      BY <1>3, <2>1 DEF DispatchInv
    <3>3. ListenInv'
      BY <1>4, <2>1, <2>3 DEF StallInv, ListenInv, SameOutput
    <3> QED
      BY <2>2, <3>1, <3>2, <3>3 DEF StallInv
  <2> QED
    BY <2>2, <2>3 DEF Keep
<1>5. CASE ch' = CloseInternal(ch) /\ UNCHANGED <<net, pc, loc>>
  <2>1. Ok(ch') /\ ch'.closed /\ Keeps(ch, ch')
    BY <1>1, <1>5, CloseFacts
  <2>2. IInv'
    BY <1>1, <1>5, <2>1, Unfold DEF Others, InputInv, Keeps
  <2> QED
    BY <2>1, <2>2, ClosedStall
<1>6. ASSUME NEW k \in (IF net.avail = 0 THEN {0} ELSE 1..net.avail),
             NEW tail \in {"none", "eof", "error"},
             NEW over \in BOOLEAN, over <=> InMax > 0 /\ ch.in + k > InMax,
             ch' = IF over THEN DelEvent([ch EXCEPT !.ev = v, !.in = ch.in + k, !.got = ch.got + k], {"R"})
                   ELSE [ch EXCEPT !.ev = v, !.in = ch.in + k, !.got = ch.got + k],
             net' = [net EXCEPT !.avail = net.avail - k],
             loc' = [from |-> "read", over |-> over, n |-> FALSE, tail |-> tail],
             pc' = "process"
      PROVE  Keep
  <2> DEFINE i == ch.in + k
             g == ch.got + k
             c == [ch EXCEPT !.ev = v, !.in = i, !.got = g]
  <2>1. /\ ch.in \in Nat /\ ch.got \in Nat /\ net.avail \in Nat /\ net.total \in Nat
        /\ net.total <= MaxIn /\ MaxIn \in Nat
    BY <1>1, ChannelAssumption DEF Ok, Channel, Others
  <2>2. k \in Nat /\ k <= net.avail
    BY <2>1
  <2>3. /\ i \in 0..MaxIn /\ g \in 0..MaxIn /\ i <= g
        /\ g + (net.avail - k) = net.total /\ net.avail - k \in Nat
    BY <1>1, <2>1, <2>2 DEF InputInv
  <2>4. InMax > 0 /\ ch.in > InMax => over
    BY <1>6, <2>1, <2>2, ChannelAssumption
  <2>5. ch' = IF over THEN DelEvent(c, {"R"}) ELSE c
    BY <1>6
  <2> HIDE DEF i, g
  <2>6. /\ Ok(c) /\ SameOutput(ch, c) /\ c.ev = v /\ c.reg = ch.reg /\ ~c.closed
        /\ c.in = i /\ c.got = g /\ c.connected = ch.connected
        /\ c.read_paused = ch.read_paused /\ c.read_closed = ch.read_closed
    <3>1. /\ c \in Channel /\ SameOutput(ch, c) /\ c.ev = v /\ c.reg = ch.reg
          /\ c.wire = ch.wire /\ c.accepted = ch.accepted /\ c.fd = ch.fd
          /\ c.connected = ch.connected
      BY <1>1, <1>3, <2>3 DEF Ok, Channel, SameOutput
    <3>2. /\ c.in = i /\ c.got = g
          /\ c.read_paused = ch.read_paused /\ c.read_closed = ch.read_closed
      BY <1>1 DEF Ok, Channel
    <3> HIDE DEF c
    <3>3. Ok(c) /\ ~c.closed
      BY <1>1, <1>2, <3>1 DEF Ok, ByIndex, Settled, SameOutput
    <3> QED
      BY <3>1, <3>2, <3>3
  <2> HIDE DEF c
  <2>7. /\ Ok(ch') /\ SameOutput(c, ch') /\ ch'.ev \subseteq v
        /\ ch'.in = i /\ ch'.got = g /\ ch'.connected = c.connected
        /\ ch'.read_paused = c.read_paused /\ ch'.read_closed = c.read_closed
        /\ "W" \in ch'.reg <=> "W" \in c.reg
        /\ over \/ ch'.reg = c.reg
    <3>1. CASE ~over
      <4>1. ch' = c
        BY <2>5, <3>1
      <4> QED
        BY <2>6, <3>1, <4>1 DEF SameOutput
    <3>2. CASE over
      <4>1. ch' = DelEvent(c, {"R"})
        BY <2>5, <3>2
      <4>2. /\ Ok(ch') /\ SameOutput(c, ch') /\ ch'.reg = c.reg \ {"R"} /\ ch'.ev \subseteq c.ev
        BY <2>6, <4>1, DelEventFacts
      <4>3. /\ ch'.in = c.in /\ ch'.got = c.got /\ ch'.connected = c.connected
            /\ ch'.read_paused = c.read_paused /\ ch'.read_closed = c.read_closed
        BY <2>6, <4>1 DEF DelEvent, Ok, Channel
      <4> QED
        BY <2>6, <3>2, <4>2, <4>3
    <3> QED
      BY <3>1, <3>2
  <2>8. Others'
    BY <1>1, <1>6, <2>3 DEF Others
  <2>9. InputInv'
    BY <1>1, <1>6, <2>3, <2>7 DEF Others, InputInv
  <2>10. IInv'
    BY <2>7, <2>8, <2>9, Unfold
  <2>11. ASSUME StallInv
         PROVE  StallInv'
    <3>1. WatchInv'
      BY <1>1, <1>6, <2>6, <2>7, <2>11
         DEF StallInv, WatchInv, Wanted, Watched, HasPendingOutput, WriteProc, SameOutput
    <3>2. DispatchInv'
      BY <1>3, <2>7 DEF DispatchInv
    <3>3. ~ch'.closed /\ ch'.connected /\ ~ch'.read_paused /\ ~ch'.read_closed
            => "R" \in ch'.reg \/ over
      BY <1>1, <1>2, <2>4, <2>6, <2>7, <2>11 DEF StallInv, ListenInv
    <3>4. loc'.over = over
      BY <1>6
    <3>5. ListenInv'
      BY <1>6, <3>3, <3>4 DEF ListenInv
    <3> QED
      BY <2>10, <3>1, <3>2, <3>5 DEF StallInv
  <2> QED
    BY <2>10, <2>11 DEF Keep
<1>7. \/ ch' = [ch EXCEPT !.ev = v] /\ UNCHANGED <<net, pc, loc>>
      \/ ch' = CloseInternal(ch) /\ UNCHANGED <<net, pc, loc>>
      \/ \E k \in (IF net.avail = 0 THEN {0} ELSE 1..net.avail), tail \in {"none", "eof", "error"} :
           LET over == InMax > 0 /\ ch.in + k > InMax
               c    == [ch EXCEPT !.ev = v, !.in = ch.in + k, !.got = ch.got + k]
           IN /\ ch' = IF over THEN DelEvent(c, {"R"}) ELSE c
              /\ net' = [net EXCEPT !.avail = net.avail - k]
              /\ loc' = [from |-> "read", over |-> over, n |-> FALSE, tail |-> tail]
              /\ pc' = "process"
  <2>1. ASSUME NEW k
        PROVE  /\ [ch EXCEPT !.ev = @ \ {"R"}, !.in = @ + k, !.got = @ + k]
                    = [ch EXCEPT !.ev = v, !.in = ch.in + k, !.got = ch.got + k]
               /\ [net EXCEPT !.avail = @ - k] = [net EXCEPT !.avail = net.avail - k]
    BY <1>1 DEF v, Ok, Channel, Others
  <2>2. [ch EXCEPT !.ev = @ \ {"R"}] = [ch EXCEPT !.ev = v]
    BY <1>1 DEF v, Ok, Channel
  <2>3. CASE ch.read_paused
    BY <2>2, <2>3 DEF ReadEvent
  <2>4. CASE ~ch.read_paused /\ ch' = CloseInternal(ch) /\ UNCHANGED <<net, pc, loc>>
    BY <2>4
  <2>5. CASE ~ch.read_paused /\ ~(ch' = CloseInternal(ch) /\ UNCHANGED <<net, pc, loc>>)
    <3>1. PICK k \in (IF net.avail = 0 THEN {0} ELSE 1..net.avail), tail \in {"none", "eof", "error"} :
            LET over == InMax > 0 /\ ch.in + k > InMax
                c    == [ch EXCEPT !.ev = @ \ {"R"}, !.in = @ + k, !.got = @ + k]
            IN /\ ch' = IF over THEN DelEvent(c, {"R"}) ELSE c
               /\ net' = [net EXCEPT !.avail = @ - k]
               /\ loc' = [from |-> "read", over |-> over, n |-> FALSE, tail |-> tail]
               /\ pc' = "process"
      BY <2>5, Zenon DEF ReadEvent
    <3> QED
      BY <3>1, <2>1
  <2> QED
    BY <2>3, <2>4, <2>5
<1>8. ASSUME NEW k \in (IF net.avail = 0 THEN {0} ELSE 1..net.avail),
             NEW tail \in {"none", "eof", "error"},
             LET over == InMax > 0 /\ ch.in + k > InMax
                 c    == [ch EXCEPT !.ev = v, !.in = ch.in + k, !.got = ch.got + k]
             IN /\ ch' = IF over THEN DelEvent(c, {"R"}) ELSE c
                /\ net' = [net EXCEPT !.avail = net.avail - k]
                /\ loc' = [from |-> "read", over |-> over, n |-> FALSE, tail |-> tail]
                /\ pc' = "process"
      PROVE  Keep
  <2> DEFINE o == InMax > 0 /\ ch.in + k > InMax
  <2>1. o \in BOOLEAN
    OBVIOUS
  <2> QED
    BY <1>6, <1>8, <2>1
<1> QED
  BY <1>4, <1>5, <1>7, <1>8
-----------------------------------------------------------------------------
(* process_input and its callers.                                           *)

\* process_input moves on without touching the channel.
LEMMA MovesOn ==
  ASSUME IInv, UNCHANGED <<ch, net>>, pc \in {"process", "packet"},
         pc' \in {"process", "packet", "after"},
         loc' = loc \/ loc' = [loc EXCEPT !.n = TRUE]
  PROVE  Keep
<1>1. Others /\ Ok(ch) /\ InputInv
  BY Unfold
<1>2. /\ Others'
      /\ loc'.over = loc.over /\ loc'.from = loc.from
  BY <1>1 DEF Others
<1>3. IInv'
  BY <1>1, <1>2, Unfold DEF InputInv
<1>4. ASSUME StallInv
      PROVE  StallInv'
  <2>1. WatchInv'
    BY <1>4 DEF StallInv, WatchInv
  <2>2. DispatchInv'
    BY <1>4 DEF StallInv, DispatchInv
  <2>3. ListenInv'
    BY <1>2, <1>4 DEF StallInv, ListenInv
  <2> QED
    BY <1>3, <2>1, <2>2, <2>3 DEF StallInv
<1> QED
  BY <1>3, <1>4 DEF Keep

\* process_input closes the channel.
LEMMA ProcessCloses ==
  ASSUME IInv, ch' = CloseInternal(ch), pc' = "after", net' = net, loc' = loc
  PROVE  Keep
<1>1. Ok(ch) /\ Others /\ InputInv
  BY Unfold
<1>2. Ok(ch') /\ ch'.closed /\ Keeps(ch, ch')
  BY <1>1, CloseFacts
<1>3. IInv'
  BY <1>1, <1>2, Unfold DEF Others, InputInv, Keeps
<1> QED
  BY <1>2, <1>3, ClosedStall

LEMMA ProcessInputStep == IInv /\ ProcessInput => Keep
  BY MovesOn, ProcessCloses DEF ProcessInput

LEMMA PacketReturnsStep == IInv /\ PacketReturns => Keep
<1> SUFFICES ASSUME IInv, PacketReturns
             PROVE  Keep
  OBVIOUS
<1>1. Ok(ch) /\ Others /\ InputInv /\ pc = "packet" /\ net' = net
  BY Unfold DEF PacketReturns
<1>2. CASE pc' = "after" /\ UNCHANGED <<ch, loc>>
  BY <1>1, <1>2, MovesOn
<1>3. CASE pc' = "after" /\ ch' = CloseInternal(ch) /\ UNCHANGED loc
  BY <1>1, <1>3, ProcessCloses
<1>4. ASSUME NEW k \in Nat, k <= ch.in, ~ch.closed, pc' = "process",
             ch' = [ch EXCEPT !.in = ch.in - k], loc' = [loc EXCEPT !.n = TRUE]
      PROVE  Keep
  <2> DEFINE i == ch.in - k
  <2>1. ch.in \in 0..MaxIn /\ ch.got \in 0..MaxIn /\ MaxIn \in Nat
    BY <1>1, ChannelAssumption DEF Ok, Channel
  <2>2. i \in 0..MaxIn /\ i <= ch.got
    BY <1>1, <1>4, <2>1 DEF InputInv
  <2>3. ch' = [ch EXCEPT !.in = i]
    BY <1>4
  <2> HIDE DEF i
  <2>4. /\ ch' \in Channel /\ SameOutput(ch, ch') /\ ch'.reg = ch.reg /\ ch'.ev = ch.ev
        /\ ch'.wire = ch.wire /\ ch'.accepted = ch.accepted /\ ch'.fd = ch.fd
        /\ ch'.connected = ch.connected
    BY <1>1, <2>2, <2>3 DEF Ok, Channel, SameOutput
  <2>5. /\ ch'.in = i /\ ch'.got = ch.got
        /\ ch'.read_paused = ch.read_paused /\ ch'.read_closed = ch.read_closed
    BY <1>1, <2>3 DEF Ok, Channel
  <2>6. Ok(ch')
    BY <1>1, <2>4 DEF Ok, ByIndex, Settled, SameOutput
  <2>7. /\ Others'
        /\ loc'.over = loc.over /\ loc'.from = loc.from
    BY <1>1, <1>4 DEF Others
  <2>8. IInv'
    BY <1>1, <2>2, <2>5, <2>6, <2>7, Unfold DEF InputInv
  <2>9. ASSUME StallInv
        PROVE  StallInv'
    <3>1. WatchInv'
      BY <1>1, <1>4, <2>4, <2>9
         DEF StallInv, WatchInv, Wanted, Watched, HasPendingOutput, WriteProc, SameOutput
    <3>2. DispatchInv'
      BY <1>1, <2>4, <2>9 DEF StallInv, DispatchInv
    <3>3. ListenInv'
      BY <1>1, <1>4, <2>4, <2>5, <2>7, <2>9 DEF StallInv, ListenInv, SameOutput
    <3> QED
      BY <2>8, <3>1, <3>2, <3>3 DEF StallInv
  <2> QED
    BY <2>8, <2>9 DEF Keep
<1>5. CASE ~ch.closed
  <2>1. PICK k \in (IF ch.frame = "len" THEN {PacketSize} ELSE 0..(ch.in + 1)) :
          IF k = 0 THEN pc' = "after" /\ UNCHANGED <<ch, loc>>
          ELSE IF k > ch.in
          THEN pc' = "after" /\ ch' = CloseInternal(ch) /\ UNCHANGED loc
          ELSE pc' = "process" /\ ch' = [ch EXCEPT !.in = @ - k] /\ loc' = [loc EXCEPT !.n = TRUE]
    BY <1>5, Zenon DEF PacketReturns
  <2>2. k \in Nat /\ ch.in \in Nat
    BY <1>1, ChannelAssumption DEF Ok, Channel
  <2>3. [ch EXCEPT !.in = @ - k] = [ch EXCEPT !.in = ch.in - k]
    BY <1>1 DEF Ok, Channel
  <2> QED
    BY <1>2, <1>3, <1>4, <1>5, <2>1, <2>2, <2>3
<1> QED
  BY <1>2, <1>5 DEF PacketReturns

\* Whether reading was resumed or the channel closed, it listens or is deaf by
\* its full buffer.
LEMMA RearmedFacts ==
  ASSUME IInv, pc = "after", NEW c \in Rearmed
  PROVE  /\ Ok(c) /\ c.in = ch.in /\ c.got = ch.got /\ c.ev \subseteq ch.ev
         /\ ch.closed => c = ch
         /\ \/ c.closed
            \/ /\ SameOutput(ch, c) /\ ("W" \in c.reg <=> "W" \in ch.reg)
               /\ c.connected = ch.connected
               /\ c.read_closed = ch.read_closed /\ c.read_paused = ch.read_paused
               /\ ListenInv /\ c.connected /\ ~c.read_paused /\ ~c.read_closed =>
                    "R" \in c.reg \/ (InMax > 0 /\ c.in > InMax)
<1> DEFINE b == IF loc.from = "read" /\ loc.over /\ ~loc.n THEN CloseInternal(ch) ELSE ch
           arm == /\ ~b.closed /\ ~b.read_paused
                  /\ loc.from = "read" => loc.over
                  /\ loc.from = "resume" => ~b.read_closed
                  /\ InMax = 0 \/ b.in <= InMax
<1>1. /\ Ok(ch) /\ Others /\ InputInv /\ loc.from \in {"read", "resume"}
      /\ ch.in \in Nat /\ InMax \in Nat
  BY Unfold, ChannelAssumption DEF Others, Ok, Channel
<1>2. /\ Ok(b) /\ b.in = ch.in /\ b.got = ch.got /\ b.ev \subseteq ch.ev
      /\ b.closed \/ b = ch
      /\ ch.closed => b = ch
  BY <1>1, CloseFacts DEF Keeps
<1>3. c \in IF arm THEN ArmReadable(b) ELSE {b}
  BY Zenon DEF Rearmed
<1> HIDE DEF b, arm
<1>4. CASE c = CloseInternal(b) /\ arm
  <2>1. Ok(c) /\ c.closed /\ Keeps(b, c)
    BY <1>2, <1>4, CloseFacts
  <2> QED
    BY <1>2, <1>4, <2>1 DEF Keeps, arm
<1>5. CASE c = [b EXCEPT !.reg = @ \cup {"R"}] /\ arm
  <2>1. ~b.closed /\ b = ch
    BY <1>2, <1>5 DEF arm
  <2>2. /\ c \in Channel /\ SameOutput(b, c) /\ c.reg = b.reg \cup {"R"} /\ c.ev = b.ev
        /\ c.wire = b.wire /\ c.accepted = b.accepted /\ c.fd = b.fd
        /\ c.connected = b.connected
    BY <1>2, <1>5 DEF Ok, Channel, SameOutput
  <2>3. /\ c.in = b.in /\ c.got = b.got
        /\ c.read_paused = b.read_paused /\ c.read_closed = b.read_closed
    BY <1>2, <1>5 DEF Ok, Channel
  <2>4. Ok(c)
    <3>1. ByIndex(b) /\ Settled(b)
      BY <1>2 DEF Ok
    <3>2. ByIndex(c)
      BY <2>1, <2>2, <3>1 DEF ByIndex, SameOutput
    <3>3. Settled(c)
      BY <2>1, <2>2, <3>1 DEF Settled, SameOutput
    <3> QED
      BY <2>2, <3>2, <3>3 DEF Ok
  <2> QED
    BY <2>1, <2>2, <2>3, <2>4
<1>6. CASE c = b /\ ~arm
  <2>1. CASE b.closed
    BY <1>2, <1>6, <2>1
  <2>2. CASE ~b.closed
    <3>1. b = ch
      BY <1>2, <2>2
    <3>2. ListenInv /\ ch.connected /\ ~ch.read_paused /\ ~ch.read_closed =>
            "R" \in ch.reg \/ (InMax > 0 /\ ch.in > InMax)
      BY <1>1, <1>6, <2>2, <3>1 DEF ListenInv, arm
    <3> QED
      BY <1>1, <1>6, <3>1, <3>2 DEF SameOutput
  <2> QED
    BY <2>1, <2>2
<1> QED
  BY <1>3, <1>4, <1>5, <1>6 DEF ArmReadable

LEMMA AfterInputStep == IInv /\ AfterInput => Keep
<1> SUFFICES ASSUME IInv, AfterInput
             PROVE  Keep
  OBVIOUS
<1>1. /\ Ok(ch) /\ Others /\ InputInv /\ pc = "after" /\ loc' = NoLoc /\ net' = net
  BY Unfold DEF AfterInput
<1>2. PICK c \in Rearmed :
        IF ~c.closed /\ loc.tail = "eof" /\ ~c.read_closed
        THEN LET d == DelEvent([c EXCEPT !.read_closed = TRUE], {"R"})
             IN /\ ch' = IF ch.eof_cb THEN d ELSE CloseInternal(d)
                /\ pc' = IF ch.eof_cb THEN "eof" ELSE "idle"
        ELSE /\ ch' = IF loc.tail = "error" THEN CloseInternal(c) ELSE c
             /\ pc' = "idle"
  BY Zenon DEF AfterInput
<1>3. /\ Ok(c) /\ c.in = ch.in /\ c.got = ch.got /\ c.ev \subseteq ch.ev
      /\ \/ c.closed
         \/ /\ SameOutput(ch, c) /\ ("W" \in c.reg <=> "W" \in ch.reg)
            /\ c.connected = ch.connected
            /\ c.read_closed = ch.read_closed /\ c.read_paused = ch.read_paused
            /\ ListenInv /\ c.connected /\ ~c.read_paused /\ ~c.read_closed =>
                 "R" \in c.reg \/ (InMax > 0 /\ c.in > InMax)
  BY <1>1, RearmedFacts
<1>4. pc' \in {"eof", "idle"}
  BY <1>2
<1>5. Others'
  BY <1>1, <1>4 DEF Others, NoLoc
<1>6. ASSUME Ok(ch'), ch'.in = c.in, ch'.got = c.got
      PROVE  IInv'
  BY <1>1, <1>3, <1>5, <1>6, Unfold DEF InputInv
<1>7. CASE ch' = CloseInternal(c)
  <2>1. Ok(ch') /\ ch'.closed /\ Keeps(c, ch')
    BY <1>3, <1>7, CloseFacts
  <2> QED
    BY <1>6, <2>1, ClosedStall DEF Keeps
<1>8. CASE ch' = c
  <2>1. IInv'
    BY <1>3, <1>6, <1>8
  <2>2. ASSUME StallInv, ~c.closed
        PROVE  StallInv'
    <3>1. "W" \notin ch.ev
      BY <1>1, <2>2 DEF StallInv, DispatchInv
    <3>2. WatchInv'
      BY <1>1, <1>3, <1>4, <1>8, <2>2
         DEF StallInv, WatchInv, Wanted, Watched, HasPendingOutput, WriteProc, SameOutput
    <3>3. DispatchInv'
      BY <1>3, <1>8, <3>1 DEF DispatchInv
    <3>4. ListenInv'
      BY <1>3, <1>4, <1>8, <2>2 DEF StallInv, ListenInv
    <3> QED
      BY <2>1, <3>2, <3>3, <3>4 DEF StallInv
  <2> QED
    BY <1>8, <2>1, <2>2, ClosedStall DEF Keep
<1>9. CASE /\ ~c.closed /\ ~c.read_closed
           /\ ch' = IF ch.eof_cb THEN DelEvent([c EXCEPT !.read_closed = TRUE], {"R"})
                    ELSE CloseInternal(DelEvent([c EXCEPT !.read_closed = TRUE], {"R"}))
  <2> DEFINE e == [c EXCEPT !.read_closed = TRUE]
             d == DelEvent(e, {"R"})
  <2>1. /\ e \in Channel /\ SameOutput(c, e) /\ e.reg = c.reg /\ e.ev = c.ev
        /\ e.wire = c.wire /\ e.accepted = c.accepted /\ e.fd = c.fd
        /\ e.connected = c.connected /\ e.read_closed
        /\ e.in = c.in /\ e.got = c.got
    BY <1>3 DEF Ok, Channel, SameOutput
  <2> HIDE DEF e
  <2>2. Ok(e)
    BY <1>3, <1>9, <2>1 DEF Ok, ByIndex, Settled, SameOutput
  <2>3. /\ Ok(d) /\ SameOutput(e, d) /\ d.reg = e.reg \ {"R"} /\ d.ev \subseteq e.ev
    BY <2>2, DelEventFacts
  <2>4. d.in = e.in /\ d.got = e.got /\ d.read_closed
    BY <2>1, <2>2 DEF DelEvent, Ok, Channel
  <2>5. ch' = IF ch.eof_cb THEN d ELSE CloseInternal(d)
    BY <1>9 DEF e
  <2> HIDE DEF d
  <2>6. CASE ch' = CloseInternal(d)
    <3>1. Ok(ch') /\ ch'.closed /\ Keeps(d, ch')
      BY <2>3, <2>6, CloseFacts
    <3> QED
      BY <1>6, <2>1, <2>4, <3>1, ClosedStall DEF Keeps
  <2>7. CASE ch' = d
    <3>1. IInv'
      BY <1>6, <2>1, <2>3, <2>4, <2>7
    <3>2. ASSUME StallInv
          PROVE  StallInv'
      <4>1. "W" \notin ch.ev
        BY <1>1, <3>2 DEF StallInv, DispatchInv
      <4>2. SameOutput(ch, ch') /\ ("W" \in ch'.reg <=> "W" \in ch.reg)
        BY <1>3, <1>9, <2>1, <2>3, <2>7 DEF SameOutput
      <4>3. WatchInv'
        BY <1>1, <1>4, <3>2, <4>2
           DEF StallInv, WatchInv, Wanted, Watched, HasPendingOutput, WriteProc, SameOutput
      <4>4. DispatchInv'
        BY <1>3, <2>1, <2>3, <2>7, <4>1 DEF DispatchInv
      <4>5. ListenInv'
        BY <2>4, <2>7 DEF ListenInv
      <4> QED
        BY <3>1, <4>3, <4>4, <4>5 DEF StallInv
    <3> QED
      BY <3>1, <3>2 DEF Keep
  <2> QED
    BY <2>5, <2>6, <2>7
<1> QED
  BY <1>2, <1>7, <1>8, <1>9

LEMMA EofReturnsStep == IInv /\ EofReturns => Keep
<1> SUFFICES ASSUME IInv, EofReturns
             PROVE  Keep
  OBVIOUS
<1>1. /\ Ok(ch) /\ Others /\ InputInv /\ pc = "eof" /\ pc' = "idle"
      /\ ch' = FinishDeferredClose(ch) /\ net' = net /\ loc' = loc
  BY Unfold DEF EofReturns
<1>2. /\ Ok(ch') /\ Keeps(ch, ch')
      /\ \/ ch'.closed \/ ch' = ch
         \/ SameOutput(ch, ch') /\ ~HasPendingOutput(ch') /\ ch'.reg \subseteq ch.reg
  BY <1>1, FinishFacts
<1>3. IInv'
  BY <1>1, <1>2, Unfold DEF Others, InputInv, Keeps
<1>4. ASSUME StallInv, ~ch'.closed
      PROVE  StallInv'
  <2>1. "W" \notin ch.ev
    BY <1>1, <1>4 DEF StallInv, DispatchInv
  <2>2. WatchInv'
    BY <1>1, <1>2, <1>4
       DEF StallInv, WatchInv, Wanted, Watched, HasPendingOutput, WriteProc, SameOutput
  <2>3. DispatchInv'
    BY <1>2, <2>1 DEF DispatchInv, Keeps
  <2>4. ListenInv'
    BY <1>1, <1>2, <1>4 DEF StallInv, ListenInv, Keeps
  <2> QED
    BY <1>3, <2>2, <2>3, <2>4 DEF StallInv
<1> QED
  BY <1>3, <1>4, ClosedStall DEF Keep
-----------------------------------------------------------------------------
(* The peer and the kernel.                                                 *)

\* The peer changes nothing the invariants of the channel speak of.
LEMMA NetKeeps ==
  ASSUME IInv, UNCHANGED <<ch, pc, loc>>, Others', InputInv'
  PROVE  Keep
<1>1. IInv'
  BY Unfold
<1> QED
  BY <1>1 DEF Keep, StallInv, WatchInv, DispatchInv, ListenInv

LEMMA PeerSendsStep == IInv /\ PeerSends => Keep
<1> SUFFICES ASSUME IInv, NEW k \in 1..(MaxIn - net.total),
                    net' = [net EXCEPT !.avail = @ + k, !.total = @ + k],
                    UNCHANGED <<ch, pc, loc>>
             PROVE  Keep
  BY DEF PeerSends
<1>1. Ok(ch) /\ Others /\ InputInv
  BY Unfold
<1>2. /\ net.avail \in Nat /\ net.total \in 0..MaxIn /\ ch.got \in Nat /\ ch.in \in Nat /\ MaxIn \in Nat
      /\ net'.avail = net.avail + k /\ net'.total = net.total + k
      /\ net' = [net EXCEPT !.avail = net.avail + k, !.total = net.total + k]
  BY <1>1, ChannelAssumption DEF Others, Ok, Channel
<1>3. net.avail + k \in Nat /\ net.total + k \in 0..MaxIn
  BY <1>2
<1>4. Others'
  BY <1>1, <1>2, <1>3 DEF Others
<1>5. InputInv'
  BY <1>1, <1>2 DEF InputInv
<1> QED
  BY <1>4, <1>5, NetKeeps

LEMMA PeerStateStep == IInv /\ (PeerFin \/ PeerReset \/ Established) => Keep
<1> SUFFICES ASSUME IInv, PeerFin \/ PeerReset \/ Established
             PROVE  Keep
  OBVIOUS
<1>1. Ok(ch) /\ Others /\ InputInv /\ UNCHANGED <<ch, pc, loc>>
  BY Unfold DEF PeerFin, PeerReset, Established
<1>2. /\ net' \in [avail : Nat, total : 0..MaxIn, fin : BOOLEAN, err : BOOLEAN, est : BOOLEAN]
      /\ net'.avail = net.avail /\ net'.total = net.total
  <2>1. CASE PeerFin
    BY <1>1, <2>1 DEF Others, PeerFin
  <2>2. CASE PeerReset
    BY <1>1, <2>2 DEF Others, PeerReset
  <2>3. CASE Established
    BY <1>1, <2>3 DEF Others, Established
  <2> QED
    BY <2>1, <2>2, <2>3
<1> QED
  BY <1>1, <1>2, NetKeeps DEF Others, InputInv

LEMMA PeerReadsStep == IInv /\ PeerReads => Keep
<1> SUFFICES ASSUME IInv, PeerReads
             PROVE  Keep
  OBVIOUS
<1>1. /\ Ok(ch) /\ Others /\ InputInv
      /\ ch' = [ch EXCEPT !.room = SndBuf] /\ UNCHANGED <<net, pc, loc>>
  BY Unfold DEF PeerReads
<1>2. SndBuf \in 0..SndBuf
  BY ChannelAssumption
<1>3. /\ ch' \in Channel /\ SameOutput(ch, ch') /\ ch'.reg = ch.reg /\ ch'.ev = ch.ev
      /\ ch'.wire = ch.wire /\ ch'.accepted = ch.accepted /\ ch'.fd = ch.fd
      /\ ch'.connected = ch.connected
  BY <1>1, <1>2 DEF Ok, Channel, SameOutput
<1>4. /\ ch'.in = ch.in /\ ch'.got = ch.got
      /\ ch'.read_paused = ch.read_paused /\ ch'.read_closed = ch.read_closed
  BY <1>1 DEF Ok, Channel
<1>5. Ok(ch')
  BY <1>1, <1>3 DEF Ok, ByIndex, Settled, SameOutput
<1>6. IInv'
  BY <1>1, <1>4, <1>5, Unfold DEF Others, InputInv
<1>7. ASSUME StallInv
      PROVE  StallInv'
  <2>1. WatchInv'
    BY <1>1, <1>3, <1>7
       DEF StallInv, WatchInv, Wanted, Watched, HasPendingOutput, WriteProc, SameOutput
  <2>2. DispatchInv'
    BY <1>1, <1>3, <1>7 DEF StallInv, DispatchInv
  <2>3. ListenInv'
    BY <1>1, <1>3, <1>4, <1>7 DEF StallInv, ListenInv, SameOutput
  <2> QED
    BY <1>6, <2>1, <2>2, <2>3 DEF StallInv
<1> QED
  BY <1>6, <1>7 DEF Keep
-----------------------------------------------------------------------------
(* The theorems.                                                            *)

LEMMA NextKeeps == IInv /\ [Next]_vars => Keep
<1> SUFFICES ASSUME IInv, [Next]_vars
             PROVE  Keep
  OBVIOUS
<1>1. CASE App
  BY <1>1, AppStep
<1>2. CASE Loop
  BY <1>2, EventStep, WriteEventStep, ConnectEventStep, ReadEventStep, ErrorEventStep,
     ProcessInputStep, AfterInputStep, PacketReturnsStep, ConnectReturnsStep, EofReturnsStep
     DEF Loop
<1>3. CASE Peer
  BY <1>3, PeerSendsStep, PeerStateStep, PeerReadsStep DEF Peer
<1>4. CASE UNCHANGED vars
  <2>1. UNCHANGED <<ch, pc, loc>> /\ Others' /\ InputInv'
    BY <1>4, Unfold DEF vars, Others, InputInv
  <2> QED
    BY <2>1, NetKeeps
<1> QED
  BY <1>1, <1>2, <1>3, <1>4 DEF Next

LEMMA InitInv == Init => IInv /\ StallInv
<1> SUFFICES ASSUME Init
             PROVE  IInv /\ StallInv
  OBVIOUS
<1>1. PICK f \in Frames, e \in BOOLEAN, c \in BOOLEAN :
        /\ ch = [frame |-> f, eof_cb |-> e,
                 closed |-> FALSE, read_closed |-> FALSE, write_closed |-> FALSE,
                 connected |-> ~c, connect_pending |-> c, read_paused |-> FALSE,
                 close_after_flush |-> FALSE, shutdown_write_after_flush |-> FALSE,
                 out |-> <<>>, file |-> <<>>, in |-> 0,
                 fd |-> "open",
                 reg |-> IF c THEN {"W"} ELSE {"R"},
                 wproc |-> IF c THEN "connect" ELSE "write",
                 ev |-> {},
                 wire |-> <<>>, room |-> SndBuf,
                 accepted |-> 0, got |-> 0,
                 closes |-> 0]
        /\ net = [avail |-> 0, total |-> 0, fin |-> FALSE, err |-> FALSE, est |-> ~c]
  BY DEF Init
<1>2. pc = "idle" /\ loc = NoLoc
  BY DEF Init
<1>3. /\ f \in {"len", "raw"} /\ 0 \in 0..MaxIn /\ 0 \in 0..MaxOut /\ SndBuf \in 0..SndBuf
      /\ <<>> \in Seq(Nat)
  BY ChannelAssumption, EmptyBuffer
<1>4. ch \in Channel
  BY <1>1, <1>3 DEF Channel
<1>5. /\ ch.wire = <<>> /\ ch.out = <<>> /\ ch.file = <<>> /\ ch.accepted = 0
      /\ ~ch.closed /\ ch.connected = ~c /\ ch.connect_pending = c
      /\ ch.in = 0 /\ ch.got = 0 /\ ch.ev = {} /\ ch.reg = (IF c THEN {"W"} ELSE {"R"})
      /\ ch.wproc = IF c THEN "connect" ELSE "write"
      /\ net.avail = 0 /\ net.total = 0
  BY <1>1
<1>6. Ok(ch)
  <2>1. Len(ch.wire) = 0 /\ Len(ch.out) = 0 /\ Len(ch.file) = 0
    BY <1>5, EmptyBuffer
  <2>2. ByIndex(ch)
    BY <1>5, <2>1 DEF ByIndex
  <2> QED
    BY <1>4, <1>5, <2>2 DEF Ok, Settled
<1>7. Others /\ InputInv
  BY <1>1, <1>2, <1>3, <1>5 DEF Others, InputInv, NoLoc
<1>8. IInv
  BY <1>6, <1>7, Unfold
<1>9. WatchInv
  BY <1>2, <1>5 DEF WatchInv, Wanted, Watched, HasPendingOutput, WriteProc
<1>10. DispatchInv /\ ListenInv
  BY <1>2, <1>5 DEF DispatchInv, ListenInv
<1> QED
  BY <1>8, <1>9, <1>10 DEF StallInv

\* The counters, the stream, the registration and the input balance of the
\* channel agree in every reachable state.
THEOREM ChannelInvariant == Spec => []IInv
<1>1. IInv /\ [Next]_vars => IInv'
  BY NextKeeps DEF Keep
<1> QED
  BY <1>1, InitInv, PTL DEF Spec

\* Every operation keeps the channel's fields in their ranges: what is buffered
\* never exceeds what was read, nor a truncated file what was accepted.
THEOREM ChannelTypeCorrect == Spec => []TypeOK
<1>1. IInv => TypeOK
  BY DEF IInv
<1> QED
  BY <1>1, ChannelInvariant, PTL

\* However direct sends, queued sends, partial writes, files, truncation and
\* flushes are mixed, the wire carries what was accepted, in order and without
\* gaps, and what is still to go continues it.
THEOREM ChannelStreamInOrder == Spec => []StreamInOrder
<1>1. IInv => StreamInOrder
  BY DEF IInv
<1> QED
  BY <1>1, ChannelInvariant, PTL

\* While the loop waits, a channel watches its socket for exactly what it still
\* has to do, provided no file is sent before the connection is up.
THEOREM ChannelNoStall ==
  ASSUME ~EarlyFile
  PROVE  Spec => []NoStall
<1>1. StallInv /\ [Next]_vars => StallInv'
  BY NextKeeps DEF Keep, StallInv
<1>2. StallInv => NoStall
  <2> SUFFICES ASSUME StallInv, pc = "idle", ch.ev = {}
               PROVE  IF ch.closed THEN ch.reg = {} /\ ch.fd # "open"
                      ELSE /\ HasPendingOutput(ch) <=> "W" \in ch.reg
                           /\ "W" \in ch.reg => ch.wproc = WriteProc(ch)
                           /\ ch.connected /\ ~ch.read_paused /\ ~ch.read_closed =>
                                "R" \in ch.reg \/ (InMax > 0 /\ ch.in > InMax)
    BY DEF NoStall
  <2>1. Settled(ch) /\ Wanted(ch) /\ Watched(ch) /\ ListenInv
    BY DEF StallInv, IInv, WatchInv
  <2> QED
    BY <2>1 DEF Settled, Wanted, Watched, ListenInv
<1> QED
  BY <1>1, <1>2, InitInv, PTL DEF Spec

\* A closed channel does nothing any more: whatever event, callback or
\* application call was under way when it was closed.
LEMMA QuietStep ==
  ASSUME IInv, [Next]_vars, ch.closed
  PROVE  /\ ch'.closes = ch.closes /\ ch'.wire = ch.wire /\ ch'.closed
         /\ pc' \in {"packet", "connect", "eof"} => pc' = pc
<1>1. Ok(ch) /\ ch.ev = {} /\ ch.reg = {}
  BY Unfold DEF Ok, Settled
<1>2. CASE App
  BY <1>2 DEF App, Send, CanSend, SendFile, Close, CloseAfterFlush, ShutdownWriteAfterFlush,
              PauseRead, ResumeRead, ResumeInCallback, Destroy, ReleaseFd
<1>3. CASE Event
  BY <1>1, <1>3 DEF Event, Ready
<1>4. CASE WriteEvent \/ ConnectEvent \/ ReadEvent \/ ErrorEvent
  BY <1>1, <1>4 DEF WriteEvent, ConnectEvent, ReadEvent, ErrorEvent
<1>5. CASE ProcessInput
  BY <1>5 DEF ProcessInput
<1>6. CASE AfterInput
  <2>1. PICK c \in Rearmed :
          IF ~c.closed /\ loc.tail = "eof" /\ ~c.read_closed
          THEN LET d == DelEvent([c EXCEPT !.read_closed = TRUE], {"R"})
               IN /\ ch' = IF ch.eof_cb THEN d ELSE CloseInternal(d)
                  /\ pc' = IF ch.eof_cb THEN "eof" ELSE "idle"
          ELSE /\ ch' = IF loc.tail = "error" THEN CloseInternal(c) ELSE c
               /\ pc' = "idle"
    BY <1>6, Zenon DEF AfterInput
  <2>2. c = ch
    BY <1>6, RearmedFacts DEF AfterInput
  <2> QED
    BY <2>1, <2>2 DEF CloseInternal
<1>7. CASE PacketReturns
  BY <1>7 DEF PacketReturns
<1>8. CASE ConnectReturns
  <2>1. ch' \in FlushAndArm(ch, "write") /\ pc' = "idle"
    BY <1>8 DEF ConnectReturns, FlushAndArm
  <2>2. ch' = ch
    BY <1>1, <2>1, FlushAndArmFacts
  <2> QED
    BY <2>1, <2>2
<1>9. CASE EofReturns
  BY <1>9 DEF EofReturns, FinishDeferredClose
<1>10. CASE Peer
  <2>1. pc' = pc /\ (ch' = ch \/ ch' = [ch EXCEPT !.room = SndBuf])
    BY <1>10 DEF Peer, PeerSends, PeerFin, PeerReset, Established, PeerReads
  <2> QED
    BY <1>1, <2>1 DEF Ok, Channel
<1>11. CASE UNCHANGED vars
  BY <1>11 DEF vars
<1> QED
  BY <1>2, <1>3, <1>4, <1>5, <1>6, <1>7, <1>8, <1>9, <1>10, <1>11 DEF Next, Loop

\* close_cb runs at most once, and after closing nothing is sent and no callback
\* begins.
THEOREM ChannelQuietAfterClose == Spec => QuietAfterClose
<1>1. IInv /\ [Next]_vars =>
        [ch.closed => /\ ch'.closes = ch.closes /\ ch'.wire = ch.wire /\ ch'.closed
                      /\ pc' \in {"packet", "connect", "eof"} => pc' = pc]_vars
  BY QuietStep
<1> QED
  BY <1>1, ChannelInvariant, PTL DEF Spec, QuietAfterClose
=============================================================================
