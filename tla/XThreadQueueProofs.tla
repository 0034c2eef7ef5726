------------------------- MODULE XThreadQueueProofs -------------------------
(***************************************************************************)
(* TLAPS proofs about XThreadQueue, for every set of producers, every pool *)
(* and socket size, every cap and each of the three owner roles.           *)
(***************************************************************************)
EXTENDS XThreadQueue, SequenceTheorems, FiniteSetTheorems, TLAPS

(* Facts about sequences used by the steps below.                           *)

\* Head and tail of a concatenation whose left part is not empty.
LEMMA HeadTailConcat ==
  ASSUME NEW S, NEW s \in Seq(S), NEW t \in Seq(S), s # <<>>
  PROVE  /\ s \o t # <<>>
         /\ Head(s \o t) = Head(s)
         /\ Tail(s \o t) = Tail(s) \o t
  OBVIOUS

\* Moving the head of the middle part to the end of the left part.
LEMMA ShiftHead ==
  ASSUME NEW S, NEW s \in Seq(S), NEW t \in Seq(S), t # <<>>
  PROVE  Append(s, Head(t)) \o Tail(t) = s \o t
  OBVIOUS
-----------------------------------------------------------------------------
(* Type correctness.                                                        *)

\* Every step of the model preserves the type invariant.
LEMMA TypeStep == TypeOK /\ [Next]_vars => TypeOK'
<1> SUFFICES ASSUME TypeOK, [Next]_vars PROVE TypeOK'
  OBVIOUS
<1> USE QueueAssumption DEF TypeOK, qvars, wvars, cvars, pvars, hvars
<1>1. ASSUME NEW p \in Producers, PostBegin(p) PROVE TypeOK'
  <2>1. ppc' \in [Producers -> Labels]
    BY <1>1 DEF PostBegin, Goto, Labels
  <2>2. posted' \in [Producers -> 0..MaxPosts]
    BY <1>1 DEF PostBegin
  <2>3. ptask' \in [Producers -> Task]
    BY <1>1, <2>2 DEF PostBegin, Task
  <2> QED
    BY <1>1, <2>1, <2>2, <2>3 DEF PostBegin
<1>2. ASSUME NEW p \in Producers, PostCheck(p) PROVE TypeOK'
  <2>1. ppc' \in [Producers -> Labels]
    BY <1>2 DEF PostCheck, Goto, Labels
  <2>2. freelist' \subseteq Nodes
    BY <1>2 DEF PostCheck
  <2>3. ptask' \in [Producers -> Task]
    <3>1. CASE UNCHANGED ptask
      BY <3>1
    <3>2. ASSUME NEW n \in freelist, ptask' = [ptask EXCEPT ![p].node = n]
          PROVE  ptask' \in [Producers -> Task]
      <4>1. n \in Nodes /\ ptask[p] \in Task
        OBVIOUS
      <4>2. [ptask[p] EXCEPT !.node = n] \in Task
        BY <4>1 DEF Task
      <4> QED
        BY <3>2, <4>2
    <3> QED
      BY <1>2, <3>1, <3>2 DEF PostCheck
  <2> QED
    BY <1>2, <2>1, <2>2, <2>3 DEF PostCheck
<1>3. ASSUME NEW p \in Producers, PostMalloc(p) PROVE TypeOK'
  <2>1. ppc' \in [Producers -> Labels]
    BY <1>3 DEF PostMalloc, Goto, Labels
  <2> QED
    BY <1>3, <2>1 DEF PostMalloc
<1>4. ASSUME NEW p \in Producers, PostEnqueue(p) PROVE TypeOK'
  <2>1. ptask[p] \in Task
    OBVIOUS
  <2>2. queue' \in Seq(Task) /\ accepted' \in Seq(Task) /\ late' \subseteq Task
    BY <1>4, <2>1 DEF PostEnqueue
  <2>3. ppc' \in [Producers -> Labels]
    BY <1>4 DEF PostEnqueue, Goto, Labels
  <2> QED
    BY <1>4, <2>2, <2>3 DEF PostEnqueue
<1>5. ASSUME NEW p \in Producers, PostNotify(p) PROVE TypeOK'
  <2>1. ppc' \in [Producers -> Labels]
    BY <1>5 DEF PostNotify, Goto, Labels
  <2> QED
    BY <1>5, <2>1 DEF PostNotify, Signal
<1>6. ASSUME NEW p \in Producers, PostWrite(p) PROVE TypeOK'
  BY <1>6 DEF PostWrite, Goto, WriteByte, Labels
<1>7. ASSUME NEW p \in Producers, PostUseAfterFree(p) PROVE TypeOK'
  BY <1>7 DEF PostUseAfterFree, Goto, Labels
<1>8. CASE SetQueueMax
  BY <1>8 DEF SetQueueMax
<1>9. CASE WakeupInit
  BY <1>9 DEF WakeupInit, Process
<1>10. CASE LoopHead
  BY <1>10 DEF LoopHead, Process
<1>11. CASE PopAll
  BY <1>11 DEF PopAll
<1>12. CASE RunTask
  <2>1. Head(batch) \in Task /\ Tail(batch) \in Seq(Task)
    BY <1>12 DEF RunTask
  <2>2. retired' \subseteq Nodes
    BY <1>12, <2>1 DEF RunTask, Task
  <2>3. expired' \subseteq Task /\ done' \in Seq(Task)
    BY <1>12, <2>1 DEF RunTask
  <2> QED
    BY <1>12, <2>1, <2>2, <2>3 DEF RunTask
<1>13. CASE ReturnNodes
  BY <1>13 DEF ReturnNodes
<1>14. CASE CheckEmpty
  BY <1>14 DEF CheckEmpty
<1>15. CASE EnterWait
  BY <1>15 DEF EnterWait
<1>16. CASE PollWake
  BY <1>16 DEF PollWake, Process
<1>17. CASE Uninit
  <2>1. pipe' \in 0..PipeCap
    BY <1>17 DEF Uninit
  <2>2. armed' \in BOOLEAN /\ cpc' = "stopped"
    BY <1>17 DEF Uninit
  <2> QED
    BY <1>17, <2>1, <2>2 DEF Uninit
<1>18. CASE WaitEnds
  BY <1>18 DEF WaitEnds
<1>19. CASE PollReturns
  BY <1>19 DEF PollReturns
<1>20. CASE Unregister
  BY <1>20 DEF Unregister
<1>21. CASE UnregisterNotify
  BY <1>21 DEF UnregisterNotify, Signal
<1>22. CASE UnregisterWrite
  BY <1>22 DEF UnregisterWrite, WriteByte
<1>23. CASE Destroy
  BY <1>23 DEF Destroy
<1>24. CASE UNCHANGED vars
  BY <1>24 DEF vars
<1> QED
  BY <1>1, <1>2, <1>3, <1>4, <1>5, <1>6, <1>7, <1>8, <1>9, <1>10, <1>11, <1>12, <1>13, <1>14, <1>15, <1>16, <1>17, <1>18, <1>19, <1>20, <1>21, <1>22, <1>23, <1>24
  DEF Next, ProducerStep, OwnerStep, UnregisterStep

-----------------------------------------------------------------------------
(* The parts of the inductive invariant, one at a time.                     *)

\* Where the owner is when the notification socket exists.
LEMMA ArmedStep == TypeOK /\ ArmedInv /\ StopInv /\ [Next]_vars => ArmedInv'
<1> SUFFICES ASSUME TypeOK, ArmedInv, StopInv, [Next]_vars PROVE ArmedInv'
  OBVIOUS
<1> USE QueueAssumption DEF TypeOK, ArmedInv, StopInv, Leaving, qvars, wvars, cvars, pvars, hvars
<1>1. ASSUME NEW p \in Producers, PostBegin(p) PROVE ArmedInv'
  BY <1>1 DEF PostBegin, Goto
<1>2. ASSUME NEW p \in Producers, PostCheck(p) PROVE ArmedInv'
  BY <1>2 DEF PostCheck, Goto, Full
<1>3. ASSUME NEW p \in Producers, PostMalloc(p) PROVE ArmedInv'
  BY <1>3 DEF PostMalloc, Goto
<1>4. ASSUME NEW p \in Producers, PostEnqueue(p) PROVE ArmedInv'
  BY <1>4 DEF PostEnqueue, Goto
<1>5. ASSUME NEW p \in Producers, PostNotify(p) PROVE ArmedInv'
  BY <1>5 DEF PostNotify, Goto, Signal
<1>6. ASSUME NEW p \in Producers, PostWrite(p) PROVE ArmedInv'
  BY <1>6 DEF PostWrite, Goto, WriteByte
<1>7. ASSUME NEW p \in Producers, PostUseAfterFree(p) PROVE ArmedInv'
  BY <1>7 DEF PostUseAfterFree, Goto
<1>8. CASE SetQueueMax
  BY <1>8 DEF SetQueueMax
<1>9. CASE WakeupInit
  BY <1>9 DEF WakeupInit, Process
<1>10. CASE LoopHead
  BY <1>10 DEF LoopHead, Process
<1>11. CASE PopAll
  BY <1>11 DEF PopAll
<1>12. CASE RunTask
  BY <1>12 DEF RunTask
<1>13. CASE ReturnNodes
  BY <1>13 DEF ReturnNodes
<1>14. CASE CheckEmpty
  BY <1>14 DEF CheckEmpty
<1>15. CASE EnterWait
  BY <1>15 DEF EnterWait
<1>16. CASE PollWake
  BY <1>16 DEF PollWake, Process
<1>17. CASE Uninit
  BY <1>17 DEF Uninit
<1>18. CASE WaitEnds
  BY <1>18 DEF WaitEnds
<1>19. CASE PollReturns
  BY <1>19 DEF PollReturns
<1>20. CASE Unregister
  BY <1>20 DEF Unregister
<1>21. CASE UnregisterNotify
  BY <1>21 DEF UnregisterNotify, Signal
<1>22. CASE UnregisterWrite
  BY <1>22 DEF UnregisterWrite, WriteByte
<1>23. CASE Destroy
  BY <1>23 DEF Destroy
<1>24. CASE UNCHANGED vars
  BY <1>24 DEF vars
<1> QED
  BY <1>1, <1>2, <1>3, <1>4, <1>5, <1>6, <1>7, <1>8, <1>9, <1>10, <1>11, <1>12, <1>13, <1>14, <1>15, <1>16, <1>17, <1>18, <1>19, <1>20, <1>21, <1>22, <1>23, <1>24
  DEF Next, ProducerStep, OwnerStep, UnregisterStep

\* A claimed notification stays on its way.
LEMMA PendingStep == TypeOK /\ ArmedInv /\ PendingInv /\ StopInv /\ [Next]_vars => PendingInv'
<1> SUFFICES ASSUME TypeOK, ArmedInv, PendingInv, StopInv, [Next]_vars PROVE PendingInv'
  OBVIOUS
<1> USE QueueAssumption DEF TypeOK, Labels, ArmedInv, PendingInv, StopInv, qvars, wvars, cvars, pvars, hvars
<1>1. ASSUME NEW p \in Producers, PostBegin(p) PROVE PendingInv'
  BY <1>1 DEF PostBegin, Goto
<1>2. ASSUME NEW p \in Producers, PostCheck(p) PROVE PendingInv'
  BY <1>2 DEF PostCheck, Goto, Full
<1>3. ASSUME NEW p \in Producers, PostMalloc(p) PROVE PendingInv'
  BY <1>3 DEF PostMalloc, Goto
<1>4. ASSUME NEW p \in Producers, PostEnqueue(p) PROVE PendingInv'
  BY <1>4 DEF PostEnqueue, Goto
<1>5. ASSUME NEW p \in Producers, PostNotify(p) PROVE PendingInv'
  BY <1>5 DEF PostNotify, Goto, Signal
<1>6. ASSUME NEW p \in Producers, PostWrite(p) PROVE PendingInv'
  BY <1>6 DEF PostWrite, Goto, WriteByte
<1>7. ASSUME NEW p \in Producers, PostUseAfterFree(p) PROVE PendingInv'
  BY <1>7 DEF PostUseAfterFree, Goto
<1>8. CASE SetQueueMax
  BY <1>8 DEF SetQueueMax
<1>9. CASE WakeupInit
  BY <1>9 DEF WakeupInit, Process
<1>10. CASE LoopHead
  BY <1>10 DEF LoopHead, Process
<1>11. CASE PopAll
  BY <1>11 DEF PopAll
<1>12. CASE RunTask
  BY <1>12 DEF RunTask
<1>13. CASE ReturnNodes
  BY <1>13 DEF ReturnNodes
<1>14. CASE CheckEmpty
  BY <1>14 DEF CheckEmpty
<1>15. CASE EnterWait
  BY <1>15 DEF EnterWait
<1>16. CASE PollWake
  BY <1>16 DEF PollWake, Process
<1>17. CASE Uninit
  BY <1>17 DEF Uninit
<1>18. CASE WaitEnds
  BY <1>18 DEF WaitEnds
<1>19. CASE PollReturns
  BY <1>19 DEF PollReturns
<1>20. CASE Unregister
  BY <1>20 DEF Unregister
<1>21. CASE UnregisterNotify
  BY <1>21 DEF UnregisterNotify, Signal
<1>22. CASE UnregisterWrite
  BY <1>22 DEF UnregisterWrite, WriteByte
<1>23. CASE Destroy
  BY <1>23 DEF Destroy
<1>24. CASE UNCHANGED vars
  BY <1>24 DEF vars
<1> QED
  BY <1>1, <1>2, <1>3, <1>4, <1>5, <1>6, <1>7, <1>8, <1>9, <1>10, <1>11, <1>12, <1>13, <1>14, <1>15, <1>16, <1>17, <1>18, <1>19, <1>20, <1>21, <1>22, <1>23, <1>24
  DEF Next, ProducerStep, OwnerStep, UnregisterStep

\* The stop request is never missed and nothing accepted before it is left behind.
LEMMA StopStep == TypeOK /\ ArmedInv /\ StopInv /\ [Next]_vars => StopInv'
<1> SUFFICES ASSUME TypeOK, ArmedInv, StopInv, [Next]_vars PROVE StopInv'
  OBVIOUS
<1> USE QueueAssumption DEF TypeOK, ArmedInv, StopInv, Sleeping, Leaving, qvars, wvars, cvars, pvars, hvars
<1>1. ASSUME NEW p \in Producers, PostBegin(p) PROVE StopInv'
  BY <1>1 DEF PostBegin, Goto
<1>2. ASSUME NEW p \in Producers, PostCheck(p) PROVE StopInv'
  BY <1>2 DEF PostCheck, Goto, Full
<1>3. ASSUME NEW p \in Producers, PostMalloc(p) PROVE StopInv'
  BY <1>3 DEF PostMalloc, Goto
<1>4. ASSUME NEW p \in Producers, PostEnqueue(p) PROVE StopInv'
  BY SMTT(30), <1>4 DEF PostEnqueue, Goto
<1>5. ASSUME NEW p \in Producers, PostNotify(p) PROVE StopInv'
  BY <1>5 DEF PostNotify, Goto, Signal
<1>6. ASSUME NEW p \in Producers, PostWrite(p) PROVE StopInv'
  BY <1>6 DEF PostWrite, Goto, WriteByte
<1>7. ASSUME NEW p \in Producers, PostUseAfterFree(p) PROVE StopInv'
  BY <1>7 DEF PostUseAfterFree, Goto
<1>8. CASE SetQueueMax
  BY <1>8 DEF SetQueueMax
<1>9. CASE WakeupInit
  BY <1>9 DEF WakeupInit, Process
<1>10. CASE LoopHead
  BY <1>10 DEF LoopHead, Process
<1>11. CASE PopAll
  BY <1>11 DEF PopAll
<1>12. CASE RunTask
  BY <1>12 DEF RunTask
<1>13. CASE ReturnNodes
  BY <1>13 DEF ReturnNodes
<1>14. CASE CheckEmpty
  BY <1>14 DEF CheckEmpty
<1>15. CASE EnterWait
  BY <1>15 DEF EnterWait
<1>16. CASE PollWake
  BY <1>16 DEF PollWake, Process
<1>17. CASE Uninit
  BY <1>17 DEF Uninit
<1>18. CASE WaitEnds
  BY <1>18 DEF WaitEnds
<1>19. CASE PollReturns
  BY <1>19 DEF PollReturns
<1>20. CASE Unregister
  BY <1>20 DEF Unregister
<1>21. CASE UnregisterNotify
  BY <1>21 DEF UnregisterNotify, Signal
<1>22. CASE UnregisterWrite
  BY <1>22 DEF UnregisterWrite, WriteByte
<1>23. CASE Destroy
  BY <1>23 DEF Destroy
<1>24. CASE UNCHANGED vars
  BY <1>24 DEF vars
<1> QED
  BY <1>1, <1>2, <1>3, <1>4, <1>5, <1>6, <1>7, <1>8, <1>9, <1>10, <1>11, <1>12, <1>13, <1>14, <1>15, <1>16, <1>17, <1>18, <1>19, <1>20, <1>21, <1>22, <1>23, <1>24
  DEF Next, ProducerStep, OwnerStep, UnregisterStep

\* Every step moves a task only from the front of one stage (queue, batch) to the
\* end of the next, so the order of acceptance is kept.
LEMMA OrderStep == TypeOK /\ StopInv /\ TasksInOrder /\ [Next]_vars => TasksInOrder'
<1> SUFFICES ASSUME TypeOK, StopInv, TasksInOrder, [Next]_vars PROVE TasksInOrder'
  OBVIOUS
<1> USE QueueAssumption DEF TypeOK, StopInv, TasksInOrder, qvars, wvars, cvars, pvars, hvars
<1>1. ASSUME NEW p \in Producers, PostBegin(p) PROVE TasksInOrder'
  BY <1>1 DEF PostBegin, Goto
<1>2. ASSUME NEW p \in Producers, PostCheck(p) PROVE TasksInOrder'
  BY <1>2 DEF PostCheck, Goto, Full
<1>3. ASSUME NEW p \in Producers, PostMalloc(p) PROVE TasksInOrder'
  BY <1>3 DEF PostMalloc, Goto
<1>4. ASSUME NEW p \in Producers, PostEnqueue(p) PROVE TasksInOrder'
  <2> DEFINE t == ptask[p]
             front == done \o lost \o batch
  <2>1. t \in Task /\ front \in Seq(Task) /\ queue \in Seq(Task) /\ accepted = front \o queue
    OBVIOUS
  <2>2. front \o Append(queue, t) = Append(front \o queue, t)
    <3> HIDE DEF t, front
    <3> QED
      BY ONLY <2>1
  <2> QED
    BY <1>4, <2>1, <2>2 DEF PostEnqueue
<1>5. ASSUME NEW p \in Producers, PostNotify(p) PROVE TasksInOrder'
  BY <1>5 DEF PostNotify, Goto, Signal
<1>6. ASSUME NEW p \in Producers, PostWrite(p) PROVE TasksInOrder'
  BY <1>6 DEF PostWrite, Goto, WriteByte
<1>7. ASSUME NEW p \in Producers, PostUseAfterFree(p) PROVE TasksInOrder'
  BY <1>7 DEF PostUseAfterFree, Goto
<1>8. CASE SetQueueMax
  BY <1>8 DEF SetQueueMax
<1>9. CASE WakeupInit
  BY <1>9 DEF WakeupInit, Process
<1>10. CASE LoopHead
  BY <1>10 DEF LoopHead, Process
<1>11. CASE PopAll
  BY <1>11 DEF PopAll
<1>12. CASE RunTask
  <2>1. lost = <<>>
    BY <1>12 DEF RunTask
  <2>2. accepted = done \o batch \o queue
    BY <2>1
  <2>3. Append(done, Head(batch)) \o Tail(batch) = done \o batch
    <3>1. done \in Seq(Task) /\ batch \in Seq(Task) /\ batch # <<>>
      BY <1>12 DEF RunTask
    <3> HIDE DEF TypeOK, TasksInOrder, StopInv, Sleeping, Leaving
    <3> QED
      BY <3>1, ShiftHead, ZenonT(30)
  <2>4. /\ Append(done, Head(batch)) \in Seq(Task)
        /\ Append(done, Head(batch)) \o <<>> = Append(done, Head(batch))
    BY <1>12 DEF RunTask
  <2> QED
    BY <1>12, <2>1, <2>2, <2>3, <2>4 DEF RunTask
<1>13. CASE ReturnNodes
  BY <1>13 DEF ReturnNodes
<1>14. CASE CheckEmpty
  BY <1>14 DEF CheckEmpty
<1>15. CASE EnterWait
  BY <1>15 DEF EnterWait
<1>16. CASE PollWake
  BY <1>16 DEF PollWake, Process
<1>17. CASE Uninit
  BY <1>17 DEF Uninit
<1>18. CASE WaitEnds
  BY <1>18 DEF WaitEnds
<1>19. CASE PollReturns
  BY <1>19 DEF PollReturns
<1>20. CASE Unregister
  BY <1>20 DEF Unregister
<1>21. CASE UnregisterNotify
  BY <1>21 DEF UnregisterNotify, Signal
<1>22. CASE UnregisterWrite
  BY <1>22 DEF UnregisterWrite, WriteByte
<1>23. CASE Destroy
  BY <1>23 DEF Destroy
<1>24. CASE UNCHANGED vars
  BY <1>24 DEF vars
<1> QED
  BY <1>1, <1>2, <1>3, <1>4, <1>5, <1>6, <1>7, <1>8, <1>9, <1>10, <1>11, <1>12, <1>13, <1>14, <1>15, <1>16, <1>17, <1>18, <1>19, <1>20, <1>21, <1>22, <1>23, <1>24
  DEF Next, ProducerStep, OwnerStep, UnregisterStep

\* Only Destroy discards tasks, and what it finds was accepted after the stop.
LEMMA LateStep == TypeOK /\ StopInv /\ OnlyLateTasksLost /\ [Next]_vars => OnlyLateTasksLost'
<1> SUFFICES ASSUME TypeOK, StopInv, OnlyLateTasksLost, [Next]_vars PROVE OnlyLateTasksLost'
  OBVIOUS
<1> USE QueueAssumption DEF TypeOK, StopInv, Leaving, OnlyLateTasksLost, qvars, wvars, cvars, pvars, hvars
<1>1. ASSUME NEW p \in Producers, PostBegin(p) PROVE OnlyLateTasksLost'
  BY <1>1 DEF PostBegin, Goto
<1>2. ASSUME NEW p \in Producers, PostCheck(p) PROVE OnlyLateTasksLost'
  BY <1>2 DEF PostCheck, Goto, Full
<1>3. ASSUME NEW p \in Producers, PostMalloc(p) PROVE OnlyLateTasksLost'
  BY <1>3 DEF PostMalloc, Goto
<1>4. ASSUME NEW p \in Producers, PostEnqueue(p) PROVE OnlyLateTasksLost'
  BY <1>4 DEF PostEnqueue, Goto
<1>5. ASSUME NEW p \in Producers, PostNotify(p) PROVE OnlyLateTasksLost'
  BY <1>5 DEF PostNotify, Goto, Signal
<1>6. ASSUME NEW p \in Producers, PostWrite(p) PROVE OnlyLateTasksLost'
  BY <1>6 DEF PostWrite, Goto, WriteByte
<1>7. ASSUME NEW p \in Producers, PostUseAfterFree(p) PROVE OnlyLateTasksLost'
  BY <1>7 DEF PostUseAfterFree, Goto
<1>8. CASE SetQueueMax
  BY <1>8 DEF SetQueueMax
<1>9. CASE WakeupInit
  BY <1>9 DEF WakeupInit, Process
<1>10. CASE LoopHead
  BY <1>10 DEF LoopHead, Process
<1>11. CASE PopAll
  BY <1>11 DEF PopAll
<1>12. CASE RunTask
  BY <1>12 DEF RunTask
<1>13. CASE ReturnNodes
  BY <1>13 DEF ReturnNodes
<1>14. CASE CheckEmpty
  BY <1>14 DEF CheckEmpty
<1>15. CASE EnterWait
  BY <1>15 DEF EnterWait
<1>16. CASE PollWake
  BY <1>16 DEF PollWake, Process
<1>17. CASE Uninit
  BY <1>17 DEF Uninit
<1>18. CASE WaitEnds
  BY <1>18 DEF WaitEnds
<1>19. CASE PollReturns
  BY <1>19 DEF PollReturns
<1>20. CASE Unregister
  BY <1>20 DEF Unregister
<1>21. CASE UnregisterNotify
  BY <1>21 DEF UnregisterNotify, Signal
<1>22. CASE UnregisterWrite
  BY <1>22 DEF UnregisterWrite, WriteByte
<1>23. CASE Destroy
  BY <1>23 DEF Destroy
<1>24. CASE UNCHANGED vars
  BY <1>24 DEF vars
<1> QED
  BY <1>1, <1>2, <1>3, <1>4, <1>5, <1>6, <1>7, <1>8, <1>9, <1>10, <1>11, <1>12, <1>13, <1>14, <1>15, <1>16, <1>17, <1>18, <1>19, <1>20, <1>21, <1>22, <1>23, <1>24
  DEF Next, ProducerStep, OwnerStep, UnregisterStep

-----------------------------------------------------------------------------
\* The initial states satisfy every part of the inductive invariant.
LEMMA InitIInv == Init => IInv
<1> SUFFICES ASSUME Init PROVE IInv
  OBVIOUS
<1> USE QueueAssumption DEF Init
<1>1. TypeOK
  <2>1. ptask \in [Producers -> Task]
    BY DEF Task
  <2>2. ppc \in [Producers -> Labels] /\ posted \in [Producers -> 0..MaxPosts]
    BY DEF Labels
  <2>3. /\ queue \in Seq(Task) /\ batch \in Seq(Task)
        /\ accepted \in Seq(Task) /\ done \in Seq(Task) /\ lost \in Seq(Task)
    OBVIOUS
  <2>4. pipe \in 0..PipeCap
    OBVIOUS
  <2> QED
    BY <2>1, <2>2, <2>3, <2>4 DEF TypeOK
<1>2. ArmedInv /\ PendingInv
  BY DEF ArmedInv, PendingInv
<1>3. StopInv
  BY DEF StopInv, Sleeping, Leaving
<1>4. TasksInOrder /\ OnlyLateTasksLost
  BY DEF TasksInOrder, OnlyLateTasksLost
<1> QED
  BY <1>1, <1>2, <1>3, <1>4 DEF IInv

\* Every step preserves it.
LEMMA StepIInv == IInv /\ [Next]_vars => IInv'
  BY TypeStep, ArmedStep, PendingStep, StopStep, OrderStep, LateStep DEF IInv

\* IInv holds in every reachable state of one registered thread.
THEOREM InductiveInvariant == Spec => []IInv
  BY InitIInv, StepIInv, PTL DEF Spec

\* The types of the queue, the owner and the posting threads are respected by
\* every operation of xthread.c's mutex queue.
THEOREM TypeCorrect == Spec => []TypeOK
<1>1. IInv => TypeOK
  BY DEF IInv
<1> QED
  BY <1>1, InductiveInvariant, PTL

\* No task is ever stranded: the owner does not sleep in xpoll_poll on a
\* non-empty queue unless its wakeup is in the socket or about to be written.
THEOREM LostWakeupFree == Spec => []NoLostWakeup
<1>1. IInv => NoLostWakeup
  BY DEF IInv, TypeOK, ArmedInv, PendingInv, NoLostWakeup
<1> QED
  BY <1>1, InductiveInvariant, PTL

\* xthread_unregister never waits for a worker that sleeps unaware of the stop.
THEOREM LostStopFree == Spec => []NoLostStop
<1>1. IInv => NoLostStop
  BY DEF IInv, TypeOK, StopInv, Sleeping, NoLostStop
<1> QED
  BY <1>1, InductiveInvariant, PTL

\* Accepted tasks are taken once and in order, or freed when the thread is.
THEOREM OrderKept == Spec => []TasksInOrder
<1>1. IInv => TasksInOrder
  BY DEF IInv
<1> QED
  BY <1>1, InductiveInvariant, PTL

\* Only tasks accepted after the stop request can be freed unrun.
THEOREM EarlyTasksRun == Spec => []OnlyLateTasksLost
<1>1. IInv => OnlyLateTasksLost
  BY DEF IInv
<1> QED
  BY <1>1, InductiveInvariant, PTL

-----------------------------------------------------------------------------
(* Refinement: the thread implements the mailbox of TaskMailbox.            *)

\* Every step of the thread is a step of the mailbox or leaves it alone.
LEMMA MailboxStep == IInv /\ [Next]_vars => [Mailbox!Next]_(Mailbox!vars)
<1> SUFFICES ASSUME IInv, [Next]_vars PROVE [Mailbox!Next]_(Mailbox!vars)
  OBVIOUS
<1> USE DEF IInv, TypeOK, StopInv, qvars, wvars, cvars, pvars, hvars
<1>1. ASSUME NEW p \in Producers, PostBegin(p) PROVE [Mailbox!Next]_(Mailbox!vars)
  BY <1>1 DEF PostBegin, Mailbox!vars
<1>2. ASSUME NEW p \in Producers, PostCheck(p) PROVE [Mailbox!Next]_(Mailbox!vars)
  BY <1>2 DEF PostCheck, Mailbox!vars
<1>3. ASSUME NEW p \in Producers, PostMalloc(p) PROVE [Mailbox!Next]_(Mailbox!vars)
  BY <1>3 DEF PostMalloc, Mailbox!vars
<1>4. ASSUME NEW p \in Producers, PostEnqueue(p) PROVE [Mailbox!Next]_(Mailbox!vars)
  <2>1. ptask[p] \in Task /\ batch \in Seq(Task) /\ queue \in Seq(Task)
    OBVIOUS
  <2>2. batch \o Append(queue, ptask[p]) = Append(batch \o queue, ptask[p])
    BY ONLY <2>1
  <2>3. Mailbox!Send(ptask[p])
    BY <1>4, <2>2 DEF PostEnqueue, Mailbox!Send
  <2> QED
    BY <2>1, <2>3 DEF Mailbox!Next
<1>5. ASSUME NEW p \in Producers, PostNotify(p) PROVE [Mailbox!Next]_(Mailbox!vars)
  BY <1>5 DEF PostNotify, Mailbox!vars
<1>6. ASSUME NEW p \in Producers, PostWrite(p) PROVE [Mailbox!Next]_(Mailbox!vars)
  BY <1>6 DEF PostWrite, Mailbox!vars
<1>7. ASSUME NEW p \in Producers, PostUseAfterFree(p) PROVE [Mailbox!Next]_(Mailbox!vars)
  BY <1>7 DEF PostUseAfterFree, Mailbox!vars
<1>8. CASE SetQueueMax
  BY <1>8 DEF SetQueueMax, Mailbox!vars
<1>9. CASE WakeupInit
  BY <1>9 DEF WakeupInit, Mailbox!vars
<1>10. CASE LoopHead
  BY <1>10 DEF LoopHead, Mailbox!vars
<1>11. CASE PopAll
  <2>1. batch = <<>>
    BY <1>11 DEF PopAll
  <2>2. queue \o <<>> = <<>> \o queue
    OBVIOUS
  <2> QED
    BY <1>11, <2>1, <2>2 DEF PopAll, Mailbox!vars
<1>12. CASE RunTask
  <2>1. /\ batch \o queue # <<>>
        /\ Head(batch \o queue) = Head(batch)
        /\ Tail(batch \o queue) = Tail(batch) \o queue
    BY <1>12, HeadTailConcat DEF RunTask
  <2>2. Mailbox!Deliver
    BY <1>12, <2>1 DEF RunTask, Mailbox!Deliver
  <2> QED
    BY <2>2 DEF Mailbox!Next
<1>13. CASE ReturnNodes
  BY <1>13 DEF ReturnNodes, Mailbox!vars
<1>14. CASE CheckEmpty
  BY <1>14 DEF CheckEmpty, Mailbox!vars
<1>15. CASE EnterWait
  BY <1>15 DEF EnterWait, Mailbox!vars
<1>16. CASE PollWake
  BY <1>16 DEF PollWake, Mailbox!vars
<1>17. CASE Uninit
  BY <1>17 DEF Uninit, Mailbox!vars
<1>18. CASE WaitEnds
  BY <1>18 DEF WaitEnds, Mailbox!vars
<1>19. CASE PollReturns
  BY <1>19 DEF PollReturns, Mailbox!vars
<1>20. CASE Unregister
  BY <1>20 DEF Unregister, Mailbox!vars
<1>21. CASE UnregisterNotify
  BY <1>21 DEF UnregisterNotify, Mailbox!vars
<1>22. CASE UnregisterWrite
  BY <1>22 DEF UnregisterWrite, Mailbox!vars
<1>23. CASE Destroy
  <2>1. batch = <<>> /\ <<>> \o queue = queue
    BY <1>23 DEF Destroy
  <2>2. batch' \o queue' = <<>>
    BY <1>23, <2>1 DEF Destroy, cvars
  <2>3. Mailbox!Discard
    BY <1>23, <2>1, <2>2 DEF Destroy, Mailbox!Discard
  <2> QED
    BY <2>3 DEF Mailbox!Next
<1>24. CASE UNCHANGED vars
  BY <1>24 DEF vars, Mailbox!vars
<1> QED
  BY <1>1, <1>2, <1>3, <1>4, <1>5, <1>6, <1>7, <1>8, <1>9, <1>10, <1>11, <1>12, <1>13, <1>14, <1>15, <1>16, <1>17, <1>18, <1>19, <1>20, <1>21, <1>22, <1>23, <1>24
  DEF Next, ProducerStep, OwnerStep, UnregisterStep

\* The mutex queue with its wakeup and shutdown implements the mailbox that
\* xthread.h promises: accepted tasks are delivered once and in order, and only
\* the destruction of the thread discards any.
THEOREM ImplementsMailbox == Spec => MailboxSpec
<1>1. Init => Mailbox!Init
  BY DEF Init, Mailbox!Init
<1>2. IInv /\ [Next]_vars => [Mailbox!Next]_(Mailbox!vars)
  BY MailboxStep
<1> QED
  BY <1>1, <1>2, InductiveInvariant, PTL DEF Spec, MailboxSpec, Mailbox!Spec
-----------------------------------------------------------------------------
(* The slab of nodes: every pool node is in one place.                      *)

\* The part of PoolInv about the nodes that no producer has taken yet.
UnfilledInv == \A p \in Producers : ppc[p] \in {"check", "malloc"} => ptask[p].node = Heap

\* A step that moves no node keeps every node where it is.
LEMMA PoolFrame ==
  ASSUME PoolInv, UNCHANGED <<freelist, retired, batch, queue>>,
         upc' # "freed" => upc # "freed", UnfilledInv',
         \A p \in Producers, n \in Nodes : Filling(p, n)' <=> Filling(p, n)
  PROVE  PoolInv'
<1> SUFFICES ASSUME upc # "freed", NEW n \in Nodes PROVE HeldOnce(n)'
  BY Zenon DEF PoolInv, UnfilledInv
<1>1. HeldOnce(n)
  BY DEF PoolInv
<1>2. \A p \in Producers : Filling(p, n)' <=> Filling(p, n)
  OBVIOUS
<1> HIDE DEF Filling
<1> QED
  BY <1>1, <1>2 DEF HeldOnce

\* So does one that only moves a producer which carries no pool node.
LEMMA PoolFrameProducer ==
  ASSUME TypeOK, PoolInv, UNCHANGED <<freelist, retired, batch, queue, upc>>,
         NEW p \in Producers,
         \A q \in Producers \ {p} : ppc'[q] = ppc[q] /\ ptask'[q] = ptask[q],
         ppc'[p] \in {"check", "malloc", "enqueue"} => ptask'[p].node = Heap,
         ppc[p] = "enqueue" => ptask[p].node = Heap
  PROVE  PoolInv'
<1>1. UnfilledInv'
  BY DEF UnfilledInv, PoolInv
<1>2. ASSUME NEW q \in Producers, NEW n \in Nodes PROVE Filling(q, n)' <=> Filling(q, n)
  <2>1. n # Heap
    BY QueueAssumption
  <2>2. CASE q = p
    BY <2>1, <2>2 DEF Filling
  <2>3. CASE q # p
    BY <2>3 DEF Filling
  <2> QED
    BY <2>2, <2>3
<1> QED
  BY <1>1, <1>2, PoolFrame

\* A producer takes a node off the freelist.
LEMMA PoolTake ==
  ASSUME TypeOK, PoolInv, upc # "freed", UNCHANGED <<retired, batch, queue, upc>>,
         NEW p \in Producers, NEW f \in freelist, ppc[p] = "check",
         freelist' = freelist \ {f},
         ptask' = [ptask EXCEPT ![p].node = f], Goto(p, "enqueue")
  PROVE  PoolInv'
<1>1. f \in Nodes /\ f # Heap
  BY QueueAssumption DEF TypeOK
<1>2. /\ ppc'[p] = "enqueue" /\ ptask'[p].node = f
      /\ \A q \in Producers \ {p} : ppc'[q] = ppc[q] /\ ptask'[q] = ptask[q]
  <2>1. ptask[p] \in Task
    BY DEF TypeOK
  <2>2. ptask'[p] = [ptask[p] EXCEPT !.node = f]
    BY DEF TypeOK
  <2> QED
    BY <2>1, <2>2 DEF TypeOK, Goto, Task
<1>3. UnfilledInv'
  BY <1>2 DEF UnfilledInv, PoolInv
<1>4. ASSUME NEW n \in Nodes PROVE HeldOnce(n)'
  <2>1. HeldOnce(n) /\ HeldOnce(f)
    BY <1>1 DEF PoolInv
  <2>2. \A q \in Producers : Filling(q, n)' <=> Filling(q, n) \/ (q = p /\ n = f)
    <3>1. ~Filling(p, n)
      BY DEF Filling
    <3>2. Filling(p, n)' <=> n = f
      BY <1>2 DEF Filling
    <3>3. \A q \in Producers \ {p} : Filling(q, n)' <=> Filling(q, n)
      BY <1>2 DEF Filling
    <3> QED
      BY <3>1, <3>2, <3>3
  <2>3. CASE n = f
    BY <2>1, <2>2, <2>3 DEF HeldOnce
  <2>4. CASE n # f
    BY <2>1, <2>2, <2>4 DEF HeldOnce
  <2> QED
    BY <2>3, <2>4
<1> QED
  BY <1>3, <1>4, Zenon DEF PoolInv, UnfilledInv

\* A producer links its node at the tail of the queue.
LEMMA PoolLink ==
  ASSUME TypeOK, PoolInv, upc # "freed", UNCHANGED <<freelist, retired, batch, ptask, upc>>,
         NEW p \in Producers, ppc[p] = "enqueue",
         NEW l \in {"idle", "notify"}, Goto(p, l),
         queue' = Append(queue, ptask[p])
  PROVE  PoolInv'
<1> DEFINE len == Len(queue)
<1>1. /\ len \in Nat /\ len + 1 \notin DOMAIN queue
      /\ DOMAIN queue' = DOMAIN queue \cup {len + 1}
      /\ queue'[len + 1] = ptask[p]
      /\ \A i \in DOMAIN queue : queue'[i] = queue[i]
  BY DEF TypeOK
<1> HIDE DEF len
<1>2. /\ ppc'[p] = l
      /\ \A q \in Producers \ {p} : ppc'[q] = ppc[q]
  BY DEF TypeOK, Goto
<1>3. UnfilledInv'
  BY <1>2 DEF UnfilledInv, PoolInv
<1>4. ASSUME NEW n \in Nodes PROVE HeldOnce(n)'
  <2>1. HeldOnce(n)
    BY DEF PoolInv
  <2>2. \A q \in Producers : Filling(q, n)' <=> Filling(q, n) /\ q # p
    BY <1>2 DEF Filling
  <2>3. Filling(p, n) <=> ptask[p].node = n
    BY DEF Filling
  <2>4. CASE ptask[p].node = n
    <3>1. \A i \in DOMAIN queue : queue[i].node # n
      BY <2>1, <2>3, <2>4 DEF HeldOnce
    <3>2. \A i \in DOMAIN queue' : queue'[i].node = n <=> i = len + 1
      BY <1>1, <2>4, <3>1
    <3>3. /\ n \notin freelist /\ n \notin retired
          /\ \A q \in Producers : Filling(q, n) => q = p
          /\ \A i \in DOMAIN batch : batch[i].node # n
      BY <2>1, <2>3, <2>4 DEF HeldOnce
    <3>4. \E i \in DOMAIN queue' : queue'[i].node = n
      BY <1>1, <3>2
    <3> HIDE DEF Filling
    <3> QED
      BY <2>2, <3>2, <3>3, <3>4 DEF HeldOnce
  <2>5. CASE ptask[p].node # n
    <3>1. \A q \in Producers : Filling(q, n)' <=> Filling(q, n)
      BY <2>2, <2>3, <2>5
    <3>2. \A i \in DOMAIN queue' : queue'[i].node = n <=> i \in DOMAIN queue /\ queue[i].node = n
      BY <1>1, <2>5
    <3>3. DOMAIN queue \subseteq DOMAIN queue'
      BY <1>1
    <3> QED
      BY <2>1, <3>1, <3>2, <3>3 DEF HeldOnce
  <2> QED
    BY <2>4, <2>5
<1> QED
  BY <1>3, <1>4, Zenon DEF PoolInv, UnfilledInv

\* The owner takes the whole queue as its batch.
LEMMA PoolPop == TypeOK /\ StopInv /\ PoolInv /\ PopAll => PoolInv'
<1> SUFFICES ASSUME TypeOK, StopInv, PoolInv, PopAll PROVE PoolInv'
  OBVIOUS
<1>1. batch = <<>> /\ batch' = queue /\ queue' = <<>>
  BY DEF PopAll, StopInv
<1>2. UNCHANGED <<freelist, retired, ppc, ptask, upc>>
  BY DEF PopAll, pvars
<1>3. UnfilledInv'
  BY <1>2 DEF UnfilledInv, PoolInv
<1>4. ASSUME upc # "freed", NEW n \in Nodes PROVE HeldOnce(n)'
  <2>1. HeldOnce(n)
    BY <1>4 DEF PoolInv
  <2>2. \A p \in Producers : Filling(p, n)' <=> Filling(p, n)
    BY <1>2 DEF Filling
  <2>3. DOMAIN batch = {} /\ DOMAIN queue' = {} /\ DOMAIN batch' = DOMAIN queue
    BY <1>1
  <2> HIDE DEF Filling
  <2> QED
    BY <1>1, <1>2, <2>1, <2>2, <2>3 DEF HeldOnce
<1> QED
  BY <1>2, <1>3, <1>4, Zenon DEF PoolInv, UnfilledInv

\* The owner runs the head of its batch and keeps the node to return it.
LEMMA PoolRun == TypeOK /\ PoolInv /\ RunTask => PoolInv'
<1> SUFFICES ASSUME TypeOK, PoolInv, RunTask PROVE PoolInv'
  OBVIOUS
<1>1. /\ batch # <<>> /\ batch' = Tail(batch)
      /\ retired' = retired \cup ({batch[1].node} \ {Heap})
      /\ UNCHANGED <<freelist, queue, ppc, ptask, upc>>
  BY DEF RunTask, qvars, pvars, TypeOK
<1>2. /\ 1 \in DOMAIN batch
      /\ \A i \in DOMAIN batch' : i + 1 \in DOMAIN batch /\ batch'[i] = batch[i + 1]
      /\ \A i \in DOMAIN batch \ {1} : i - 1 \in DOMAIN batch' /\ batch'[i - 1] = batch[i]
      /\ DOMAIN batch \subseteq Nat \ {0} /\ DOMAIN batch' \subseteq Nat \ {0}
  BY <1>1 DEF TypeOK
<1>3. UnfilledInv'
  BY <1>1 DEF UnfilledInv, PoolInv
<1>4. ASSUME upc # "freed", NEW n \in Nodes PROVE HeldOnce(n)'
  <2>1. HeldOnce(n)
    BY <1>4 DEF PoolInv
  <2>2. \A p \in Producers : Filling(p, n)' <=> Filling(p, n)
    BY <1>1 DEF Filling
  <2>3. n # Heap
    BY QueueAssumption
  <2>4. CASE batch[1].node = n
    <3>1. \A i \in DOMAIN batch' : batch'[i].node # n
      <4> TAKE i \in DOMAIN batch'
      <4>1. i + 1 # 1 /\ i + 1 \in DOMAIN batch /\ batch'[i] = batch[i + 1]
        BY <1>2
      <4> QED
        BY <1>2, <2>1, <2>4, <4>1 DEF HeldOnce
    <3>2. n \in retired' /\ n \notin freelist
      BY <1>1, <1>2, <2>1, <2>3, <2>4 DEF HeldOnce
    <3>3. /\ \A p \in Producers : ~Filling(p, n)
          /\ \A i \in DOMAIN queue : queue[i].node # n
      BY <1>2, <2>1, <2>4 DEF HeldOnce
    <3> HIDE DEF Filling
    <3> QED
      BY <1>1, <2>2, <3>1, <3>2, <3>3 DEF HeldOnce
  <2>5. CASE batch[1].node # n
    <3>1. n \in retired' <=> n \in retired
      BY <1>1, <2>5
    <3>2. ASSUME NEW i \in DOMAIN batch, batch[i].node = n
          PROVE  \E j \in DOMAIN batch' : batch'[j].node = n
      BY <1>2, <2>5, <3>2
    <3>3. ASSUME NEW i \in DOMAIN batch', batch'[i].node = n,
                 NEW j \in DOMAIN batch', batch'[j].node = n
          PROVE  i = j
      <4>1. i + 1 = j + 1
        BY <1>2, <2>1, <3>3 DEF HeldOnce
      <4> QED
        BY <1>2, <4>1
    <3>4. (\E i \in DOMAIN batch' : batch'[i].node = n) => \E i \in DOMAIN batch : batch[i].node = n
      BY <1>2
    <3>5. /\ n \in freelist \cup retired' =>
               /\ \A p \in Producers : ~Filling(p, n)
               /\ \A i \in DOMAIN batch' : batch'[i].node # n
               /\ \A i \in DOMAIN queue : queue[i].node # n
          /\ n \in freelist => n \notin retired'
      BY <2>1, <3>1, <3>4 DEF HeldOnce
    <3>6. \A p \in Producers : Filling(p, n) =>
            /\ \A q \in Producers : Filling(q, n) => q = p
            /\ \A i \in DOMAIN batch' : batch'[i].node # n
            /\ \A i \in DOMAIN queue : queue[i].node # n
      BY <2>1, <3>4 DEF HeldOnce
    <3>7. \A i \in DOMAIN batch' : batch'[i].node = n =>
            /\ \A j \in DOMAIN batch' : batch'[j].node = n => j = i
            /\ \A j \in DOMAIN queue : queue[j].node # n
      BY <2>1, <3>3, <3>4 DEF HeldOnce
    <3>8. \/ n \in freelist \/ n \in retired'
          \/ \E p \in Producers : Filling(p, n)
          \/ \E i \in DOMAIN batch' : batch'[i].node = n
          \/ \E i \in DOMAIN queue : queue[i].node = n
      BY <2>1, <3>1, <3>2 DEF HeldOnce
    <3>9. \A i, j \in DOMAIN queue : queue[i].node = n /\ queue[j].node = n => i = j
      BY <2>1 DEF HeldOnce
    <3> HIDE DEF Filling
    <3> QED
      BY <1>1, <2>2, <3>5, <3>6, <3>7, <3>8, <3>9 DEF HeldOnce
  <2> QED
    BY <2>4, <2>5
<1> QED
  BY <1>1, <1>3, <1>4, Zenon DEF PoolInv, UnfilledInv

\* The nodes of the batch go back to the freelist together.
LEMMA PoolReturn == TypeOK /\ PoolInv /\ ReturnNodes => PoolInv'
<1> SUFFICES ASSUME TypeOK, PoolInv, ReturnNodes PROVE PoolInv'
  OBVIOUS
<1>1. /\ freelist' = freelist \cup retired /\ retired' = {}
      /\ UNCHANGED <<batch, queue, ppc, ptask, upc>>
  BY DEF ReturnNodes, pvars
<1>2. UnfilledInv'
  BY <1>1 DEF UnfilledInv, PoolInv
<1>3. ASSUME upc # "freed", NEW n \in Nodes PROVE HeldOnce(n)'
  <2>1. HeldOnce(n)
    BY <1>3 DEF PoolInv
  <2>2. \A p \in Producers : Filling(p, n)' <=> Filling(p, n)
    BY <1>1 DEF Filling
  <2> HIDE DEF Filling
  <2> QED
    BY <1>1, <2>1, <2>2 DEF HeldOnce
<1> QED
  BY <1>1, <1>2, <1>3, Zenon DEF PoolInv, UnfilledInv

\* No step of any thread leaks a pool node or puts it in a second place.
LEMMA PoolStep == TypeOK /\ StopInv /\ PoolInv /\ [Next]_vars => PoolInv'
<1> SUFFICES ASSUME TypeOK, StopInv, PoolInv, [Next]_vars PROVE PoolInv'
  OBVIOUS
<1> DEFINE Still == UNCHANGED <<freelist, retired, batch, queue, ppc, ptask>>
<1>0. ASSUME Still, upc' # "freed" => upc # "freed" PROVE PoolInv'
  <2>1. UnfilledInv'
    BY <1>0 DEF UnfilledInv, PoolInv
  <2>2. \A p \in Producers, n \in Nodes : Filling(p, n)' <=> Filling(p, n)
    BY <1>0 DEF Filling
  <2> QED
    BY <1>0, <2>1, <2>2, PoolFrame
<1> HIDE DEF Still
<1>1. ASSUME NEW p \in Producers, PostBegin(p) PROVE PoolInv'
  <2>1. /\ \A q \in Producers \ {p} : ppc'[q] = ppc[q] /\ ptask'[q] = ptask[q]
        /\ ptask'[p].node = Heap
        /\ ppc[p] = "idle"
    BY <1>1 DEF PostBegin, Goto, TypeOK
  <2>2. UNCHANGED <<freelist, retired, batch, queue, upc>>
    BY <1>1 DEF PostBegin, qvars, cvars
  <2> QED
    BY <2>1, <2>2, PoolFrameProducer
<1>2. ASSUME NEW p \in Producers, PostCheck(p) PROVE PoolInv'
  <2>1. /\ ppc[p] = "check" /\ upc # "freed"
        /\ UNCHANGED <<retired, batch, queue, upc>>
    BY <1>2 DEF PostCheck, cvars
  <2>2. ASSUME NEW f \in freelist, freelist' = freelist \ {f},
               ptask' = [ptask EXCEPT ![p].node = f], Goto(p, "enqueue")
        PROVE  PoolInv'
    BY <2>1, <2>2, PoolTake
  <2>3. ASSUME NEW l \in {"idle", "malloc"}, Goto(p, l), UNCHANGED <<freelist, ptask>>
        PROVE  PoolInv'
    <3>1. /\ \A q \in Producers \ {p} : ppc'[q] = ppc[q] /\ ptask'[q] = ptask[q]
          /\ ptask'[p].node = Heap
      BY <2>1, <2>3 DEF Goto, TypeOK, PoolInv
    <3> QED
      BY <2>1, <2>3, <3>1, PoolFrameProducer
  <2> QED
    BY <1>2, <2>2, <2>3 DEF PostCheck
<1>3. ASSUME NEW p \in Producers, PostMalloc(p) PROVE PoolInv'
  <2>1. /\ \A q \in Producers \ {p} : ppc'[q] = ppc[q] /\ ptask'[q] = ptask[q]
        /\ ptask'[p].node = Heap
        /\ ppc[p] = "malloc"
    BY <1>3 DEF PostMalloc, Goto, TypeOK, PoolInv
  <2>2. UNCHANGED <<freelist, retired, batch, queue, upc>>
    BY <1>3 DEF PostMalloc, qvars, cvars
  <2> QED
    BY <2>1, <2>2, PoolFrameProducer
<1>4. ASSUME NEW p \in Producers, PostEnqueue(p) PROVE PoolInv'
  <2>1. /\ ppc[p] = "enqueue" /\ upc # "freed"
        /\ UNCHANGED <<freelist, retired, batch, ptask, upc>>
        /\ queue' = Append(queue, ptask[p])
    BY <1>4 DEF PostEnqueue, cvars
  <2>2. PICK l \in {"idle", "notify"} : Goto(p, l)
    BY <1>4 DEF PostEnqueue
  <2> QED
    BY <2>1, <2>2, PoolLink
<1>5. ASSUME NEW p \in Producers, PostNotify(p) \/ PostWrite(p) \/ PostUseAfterFree(p)
      PROVE  PoolInv'
  <2>1. /\ UNCHANGED <<freelist, retired, batch, queue, upc>>
        /\ upc = "freed" \/ ppc[p] # "enqueue"
    BY <1>5 DEF PostNotify, PostWrite, PostUseAfterFree, qvars, cvars
  <2>2. UnfilledInv'
    BY <1>5 DEF UnfilledInv, PoolInv, PostNotify, PostWrite, PostUseAfterFree, Goto, TypeOK
  <2>3. CASE upc = "freed"
    BY <2>1, <2>2, <2>3 DEF PoolInv, UnfilledInv
  <2>4. CASE ppc[p] # "enqueue"
    <3>1. /\ \A q \in Producers \ {p} : ppc'[q] = ppc[q] /\ ptask'[q] = ptask[q]
          /\ ppc'[p] \in {"idle", "write", "uaf"}
      BY <1>5 DEF PostNotify, PostWrite, PostUseAfterFree, Goto, TypeOK
    <3> QED
      BY <2>1, <2>4, <3>1, PoolFrameProducer
  <2> QED
    BY <2>1, <2>3, <2>4
<1>6. CASE SetQueueMax
  BY <1>0, <1>6 DEF Still, SetQueueMax, cvars, pvars
<1>7. CASE WakeupInit \/ LoopHead \/ CheckEmpty \/ EnterWait \/ PollWake \/ Uninit
  BY <1>0, <1>7 DEF Still, WakeupInit, LoopHead, CheckEmpty, EnterWait, PollWake, Uninit, qvars, pvars
<1>8. CASE WaitEnds \/ PollReturns
  BY <1>0, <1>8 DEF Still, WaitEnds, PollReturns, qvars, pvars
<1>9. CASE PopAll
  BY <1>9, PoolPop
<1>10. CASE RunTask
  BY <1>10, PoolRun
<1>11. CASE ReturnNodes
  BY <1>11, PoolReturn
<1>12. CASE Unregister \/ UnregisterNotify \/ UnregisterWrite
  BY <1>0, <1>12 DEF Still, Unregister, UnregisterNotify, UnregisterWrite, qvars, cvars, pvars
<1>13. CASE Destroy
  <2>1. upc' = "freed" /\ UNCHANGED <<ppc, ptask>>
    BY <1>13 DEF Destroy, pvars
  <2> QED
    BY <2>1 DEF PoolInv
<1>14. CASE UNCHANGED vars
  BY <1>0, <1>14 DEF Still, vars, qvars, cvars, pvars
<1> QED
  BY <1>1, <1>2, <1>3, <1>4, <1>5, <1>6, <1>7, <1>8, <1>9, <1>10, <1>11, <1>12, <1>13, <1>14
  DEF Next, ProducerStep, OwnerStep, UnregisterStep

\* A node that is in one place and in no second one has one holder.
LEMMA OneHolder ==
  ASSUME TypeOK, NEW n \in Nodes, HeldOnce(n)
  PROVE  Cardinality(Holders(n)) = 1
<1> SUFFICES \E h : Holders(n) = {h}
  BY FS_Singleton
<1>1. CASE n \in freelist
  <2>1. Holders(n) = {<<"freelist", 0>>}
    BY <1>1 DEF Holders, HeldOnce, Filling
  <2> QED
    BY <2>1
<1>2. CASE n \in retired
  <2>1. Holders(n) = {<<"retired", 0>>}
    BY <1>2 DEF Holders, HeldOnce, Filling
  <2> QED
    BY <2>1
<1>3. ASSUME NEW p \in Producers, Filling(p, n) PROVE \E h : Holders(n) = {h}
  <2>1. Holders(n) = {<<"producer", p>>}
    BY <1>3 DEF Holders, HeldOnce, Filling
  <2> QED
    BY <2>1
<1>4. ASSUME NEW i \in DOMAIN batch, batch[i].node = n PROVE \E h : Holders(n) = {h}
  <2>1. Holders(n) = {<<"batch", i>>}
    BY <1>4 DEF Holders, HeldOnce, Filling
  <2> QED
    BY <2>1
<1>5. ASSUME NEW i \in DOMAIN queue, queue[i].node = n PROVE \E h : Holders(n) = {h}
  <2>1. Holders(n) = {<<"queue", i>>}
    BY <1>5 DEF Holders, HeldOnce, Filling
  <2> QED
    BY <2>1
<1> QED
  BY <1>1, <1>2, <1>3, <1>4, <1>5 DEF HeldOnce

\* xthread_post*, the batch loop of process_tasks and the single lock under
\* which it returns its nodes neither leak a pool node nor use one twice.
THEOREM SlabConserved == Spec => []PoolConserved
<1>1. Init => PoolInv
  BY QueueAssumption DEF Init, PoolInv, HeldOnce, Filling
<1>2. PoolInv /\ TypeOK /\ StopInv /\ [Next]_vars => PoolInv'
  BY PoolStep
<1>3. IInv => TypeOK /\ StopInv
  BY DEF IInv
<1>4. TypeOK /\ PoolInv => PoolConserved
  BY OneHolder DEF PoolInv, PoolConserved
<1> QED
  BY <1>1, <1>2, <1>3, <1>4, InductiveInvariant, PTL DEF Spec
-----------------------------------------------------------------------------
(* The cap on the queue.                                                    *)

\* The places of the queue that count against the cap.
Counted == {i \in DOMAIN queue : Capped(queue[i])}

\* The interval of the first n positions has n elements.
LEMMA CountUpTo ==
  ASSUME NEW n \in Nat
  PROVE  IsFiniteSet(1..n) /\ Cardinality(1..n) = n
<1>1. /\ IsFiniteSet(1..n)
      /\ Cardinality(1..n) = IF 1 > n THEN 0 ELSE n - 1 + 1
  <2>1. 1 \in Int /\ n \in Int
    OBVIOUS
  <2> QED
    BY <2>1, FS_Interval, Zenon
<1> QED
  BY <1>1

\* A count of places of a queue and one of producers are numbers, bounded by
\* the length of the queue and by the number of the threads.
LEMMA CountsFinite ==
  ASSUME IsFiniteSet(Producers), NEW q \in Seq(Task),
         NEW C \in SUBSET DOMAIN q, NEW A \in SUBSET Producers
  PROVE  /\ IsFiniteSet(C) /\ Cardinality(C) \in Nat /\ Cardinality(C) <= Len(q)
         /\ IsFiniteSet(A) /\ Cardinality(A) \in Nat
         /\ Cardinality(A) <= Cardinality(Producers)
         /\ Cardinality(Producers) \in Nat
<1>1. Len(q) \in Nat /\ DOMAIN q = 1..Len(q)
  OBVIOUS
<1>2. IsFiniteSet(DOMAIN q) /\ Cardinality(DOMAIN q) = Len(q)
  BY <1>1, CountUpTo
<1>3. IsFiniteSet(C) /\ Cardinality(C) <= Len(q)
  BY <1>2, FS_Subset
<1>4. IsFiniteSet(A) /\ Cardinality(A) <= Cardinality(Producers)
  BY FS_Subset
<1> QED
  BY <1>3, <1>4, FS_CardinalityType

\* In particular those of CapInv.
LEMMA CountsOfState ==
  ASSUME TypeOK, IsFiniteSet(Producers)
  PROVE  /\ IsFiniteSet(Counted) /\ Cardinality(Counted) \in Nat
         /\ Cardinality(Counted) <= Len(queue)
         /\ IsFiniteSet(Admitted) /\ Cardinality(Admitted) \in Nat
         /\ Cardinality(Admitted) <= Cardinality(Producers)
         /\ Cardinality(Producers) \in Nat
<1>1. /\ queue \in Seq(Task)
      /\ Counted \in SUBSET DOMAIN queue /\ Admitted \in SUBSET Producers
  BY DEF TypeOK, Counted, Admitted
<1> QED
  BY <1>1, CountsFinite

\* A producer below the cap passes the check: the queue is shorter than the cap.
LEMMA CapAdmit ==
  ASSUME TypeOK, TypeOK', IsFiniteSet(Producers), UNCHANGED queue,
         Len(queue) < max_size
  PROVE  CapInv'
<1>1. /\ Cardinality(Counted)' \in Nat /\ Cardinality(Counted)' <= Len(queue)
      /\ Cardinality(Admitted)' \in Nat
      /\ Cardinality(Admitted)' <= Cardinality(Producers)
      /\ Cardinality(Producers) \in Nat
  <2>1. /\ queue' \in Seq(Task)
        /\ Counted' \in SUBSET DOMAIN queue' /\ Admitted' \in SUBSET Producers
    BY DEF TypeOK, Counted, Admitted
  <2>2. Len(queue') = Len(queue)
    OBVIOUS
  <2> HIDE DEF Counted, Admitted
  <2> QED
    BY <2>1, <2>2, CountsFinite
<1> SUFFICES ASSUME NEW c \in Caps \ {0}, \A d \in Caps : d <= c /\ d # 0
             PROVE  Cardinality(Counted)' + Cardinality(Admitted)' < c + Cardinality(Producers)
  BY DEF CapInv, Counted
<1>2. max_size \in Nat /\ c \in Nat /\ max_size <= c /\ Len(queue) \in Nat
  BY QueueAssumption DEF TypeOK
<1> HIDE DEF Counted, Admitted
<1> QED
  BY <1>1, <1>2

\* A step that counts no further task and admits no further producer.
LEMMA CapFrame ==
  ASSUME CapInv, Counted' = Counted, Admitted' = Admitted
  PROVE  CapInv'
  BY DEF CapInv, Counted

\* The steps of CapInv: PostCheck admits below the cap, PostEnqueue turns an
\* admitted producer into a counted task, everything else takes tasks away.
LEMMA CapStep ==
  ASSUME TypeOK, TypeOK', IsFiniteSet(Producers), CapInv, [Next]_vars
  PROVE  CapInv'
<1>0. \* a step of producer p that does not touch the queue and ends outside the two sections
      ASSUME NEW p \in Producers, UNCHANGED queue,
             \A q \in Producers \ {p} : ppc'[q] = ppc[q] /\ ptask'[q] = ptask[q],
             (p \in Admitted)' <=> p \in Admitted
      PROVE  CapInv'
  <2>1. Counted' = Counted
    BY <1>0 DEF Counted
  <2>2. Admitted' = Admitted
    BY <1>0 DEF Admitted
  <2> QED
    BY <2>1, <2>2, CapFrame
<1>a. \* an owner's or an unregister step that leaves the queue alone
      ASSUME UNCHANGED <<queue, ppc, ptask>> PROVE CapInv'
  <2>1. Counted' = Counted /\ Admitted' = Admitted
    BY <1>a DEF Counted, Admitted
  <2> QED
    BY <2>1, CapFrame
<1>b. \* a step that empties the queue
      ASSUME queue' = <<>>, UNCHANGED <<ppc, ptask>> PROVE CapInv'
  <2>1. Counted' = {} /\ Admitted' = Admitted
    BY <1>b DEF Counted, Admitted
  <2>2. Cardinality(Counted)' = 0
    BY <2>1, FS_EmptySet
  <2>3. /\ Cardinality(Counted) \in Nat /\ Cardinality(Admitted) \in Nat
        /\ Cardinality(Producers) \in Nat
    BY CountsOfState
  <2> SUFFICES ASSUME NEW c \in Caps \ {0}, \A d \in Caps : d <= c /\ d # 0
               PROVE  Cardinality(Counted)' + Cardinality(Admitted)' < c + Cardinality(Producers)
    BY DEF CapInv, Counted
  <2>4. Cardinality(Counted) + Cardinality(Admitted) < c + Cardinality(Producers)
    BY DEF CapInv, Counted
  <2>5. c \in Nat
    BY QueueAssumption
  <2> QED
    BY <2>1, <2>2, <2>3, <2>4, <2>5
<1>1. ASSUME NEW p \in Producers, PostBegin(p) PROVE CapInv'
  <2>1. /\ UNCHANGED queue
        /\ \A q \in Producers \ {p} : ppc'[q] = ppc[q] /\ ptask'[q] = ptask[q]
        /\ ppc[p] = "idle" /\ ppc'[p] = "check"
    BY <1>1 DEF PostBegin, Goto, TypeOK, qvars
  <2> QED
    BY <1>0, <2>1 DEF Admitted
<1>2. ASSUME NEW p \in Producers, PostCheck(p) PROVE CapInv'
  <2>1. /\ UNCHANGED <<queue, max_size>> /\ ppc[p] = "check"
        /\ \A q \in Producers \ {p} : ppc'[q] = ppc[q] /\ ptask'[q] = ptask[q]
    BY <1>2 DEF PostCheck, Goto, TypeOK
  <2>2. CASE Full(p)
    <3>1. ppc'[p] = "idle"
      BY <1>2, <2>2 DEF PostCheck, Goto, TypeOK
    <3> QED
      BY <1>0, <2>1, <3>1 DEF Admitted
  <2>3. CASE ~Full(p) /\ Capped(ptask[p]) /\ max_size > 0
    <3>1. Len(queue) < max_size
      BY <2>3, QueueAssumption DEF Full, Capped, TypeOK
    <3> QED
      BY <2>1, <3>1, CapAdmit
  <2>4. CASE ~Capped(ptask[p])
    <3>1. ptask'[p].kind = ptask[p].kind
      <4>1. ptask[p] \in Task
        BY DEF TypeOK
      <4>2. ASSUME NEW f \in freelist, ptask' = [ptask EXCEPT ![p].node = f]
            PROVE  ptask'[p].kind = ptask[p].kind
        BY <4>1, <4>2 DEF TypeOK, Task
      <4> QED
        BY <1>2, <4>2 DEF PostCheck
    <3> QED
      BY <1>0, <2>1, <2>4, <3>1 DEF Admitted, Capped
  <2>5. CASE max_size = 0
    <3> SUFFICES ASSUME NEW c \in Caps \ {0}, \A d \in Caps : d <= c /\ d # 0
                 PROVE  FALSE
      BY DEF CapInv
    <3> QED
      BY <2>5 DEF TypeOK
  <2>6. max_size \in Nat
    BY QueueAssumption DEF TypeOK
  <2> QED
    BY <2>2, <2>3, <2>4, <2>5, <2>6
<1>3. ASSUME NEW p \in Producers, PostMalloc(p) PROVE CapInv'
  <2>1. /\ UNCHANGED queue /\ ppc[p] = "malloc" /\ UNCHANGED ptask
        /\ \A q \in Producers \ {p} : ppc'[q] = ppc[q]
        /\ ppc'[p] \in {"enqueue", "idle"}
    BY <1>3 DEF PostMalloc, Goto, TypeOK, qvars
  <2>2. CASE ppc'[p] = "enqueue"
    BY <1>0, <2>1, <2>2 DEF Admitted
  <2>3. CASE ppc'[p] = "idle"
    <3>1. Counted' = Counted /\ Admitted' = Admitted \ {p}
      BY <2>1, <2>3 DEF Counted, Admitted
    <3>2. /\ IsFiniteSet(Admitted)
          /\ Cardinality(Counted) \in Nat /\ Cardinality(Admitted) \in Nat
          /\ Cardinality(Producers) \in Nat
      BY CountsOfState
    <3>3. Cardinality(Admitted \ {p}) \in Nat /\ Cardinality(Admitted \ {p}) <= Cardinality(Admitted)
      <4>1. Admitted \ {p} \in SUBSET Admitted
        OBVIOUS
      <4> QED
        BY <3>2, <4>1, FS_Subset, FS_CardinalityType
    <3> SUFFICES ASSUME NEW c \in Caps \ {0}, \A d \in Caps : d <= c /\ d # 0
                 PROVE  Cardinality(Counted)' + Cardinality(Admitted)' < c + Cardinality(Producers)
      BY DEF CapInv, Counted
    <3>4. Cardinality(Counted) + Cardinality(Admitted) < c + Cardinality(Producers)
      BY DEF CapInv, Counted
    <3>5. c \in Nat
      BY QueueAssumption
    <3> QED
      BY <3>1, <3>2, <3>3, <3>4, <3>5
  <2> QED
    BY <2>1, <2>2, <2>3
<1>4. ASSUME NEW p \in Producers, PostEnqueue(p) PROVE CapInv'
  <2> DEFINE k == Len(queue) + 1
  <2>1. /\ ppc[p] = "enqueue" /\ UNCHANGED ptask
        /\ \A q \in Producers \ {p} : ppc'[q] = ppc[q]
        /\ ppc'[p] \in {"notify", "idle"}
    BY <1>4 DEF PostEnqueue, Goto, TypeOK
  <2>2. /\ k \notin DOMAIN queue
        /\ DOMAIN queue' = DOMAIN queue \cup {k}
        /\ queue'[k] = ptask[p]
        /\ \A i \in DOMAIN queue : queue'[i] = queue[i]
    BY <1>4 DEF PostEnqueue, TypeOK
  <2> HIDE DEF k
  <2>3. Admitted' = Admitted \ {p}
    BY <2>1 DEF Admitted
  <2>4. CASE Capped(ptask[p])
    <3>1. Counted' = Counted \cup {k} /\ k \notin Counted /\ p \in Admitted
      BY <2>1, <2>2, <2>4 DEF Counted, Admitted
    <3>2. /\ IsFiniteSet(Counted) /\ IsFiniteSet(Admitted)
          /\ Cardinality(Counted) \in Nat /\ Cardinality(Admitted) \in Nat
          /\ Cardinality(Producers) \in Nat
      BY CountsOfState
    <3>3. /\ Cardinality(Counted \cup {k}) = Cardinality(Counted) + 1
          /\ Cardinality(Admitted \ {p}) = Cardinality(Admitted) - 1
      BY <3>1, <3>2, FS_AddElement, FS_RemoveElement
    <3> SUFFICES ASSUME NEW c \in Caps \ {0}, \A d \in Caps : d <= c /\ d # 0
                 PROVE  Cardinality(Counted)' + Cardinality(Admitted)' < c + Cardinality(Producers)
      BY DEF CapInv, Counted
    <3>4. Cardinality(Counted) + Cardinality(Admitted) < c + Cardinality(Producers)
      BY DEF CapInv, Counted
    <3>5. c \in Nat
      BY QueueAssumption
    <3> QED
      BY <2>3, <3>1, <3>2, <3>3, <3>4, <3>5
  <2>5. CASE ~Capped(ptask[p])
    <3>1. Counted' = Counted
      BY <2>2, <2>5 DEF Counted
    <3>2. Admitted' = Admitted
      BY <2>3, <2>5 DEF Admitted
    <3> QED
      BY <3>1, <3>2, CapFrame
  <2> QED
    BY <2>4, <2>5
<1>5. ASSUME NEW p \in Producers, PostNotify(p) \/ PostWrite(p) PROVE CapInv'
  <2>1. /\ UNCHANGED queue /\ UNCHANGED ptask
        /\ \A q \in Producers \ {p} : ppc'[q] = ppc[q]
        /\ ppc[p] \in {"notify", "write"} /\ ppc'[p] \in {"write", "idle"}
    BY <1>5 DEF PostNotify, PostWrite, Goto, TypeOK, qvars
  <2> QED
    BY <1>0, <2>1 DEF Admitted
<1>6. ASSUME NEW p \in Producers, PostUseAfterFree(p) PROVE CapInv'
  <2>1. /\ UNCHANGED queue /\ UNCHANGED ptask
        /\ \A q \in Producers \ {p} : ppc'[q] = ppc[q]
        /\ ppc'[p] = "uaf"
    BY <1>6 DEF PostUseAfterFree, Goto, TypeOK, qvars
  <2>2. Counted' = Counted /\ Admitted' \in SUBSET Admitted
    BY <2>1 DEF Counted, Admitted
  <2>3. /\ IsFiniteSet(Admitted)
        /\ Cardinality(Counted) \in Nat /\ Cardinality(Admitted) \in Nat
        /\ Cardinality(Producers) \in Nat
    BY CountsOfState
  <2>4. Cardinality(Admitted') \in Nat /\ Cardinality(Admitted') <= Cardinality(Admitted)
    BY <2>2, <2>3, FS_Subset, FS_CardinalityType
  <2> SUFFICES ASSUME NEW c \in Caps \ {0}, \A d \in Caps : d <= c /\ d # 0
               PROVE  Cardinality(Counted)' + Cardinality(Admitted)' < c + Cardinality(Producers)
    BY DEF CapInv, Counted
  <2>5. Cardinality(Counted) + Cardinality(Admitted) < c + Cardinality(Producers)
    BY DEF CapInv, Counted
  <2>6. c \in Nat
    BY QueueAssumption
  <2> QED
    BY <2>2, <2>3, <2>4, <2>5, <2>6
<1>7. CASE SetQueueMax
  BY <1>a, <1>7 DEF SetQueueMax, pvars
<1>8. CASE WakeupInit \/ LoopHead \/ RunTask \/ ReturnNodes \/ CheckEmpty \/ EnterWait \/ PollWake \/ Uninit
  BY <1>a, <1>8 DEF WakeupInit, LoopHead, RunTask, ReturnNodes, CheckEmpty, EnterWait, PollWake, Uninit, qvars, pvars
<1>9. CASE WaitEnds \/ PollReturns
  BY <1>a, <1>9 DEF WaitEnds, PollReturns, qvars, pvars
<1>10. CASE PopAll \/ Destroy
  BY <1>b, <1>10 DEF PopAll, Destroy, pvars
<1>11. CASE Unregister \/ UnregisterNotify \/ UnregisterWrite
  BY <1>a, <1>11 DEF Unregister, UnregisterNotify, UnregisterWrite, qvars, pvars
<1>12. CASE UNCHANGED vars
  BY <1>a, <1>12 DEF vars, qvars, pvars
<1> QED
  BY <1>1, <1>2, <1>3, <1>4, <1>5, <1>6, <1>7, <1>8, <1>9, <1>10, <1>11, <1>12
  DEF Next, ProducerStep, OwnerStep, UnregisterStep

\* The cap that xthread_set_queue_max sets is passed by fewer tasks than there
\* are threads posting, whatever they interleave between the two critical
\* sections of xqueue_push_internal.  A process has finitely many threads.
THEOREM CapIsSoft ==
  ASSUME IsFiniteSet(Producers)
  PROVE  Spec => []SoftCap
<1>1. Init => CapInv
  <2> SUFFICES ASSUME Init, NEW c \in Caps \ {0}
               PROVE  Cardinality(Counted) + Cardinality(Admitted) < c + Cardinality(Producers)
    BY DEF CapInv, Counted
  <2>1. Counted = {} /\ Admitted = {}
    BY DEF Init, Counted, Admitted
  <2>2. Cardinality({}) = 0 /\ Cardinality(Producers) \in Nat /\ c \in Nat
    BY FS_EmptySet, FS_CardinalityType, QueueAssumption
  <2> QED
    BY <2>1, <2>2
<1>2. CapInv /\ TypeOK /\ TypeOK' /\ [Next]_vars => CapInv'
  BY CapStep
<1>3. TypeOK /\ CapInv => SoftCap
  <2> SUFFICES ASSUME TypeOK, CapInv,
                      NEW c \in Caps \ {0}, \A d \in Caps : d <= c /\ d # 0
               PROVE  Cardinality(Counted) < c + Cardinality(Producers)
    BY DEF SoftCap, Counted
  <2>1. Cardinality(Counted) + Cardinality(Admitted) < c + Cardinality(Producers)
    BY DEF CapInv, Counted
  <2>2. /\ Cardinality(Counted) \in Nat /\ Cardinality(Admitted) \in Nat
        /\ Cardinality(Producers) \in Nat /\ c \in Nat
    BY CountsOfState, QueueAssumption
  <2> QED
    BY <2>1, <2>2
<1>4. Spec => []TypeOK
  BY TypeCorrect
<1> QED
  BY <1>1, <1>2, <1>3, <1>4, PTL DEF Spec
=============================================================================
