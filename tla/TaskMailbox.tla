---------------------------- MODULE TaskMailbox ----------------------------
(***************************************************************************)
(* What a registered thread promises to those who post to it, whatever     *)
(* queue backend the build selects (xthread.h: mutex list by default,      *)
(* lock-free list with -DXTHREAD_MPSCQ): an accepted task is delivered     *)
(* once, in the order of acceptance, and only the destruction of the       *)
(* thread may discard tasks.                                               *)
(***************************************************************************)
EXTENDS Sequences

CONSTANT Task          \* what can be posted

VARIABLES sent,        \* every task accepted so far, in order of acceptance
          box,         \* accepted and not yet delivered
          done,        \* taken from the box by the owner, in order
          lost         \* discarded when the thread was destroyed

vars == <<sent, box, done, lost>>

Init == sent = <<>> /\ box = <<>> /\ done = <<>> /\ lost = <<>>

\* A post is accepted (the call will return 0).
Send(t) == /\ sent' = Append(sent, t)
           /\ box'  = Append(box, t)
           /\ UNCHANGED <<done, lost>>

\* The owner takes the oldest task.
Deliver == /\ box # <<>>
           /\ done' = Append(done, Head(box))
           /\ box'  = Tail(box)
           /\ UNCHANGED <<sent, lost>>

\* The thread is destroyed with whatever is still in the box.
Discard == /\ box' = <<>>
           /\ lost' = lost \o box
           /\ UNCHANGED <<sent, done>>

Next == (\E t \in Task : Send(t)) \/ Deliver \/ Discard

Spec == Init /\ [][Next]_vars

FairSpec == Spec /\ WF_vars(Deliver)
============================================================================
