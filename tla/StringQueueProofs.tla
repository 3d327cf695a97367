------------------------- MODULE StringQueueProofs --------------------------
(***************************************************************************)
(* Proofs about StringQueue for every set of strings and every capacity:   *)
(* the inductive invariant, the two properties that follow from it, and    *)
(* the safety part of the refinement of ClosableQueue.                     *)
(***************************************************************************)
EXTENDS StringQueue, TLAPS

\* What the operations on the contents keep: pushing respects the type and
\* the capacity, popping too, and what is returned is a string.
LEMMA PushedType ==
  ASSUME NEW q \in Seq(Strings), Len(q) <= Capacity, NEW s \in Strings
  PROVE  /\ Pushed(q, s) \in Seq(Strings)
         /\ Len(Pushed(q, s)) <= Capacity
         /\ Pushed(q, s) # <<>>
  BY QueueAssumption DEF Pushed, HasRoom

LEMMA PoppedType ==
  ASSUME NEW q \in Seq(Strings), Len(q) <= Capacity
  PROVE  /\ Popped(q) \in Seq(Strings)
         /\ Len(Popped(q)) <= Capacity
         /\ PopResult(q) \in Strings
  BY QueueAssumption DEF Popped, PopResult

\* The initial state satisfies the invariant.
LEMMA InitInvariant == Init => IInv
<1> SUFFICES ASSUME Init PROVE IInv
  OBVIOUS
<1>1. queue \in Seq(Strings) /\ Len(queue) <= Capacity
  BY QueueAssumption DEF Init
<1>2. TypeOK
  BY <1>1, QueueAssumption DEF Init, TypeOK, ConsumerStates
<1>3. ~Ready
  BY DEF Init, Ready
<1>4. MutexOwner /\ ActsOnTruth /\ NoLostWakeup
  BY <1>3 DEF Init, MutexOwner, ActsOnTruth, NoLostWakeup
<1> QED
  BY <1>2, <1>4 DEF IInv

\* Every step of the producer, the closer and the consumer preserves it.
LEMMA StepInvariant == IInv /\ [Next]_vars => IInv'
<1> SUFFICES ASSUME IInv, [Next]_vars PROVE IInv'
  OBVIOUS
<1> USE DEF IInv, TypeOK, MutexOwner, ActsOnTruth, NoLostWakeup, Ready,
            ConsumerStates
<1>1. ASSUME NEW s \in Strings, PushLock(s) PROVE IInv'
  BY <1>1 DEF PushLock
<1>2. CASE PushItem
  <2>1. /\ queue' \in Seq(Strings) /\ Len(queue') <= Capacity
        /\ queue' # <<>>
    BY <1>2, PushedType DEF PushItem
  <2>2. ~HasRoom(queue) => queue # <<>> /\ queue' = queue
    BY <1>2, QueueAssumption DEF PushItem, Pushed, HasRoom
  <2>3. prod' \in {"idle", "notify"} /\ (prod' = "idle" => ~HasRoom(queue))
    BY <1>2 DEF PushItem
  <2> QED
    BY <1>2, <2>1, <2>2, <2>3 DEF PushItem
<1>3. CASE PushNotify
  BY <1>3 DEF PushNotify, NotifyOne
<1>4. CASE CloseLock
  BY <1>4 DEF CloseLock
<1>5. CASE CloseSet
  BY <1>5 DEF CloseSet
<1>6. CASE CloseNotify
  BY <1>6 DEF CloseNotify, NotifyOne
<1>7. CASE Pop
  BY <1>7, PoppedType DEF Pop
<1>8. CASE Closed
  BY <1>8 DEF Closed
<1>9. CASE BlockingPopCall
  BY <1>9 DEF BlockingPopCall
<1>10. CASE BlockingPopLock
  BY <1>10 DEF BlockingPopLock
<1>11. CASE BlockingPopCheck
  BY <1>11 DEF BlockingPopCheck
<1>12. CASE BlockingPopWait
  BY <1>12 DEF BlockingPopWait
<1>13. CASE SpuriousWakeup
  BY <1>13 DEF SpuriousWakeup
<1>14. CASE BlockingPopTake
  BY <1>14, PoppedType DEF BlockingPopTake
<1>15. CASE UNCHANGED vars
  BY <1>15 DEF vars
<1> QED
  BY <1>1, <1>2, <1>3, <1>4, <1>5, <1>6, <1>7, <1>8, <1>9, <1>10, <1>11,
     <1>12, <1>13, <1>14, <1>15
  DEF Next, Producer, Closer, Consumer

\* The invariant holds in every reachable state.
THEOREM InductiveInvariant == Spec => []IInv
  BY InitInvariant, StepInvariant, PTL DEF Spec

\* Type correctness, the capacity bound of the spsc_queue included.
THEOREM TypeCorrect == Spec => []TypeOK
<1>1. IInv => TypeOK
  BY DEF IInv
<1> QED
  BY InductiveInvariant, <1>1, PTL

\* blocking_pop never misses the notification of a push or of a close.
THEOREM WakeupNotLost == Spec => []NoLostWakeup
<1>1. IInv => NoLostWakeup
  BY DEF IInv
<1> QED
  BY InductiveInvariant, <1>1, PTL

\* After close(), blocking_pop() no longer blocks.
THEOREM CloseUnblocks == Spec => NeverWaitsOnceClosed
<1>1. IInv /\ [Next]_vars =>
        [closed /\ cons # "waiting" => cons' # "waiting"]_vars
  <2> SUFFICES ASSUME IInv, Next, closed, cons # "waiting"
               PROVE  cons' # "waiting"
    BY DEF vars
  <2>1. cons # "sleep"
    BY DEF IInv, ActsOnTruth, Ready
  <2> QED
    BY <2>1
    DEF Next, Producer, Closer, Consumer, PushLock, PushItem, PushNotify,
        CloseLock, CloseSet, CloseNotify, NotifyOne, Pop, Closed,
        BlockingPopCall, BlockingPopLock, BlockingPopCheck, BlockingPopWait,
        SpuriousWakeup, BlockingPopTake
<1> QED
  BY InductiveInvariant, <1>1, PTL DEF Spec, NeverWaitsOnceClosed

-----------------------------------------------------------------------------
\* Every step of the queue is a step of the atomic queue or leaves it alone.
LEMMA StepSimulation ==
  IInv /\ [Next]_vars => [Abstract!AbsNext]_(Abstract!absVars)
<1> SUFFICES ASSUME IInv, [Next]_vars
             PROVE  Abstract!AbsNext \/ UNCHANGED Abstract!absVars
  OBVIOUS
<1> USE DEF Abstract!AbsNext, Abstract!absVars
<1>1. ASSUME NEW s \in Strings, PushLock(s)
      PROVE  UNCHANGED Abstract!absVars
  BY <1>1 DEF PushLock
<1>2. CASE PushItem
  <2>1. CASE HasRoom(queue)
    <3>1. Abstract!AbsPush(item)
      BY <1>2, <2>1 DEF PushItem, Pushed, HasRoom, Abstract!AbsPush, Abstract!HasRoom
    <3> QED
      BY <3>1 DEF IInv, TypeOK
  <2>2. CASE ~HasRoom(queue)
    BY <1>2, <2>2 DEF PushItem, Pushed
  <2> QED
    BY <2>1, <2>2
<1>3. CASE PushNotify \/ CloseLock \/ CloseNotify
  BY <1>3 DEF PushNotify, CloseLock, CloseNotify, NotifyOne
<1>4. CASE CloseSet
  BY <1>4 DEF CloseSet, Abstract!AbsClose
<1>5. CASE Pop
  BY <1>5 DEF Pop, Abstract!AbsPop, Abstract!Take, PopResult, Popped,
              Abstract!PopResult, Abstract!Popped
<1>6. CASE Closed
  BY <1>6 DEF Closed, Abstract!AbsClosed
<1>7. CASE BlockingPopCall
  BY <1>7 DEF BlockingPopCall, Abstract!AbsBlockingPopCall
<1>8. CASE BlockingPopLock \/ BlockingPopCheck \/ BlockingPopWait \/ SpuriousWakeup
  BY <1>8 DEF BlockingPopLock, BlockingPopCheck, BlockingPopWait, SpuriousWakeup
<1>9. CASE BlockingPopTake
  BY <1>9 DEF BlockingPopTake, Abstract!AbsBlockingPopReturn, Abstract!Take,
              PopResult, Popped, Abstract!PopResult, Abstract!Popped,
              IInv, ActsOnTruth, Ready
<1>10. CASE UNCHANGED vars
  BY <1>10 DEF vars
<1> QED
  BY <1>1, <1>2, <1>3, <1>4, <1>5, <1>6, <1>7, <1>8, <1>9, <1>10
  DEF Next, Producer, Closer, Consumer


\* The queue with its mutex and condition variable implements the safety part
\* of the atomic queue: FIFO order, drops only at capacity, and a blocking_pop
\* that returns only when there is an item or the queue is closed.
THEOREM ImplementsClosableQueue == Spec => Abstract!AbsSafety
<1>1. Init => Abstract!AbsInit
  BY DEF Init, Abstract!AbsInit
<1> QED
  BY <1>1, InductiveInvariant, StepSimulation, PTL
  DEF Spec, Abstract!AbsSafety

=============================================================================
