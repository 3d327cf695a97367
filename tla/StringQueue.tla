---------------------------- MODULE StringQueue -----------------------------
(***************************************************************************)
(* cqueue/string_queue: a single-producer single-consumer queue with a     *)
(* mutex and a condition variable, at the granularity of lock, unlock,     *)
(* wait and notify.  Three threads use it: the producer calls push, the    *)
(* consumer calls blocking_pop, pop and closed, and the closer calls       *)
(* close.  pop() takes no lock.                                            *)
(***************************************************************************)
EXTENDS QueueOps

VARIABLES
  queue,    \* queue_
  closed,   \* closed_
  mutex,    \* the thread that holds mutex_, or "free"
  prod,     \* producer:  "idle" | "push" (locked) | "notify" (unlocked)
  item,     \* producer:  the argument of push
  closer,   \* closer:    "idle" | "close" (locked) | "notify" (unlocked)
  cons,     \* consumer:  "idle" | "lock" | "check" | "sleep" | "waiting" | "pop"
  result,   \* consumer:  what the last pop() or blocking_pop() returned
  answer    \* consumer:  what the last closed() returned

vars == <<queue, closed, mutex, prod, item, closer, cons, result, answer>>

ConsumerStates == {"idle", "lock", "check", "sleep", "waiting", "pop"}

TypeOK ==
  /\ queue \in Seq(Strings) /\ Len(queue) <= Capacity
  /\ closed \in BOOLEAN
  /\ mutex \in {"free", "producer", "consumer", "closer"}
  /\ prod \in {"idle", "push", "notify"}
  /\ item \in Strings
  /\ closer \in {"idle", "close", "notify"}
  /\ cons \in ConsumerStates
  /\ result \in Strings
  /\ answer \in BOOLEAN

Init ==
  /\ queue = <<>>
  /\ closed = FALSE
  /\ mutex = "free"
  /\ prod = "idle" /\ item = EmptyString
  /\ closer = "idle"
  /\ cons = "idle" /\ result = EmptyString
  /\ answer = FALSE

\* The predicate that blocking_pop waits for.
Ready == queue # <<>> \/ closed

\* condition_var_.notify_one(): the only thread that ever waits is the
\* consumer; woken, it has to take the mutex again and test the predicate.
NotifyOne == cons' = IF cons = "waiting" THEN "lock" ELSE cons

-----------------------------------------------------------------------------
(* push *)

PushLock(s) ==
  /\ prod = "idle" /\ mutex = "free"
  /\ mutex' = "producer" /\ prod' = "push" /\ item' = s
  /\ UNCHANGED <<queue, closed, closer, cons, result, answer>>

\* queue_.push and lock.unlock().
PushItem ==
  /\ prod = "push"
  /\ queue' = Pushed(queue, item)
  /\ mutex' = "free"
  /\ prod' = IF HasRoom(queue) THEN "notify" ELSE "idle"
  /\ UNCHANGED <<closed, item, closer, cons, result, answer>>

PushNotify ==
  /\ prod = "notify"
  /\ NotifyOne
  /\ prod' = "idle"
  /\ UNCHANGED <<queue, closed, mutex, item, closer, result, answer>>

-----------------------------------------------------------------------------
(* close *)

\* Mutant: close() that does not take the mutex.
CloseWithoutLock ==
  /\ closer = "idle"
  /\ closer' = "close"
  /\ UNCHANGED <<queue, closed, mutex, prod, item, cons, result, answer>>

CloseLock ==
  /\ closer = "idle" /\ mutex = "free"
  /\ mutex' = "closer" /\ closer' = "close"
  /\ UNCHANGED <<queue, closed, prod, item, cons, result, answer>>

CloseSet ==
  /\ closer = "close"
  /\ closed' = TRUE
  /\ mutex' = "free" /\ closer' = "notify"
  /\ UNCHANGED <<queue, prod, item, cons, result, answer>>

\* Mutant: close() that forgets its notify_one.
CloseSilently ==
  /\ closer = "notify"
  /\ closer' = "idle"
  /\ UNCHANGED <<queue, closed, mutex, prod, item, cons, result, answer>>

CloseNotify ==
  /\ closer = "notify"
  /\ NotifyOne
  /\ closer' = "idle"
  /\ UNCHANGED <<queue, closed, mutex, prod, item, result, answer>>

-----------------------------------------------------------------------------
(* pop and closed: one step each, the first without the mutex. *)

Pop ==
  /\ cons = "idle"
  /\ result' = PopResult(queue)
  /\ queue' = Popped(queue)
  /\ UNCHANGED <<closed, mutex, prod, item, closer, cons, answer>>

Closed ==
  /\ cons = "idle" /\ mutex = "free"
  /\ answer' = closed
  /\ UNCHANGED <<queue, closed, mutex, prod, item, closer, cons, result>>

-----------------------------------------------------------------------------
(* blocking_pop *)

BlockingPopCall ==
  /\ cons = "idle"
  /\ cons' = "lock"
  /\ UNCHANGED <<queue, closed, mutex, prod, item, closer, result, answer>>

\* On entry, and again after every wake-up.
BlockingPopLock ==
  /\ cons = "lock" /\ mutex = "free"
  /\ mutex' = "consumer" /\ cons' = "check"
  /\ UNCHANGED <<queue, closed, prod, item, closer, result, answer>>

\* The predicate is evaluated first; going to sleep is a step of its own.
BlockingPopCheck ==
  /\ cons = "check"
  /\ cons' = IF Ready THEN "pop" ELSE "sleep"
  /\ UNCHANGED <<queue, closed, mutex, prod, item, closer, result, answer>>

\* condition_var_.wait: joins the waiters and releases the mutex, atomically.
BlockingPopWait ==
  /\ cons = "sleep"
  /\ cons' = "waiting" /\ mutex' = "free"
  /\ UNCHANGED <<queue, closed, prod, item, closer, result, answer>>

SpuriousWakeup ==
  /\ cons = "waiting"
  /\ cons' = "lock"
  /\ UNCHANGED <<queue, closed, mutex, prod, item, closer, result, answer>>

\* queue_.pop, the size limit, and the unlock at the end of the scope.
BlockingPopTake ==
  /\ cons = "pop"
  /\ result' = PopResult(queue)
  /\ queue' = Popped(queue)
  /\ cons' = "idle" /\ mutex' = "free"
  /\ UNCHANGED <<closed, prod, item, closer, answer>>

-----------------------------------------------------------------------------
Producer == (\E s \in Strings : PushLock(s)) \/ PushItem \/ PushNotify

Closer == CloseLock \/ CloseSet \/ CloseNotify

Consumer ==
  \/ Pop \/ Closed \/ BlockingPopCall \/ BlockingPopLock \/ BlockingPopCheck
  \/ BlockingPopWait \/ SpuriousWakeup \/ BlockingPopTake

Next == Producer \/ Closer \/ Consumer

\* A thread inside an operation keeps running, and a consumer that finds the
\* mutex free again and again takes it in the end.  Nobody has to call push,
\* close or a pop, and a spurious wake-up may never come.
Fairness ==
  /\ WF_vars(PushItem) /\ WF_vars(PushNotify)
  /\ WF_vars(CloseSet) /\ WF_vars(CloseNotify)
  /\ SF_vars(BlockingPopLock) /\ WF_vars(BlockingPopCheck)
  /\ WF_vars(BlockingPopWait) /\ WF_vars(BlockingPopTake)

Spec == Init /\ [][Next]_vars

FairSpec == Spec /\ Fairness

-----------------------------------------------------------------------------
(* Properties *)

\* Who holds the mutex is who is between its lock and its unlock.
MutexOwner ==
  /\ mutex = "producer" <=> prod = "push"
  /\ mutex = "closer" <=> closer = "close"
  /\ mutex = "consumer" <=> cons \in {"check", "sleep", "pop"}

\* What blocking_pop concluded from the predicate still holds when it acts on
\* it: nobody can push or close before it sleeps, nobody else can pop.
ActsOnTruth ==
  /\ cons = "sleep" => ~Ready
  /\ cons = "pop" => Ready

\* No lost wake-up: whenever the consumer waits in blocking_pop although there
\* is an item or the queue is closed, the push or close that made it so has
\* its notify_one still to come.
NoLostWakeup ==
  cons = "waiting" /\ Ready => prod = "notify" \/ closer = "notify"

\* The inductive invariant: NoLostWakeup is preserved by a step to "waiting"
\* because of ActsOnTruth, and that one by push and close because of
\* MutexOwner.
IInv == TypeOK /\ MutexOwner /\ ActsOnTruth /\ NoLostWakeup

\* string_queue.h: "after calling the close() method, blocking_pop() will no
\* longer block": no step that starts with closed_ set puts the consumer to
\* sleep on the condition variable.
NeverWaitsOnceClosed ==
  [][closed /\ cons # "waiting" => cons' # "waiting"]_vars

\* The queue with its mutex and condition variable does what the atomic
\* queue of ClosableQueue does, the promise that blocking_pop returns included.
Abstract ==
  INSTANCE ClosableQueue
    WITH items <- queue, isClosed <- closed, popped <- result,
         call <- IF cons = "idle" THEN "idle" ELSE "blocking"

AbstractSpec == Abstract!AbsSpec

=============================================================================
