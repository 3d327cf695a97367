--------------------------- MODULE ClosableQueue ----------------------------
(***************************************************************************)
(* What cqueue/string_queue promises its users: a bounded FIFO queue of    *)
(* strings that drops what does not fit, whose blocking_pop returns as     *)
(* soon as there is an item or the queue is closed, and that stays closed. *)
(* Every operation is one atomic step; there is no mutex and no condition  *)
(* variable.  StringQueue is shown to implement this specification.        *)
(***************************************************************************)
EXTENDS QueueOps

VARIABLES
  items,     \* the contents, oldest first
  isClosed,  \* close() has been called
  call,      \* "idle", or "blocking" inside a blocking_pop
  popped,    \* the string returned by the last pop() or blocking_pop()
  answer     \* the Boolean returned by the last closed()

absVars == <<items, isClosed, call, popped, answer>>

AbsInit ==
  /\ items = <<>>
  /\ isClosed = FALSE
  /\ call = "idle"
  /\ popped = EmptyString
  /\ answer = FALSE

AbsPush(s) ==
  /\ HasRoom(items)
  /\ items' = Append(items, s)
  /\ UNCHANGED <<isClosed, call, popped, answer>>

AbsClose ==
  /\ isClosed' = TRUE
  /\ UNCHANGED <<items, call, popped, answer>>

Take ==
  /\ popped' = PopResult(items)
  /\ items' = Popped(items)

AbsPop ==
  /\ call = "idle"
  /\ Take
  /\ UNCHANGED <<isClosed, call, answer>>

AbsBlockingPopCall ==
  /\ call = "idle"
  /\ call' = "blocking"
  /\ UNCHANGED <<items, isClosed, popped, answer>>

AbsBlockingPopReturn ==
  /\ call = "blocking"
  /\ items # <<>> \/ isClosed
  /\ Take
  /\ call' = "idle"
  /\ UNCHANGED <<isClosed, answer>>

AbsClosed ==
  /\ call = "idle"
  /\ answer' = isClosed
  /\ UNCHANGED <<items, isClosed, call, popped>>

AbsNext ==
  \/ \E s \in Strings : AbsPush(s)
  \/ AbsClose
  \/ AbsPop
  \/ AbsBlockingPopCall
  \/ AbsBlockingPopReturn
  \/ AbsClosed

\* The safety part, and the contract with its only liveness promise: a
\* blocking_pop that has something to return does return.
AbsSafety == AbsInit /\ [][AbsNext]_absVars

AbsSpec == AbsSafety /\ WF_absVars(AbsBlockingPopReturn)

=============================================================================
