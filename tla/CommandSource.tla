--------------------------- MODULE CommandSource ----------------------------
(***************************************************************************)
(* gr-starcoder/lib/command_source_impl.cc: the block that takes the       *)
(* commands a client sends, serialized, from a string_queue and publishes  *)
(* them to the flowgraph from a thread of its own.  The producer is        *)
(* clientReceiveLoop; start and stop are called by GNU Radio's scheduler.  *)
(*                                                                         *)
(* The queue is used as the atomic queue of ClosableQueue.                 *)
(***************************************************************************)
EXTENDS QueueOps, FiniteSets

CONSTANTS
  Unparsable,   \* strings that ParseFromString refuses
  MaxCommands,  \* bound: accepted commands that are recorded; the client sends any number
  MaxStarts     \* bound: calls of start()

ASSUME CommandAssumption ==
  /\ Unparsable \subseteq Strings \ {EmptyString}
  /\ MaxCommands \in Nat
  /\ MaxStarts \in Nat

VARIABLES
  queue,      \* queue_, its contents
  closed,     \* queue_.close() has been called
  finished,   \* finished_
  life,       \* the scheduler: "new" | "running" | "close" | "join" | "stopped"
  starts,     \* calls of start() so far
  reader,     \* readloop, in the thread of every call of start()
  cur,        \* its local variable s
  recorded,   \* the histories are kept: the queue accepted MaxCommands at most
  accepted,   \* history: what the queue has accepted
  published   \* history: what was published on port_

histories == <<recorded, accepted, published>>
vars == <<queue, closed, finished, life, starts, reader, cur, histories>>

Threads == 1..MaxStarts

ReaderStates == {"none", "check", "pop", "parse", "next", "ended"}

TypeOK ==
  /\ queue \in Seq(Strings) /\ Len(queue) <= Capacity
  /\ closed \in BOOLEAN
  /\ finished \in BOOLEAN
  /\ life \in {"new", "running", "close", "join", "stopped"}
  /\ starts \in 0..MaxStarts
  /\ reader \in [Threads -> ReaderStates]
  /\ cur \in [Threads -> Strings]
  /\ recorded \in BOOLEAN
  /\ accepted \in Seq(Strings)
  /\ published \in Seq(Strings)

Init ==
  /\ queue = <<>>
  /\ closed = FALSE
  /\ finished = FALSE
  /\ life = "new"
  /\ starts = 0
  /\ reader = [t \in Threads |-> "none"]
  /\ cur = [t \in Threads |-> EmptyString]
  /\ recorded = TRUE
  /\ accepted = <<>>
  /\ published = <<>>

-----------------------------------------------------------------------------
\* clientReceiveLoop pushes a command; it has the queue once the block has
\* been started, and keeps it when the block is stopped.  Nothing bounds what
\* it sends; only the histories end, at MaxCommands.
Push(s) ==
  /\ life # "new"
  /\ queue' = Pushed(queue, s)
  /\ recorded' = (recorded /\ (HasRoom(queue) => Len(accepted) < MaxCommands))
  /\ accepted' = IF ~recorded' THEN <<>>
                 ELSE IF HasRoom(queue) THEN Append(accepted, s) ELSE accepted
  /\ published' = IF recorded' THEN published ELSE <<>>
  /\ UNCHANGED <<closed, finished, life, starts, reader, cur>>

Start ==
  /\ life \in {"new", "stopped"} /\ starts < MaxStarts
  /\ life' = "running"
  /\ finished' = FALSE
  /\ starts' = starts + 1
  /\ reader' = [reader EXCEPT ![starts + 1] = "check"]
  /\ UNCHANGED <<queue, closed, cur, histories>>

\* stop(): finished_ is set ...
Stop ==
  /\ life = "running"
  /\ life' = "close"
  /\ finished' = TRUE
  /\ UNCHANGED <<queue, closed, starts, reader, cur, histories>>

\* Mutant: stop() that does not close the queue.
StopLeavesOpen ==
  /\ life = "close"
  /\ life' = "join"
  /\ UNCHANGED <<queue, closed, finished, starts, reader, cur, histories>>

\* ... the queue is closed, which wakes the thread ...
StopCloses ==
  /\ life = "close"
  /\ life' = "join"
  /\ closed' = TRUE
  /\ UNCHANGED <<queue, finished, starts, reader, cur, histories>>

\* Mutant: stop() that does not wait for the thread.
StopDoesNotJoin ==
  /\ life = "join"
  /\ life' = "stopped"
  /\ UNCHANGED <<queue, closed, finished, starts, reader, cur, histories>>

\* ... and thread_->join().
StopJoins ==
  /\ life = "join" /\ reader[starts] = "ended"
  /\ life' = "stopped"
  /\ UNCHANGED <<queue, closed, finished, starts, reader, cur, histories>>

-----------------------------------------------------------------------------
(* readloop *)

\* Both pops end the inner loop on a string of length 0.
Take(t) ==
  /\ cur' = [cur EXCEPT ![t] = PopResult(queue)]
  /\ queue' = Popped(queue)
  /\ reader' = [reader EXCEPT ![t] = IF PopResult(queue) = EmptyString
                                     THEN "check" ELSE "parse"]
  /\ UNCHANGED <<closed, finished, life, starts, histories>>

\* while (!finished_).
ReadCheck(t) ==
  /\ reader[t] = "check"
  /\ reader' = [reader EXCEPT ![t] = IF finished THEN "ended" ELSE "pop"]
  /\ UNCHANGED <<queue, closed, finished, life, starts, cur, histories>>

ReadBlocking(t) ==
  /\ reader[t] = "pop"
  /\ queue # <<>> \/ closed
  /\ Take(t)

\* message_port_pub.
Published(s) == published' = IF recorded THEN Append(published, s) ELSE published

\* Mutants: the thread ends at a command it cannot parse; it gives the command
\* in hand up when the block is being stopped.
PublishOrEnd(t) ==
  /\ reader[t] = "parse"
  /\ \/ /\ cur[t] \in Unparsable
        /\ reader' = [reader EXCEPT ![t] = "ended"]
        /\ UNCHANGED published
     \/ /\ cur[t] \notin Unparsable
        /\ reader' = [reader EXCEPT ![t] = "next"]
        /\ Published(cur[t])
  /\ UNCHANGED <<queue, closed, finished, life, starts, cur, recorded, accepted>>

PublishUnlessFinished(t) ==
  /\ reader[t] = "parse"
  /\ reader' = [reader EXCEPT ![t] = "next"]
  /\ IF cur[t] \in Unparsable \/ finished THEN UNCHANGED published ELSE Published(cur[t])
  /\ UNCHANGED <<queue, closed, finished, life, starts, cur, recorded, accepted>>

\* ParseFromString; a command it refuses is skipped.  Whether the thread is to
\* finish is not looked at before the queue is found empty.
Publish(t) ==
  /\ reader[t] = "parse"
  /\ reader' = [reader EXCEPT ![t] = "next"]
  /\ IF cur[t] \in Unparsable THEN UNCHANGED published ELSE Published(cur[t])
  /\ UNCHANGED <<queue, closed, finished, life, starts, cur, recorded, accepted>>

ReadNext(t) == reader[t] = "next" /\ Take(t)

ReadLoop(t) == ReadCheck(t) \/ ReadBlocking(t) \/ Publish(t) \/ ReadNext(t)

-----------------------------------------------------------------------------
Next ==
  \/ \E s \in Strings : Push(s)
  \/ Start \/ Stop \/ StopCloses \/ StopJoins
  \/ \E t \in Threads : ReadLoop(t)

\* A thread that can run does, and so does a stop() under way.  The client may
\* send, or not send, as it likes.
Fairness ==
  /\ WF_vars(StopCloses) /\ WF_vars(StopJoins)
  /\ \A t \in Threads : WF_vars(ReadLoop(t))

Spec == Init /\ [][Next]_vars

FairSpec == Spec /\ Fairness

-----------------------------------------------------------------------------
(* Properties *)

Active(t) == reader[t] \notin {"none", "ended"}

\* The queue has a single consumer, as its lock-free buffer requires, also
\* when a block that was stopped is started again.
SingleConsumer == \A t, u \in Threads : Active(t) /\ Active(u) => t = u

Deliverable == Strings \ (Unparsable \cup Large \cup {EmptyString})

\* A thread has taken a command from the queue and not yet published it.
InHand == \E t \in Threads : reader[t] = "parse"

\* Every command the queue accepted has been published, is in the hands of
\* the thread, or is still in the queue, in this order and once: parse errors,
\* empty commands, stop and restart lose, repeat and reorder none.
NothingLost ==
  LET n == Taken(queue, accepted)
  IN  recorded =>
        /\ HoldsRest(queue, accepted)
        /\ \A t \in Threads : reader[t] = "parse" => n > 0 /\ cur[t] = accepted[n]
        /\ SelectedFrom(published, accepted, IF InHand THEN n - 1 ELSE n, Deliverable)

\* The client goes on sending for ever, to a queue with room.
ClientGoesOn == []<><<\E s \in Strings : Push(s)>>_vars

\* From some time on the thread never leaves the inner loop of readloop.
NeverRunsDry == <>[](\E t \in Threads : reader[t] \in {"parse", "next"})

\* stop() returns: the thread leaves blocking_pop, and then its loop.  The one
\* exception is a client that goes on sending so fast that the inner loop, which
\* does not test finished_, never finds the queue empty: stop() then joins for
\* ever.
StopReturns ==
  (ClientGoesOn /\ NeverRunsDry) \/ (life \in {"close", "join"} ~> life = "stopped")

\* A running block gets to the commands in its queue, restarted or not, and
\* whatever else it was sent before, unless more commands come for ever.
CommandsAreRead ==
  \/ ClientGoesOn
  \/ (life = "running" /\ queue # <<>> ~> life # "running" \/ queue = <<>>)

=============================================================================
