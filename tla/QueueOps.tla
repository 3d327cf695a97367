------------------------------ MODULE QueueOps ------------------------------
(***************************************************************************)
(* The sequential meaning of the operations of cqueue/string_queue, shared *)
(* by every module that holds such a queue.  A queue is the sequence of    *)
(* the strings in the boost::lockfree::spsc_queue, oldest first.           *)
(***************************************************************************)
EXTENDS Naturals, Sequences

CONSTANTS
  Strings,      \* what can be pushed
  EmptyString,  \* the string of length 0, also what a failed pop returns
  Large,        \* the strings longer than 10485760 bytes
  Capacity      \* buffer_size of the spsc_queue

ASSUME QueueAssumption ==
  /\ EmptyString \in Strings
  /\ Large \subseteq Strings \ {EmptyString}
  /\ Capacity \in Nat \ {0}

\* spsc_queue::push: refuses the item when the buffer is full.
HasRoom(q) == Len(q) < Capacity

\* Mutant: a push that ignores the capacity.
PushedUnbounded(q, s) == Append(q, s)

Pushed(q, s) == IF HasRoom(q) THEN Append(q, s) ELSE q

\* spsc_queue::pop: removes the oldest item, or leaves the queue as it is.
Popped(q) == IF q = <<>> THEN q ELSE Tail(q)

\* What pop() and blocking_pop() return: the default-constructed string when
\* nothing was there, and also in place of an item over the size limit, which
\* has been removed from the queue by then.
PopResult(q) ==
  IF q = <<>> \/ Head(q) \in Large THEN EmptyString ELSE Head(q)

-----------------------------------------------------------------------------
(* What the properties of the consumers say of a queue q that has accepted  *)
(* the items of the sequence in.                                            *)

\* How many of them have been taken, and that q holds the others.
Taken(q, in) == Len(in) - Len(q)

HoldsRest(q, in) ==
  /\ Len(q) <= Len(in)
  /\ \A i \in 1..Len(q) : q[i] = in[Taken(q, in) + i]

\* out consists of those of the first n items that are in Keep, all of them,
\* each once and in their order: f tells where an item of out comes from.
SelectedFrom(out, in, n, Keep) ==
  \E f \in [1..Len(out) -> 1..n] :
    /\ \A i, j \in 1..Len(out) : i < j => f[i] < f[j]
    /\ \A i \in 1..Len(out) : out[i] = in[f[i]]
    /\ \A k \in 1..n : in[k] \in Keep <=> \E i \in 1..Len(out) : f[i] = k

=============================================================================
