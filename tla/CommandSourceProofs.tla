------------------------ MODULE CommandSourceProofs -------------------------
(***************************************************************************)
(* The queue of a command source has one consumer at a time, and of the    *)
(* commands it accepts none is lost, repeated or overtaken, for any number *)
(* of starts, commands and strings.                                        *)
(***************************************************************************)
EXTENDS CommandSource, QueueOpsProofs, TLAPS

\* stop() returns only after the join, and start() follows a return: the threads
\* of earlier starts have ended, and those of later ones do not exist.
OneThread ==
  /\ \A t \in Threads : t < starts => reader[t] = "ended"
  /\ \A t \in Threads : t > starts => reader[t] = "none"
  /\ life = "new" <=> starts = 0
  /\ life = "stopped" => reader[starts] = "ended"

IInv == TypeOK /\ OneThread

USE DEF histories

\* A step of a reading thread that is between its start and its end moves that
\* thread only; by OneThread it is the thread of the last start.
LEMMA ReaderMoves ==
  ASSUME IInv, NEW t \in Threads, reader[t] \notin {"none", "ended"},
         NEW v \in ReaderStates, reader' = [reader EXCEPT ![t] = v],
         life' = life, starts' = starts
  PROVE  OneThread' /\ reader' \in [Threads -> ReaderStates]
<1>1. t = starts /\ life # "stopped"
  BY CommandAssumption DEF IInv, OneThread, TypeOK, Threads
<1>2. reader' \in [Threads -> ReaderStates]
  BY DEF IInv, TypeOK
<1>3. OneThread'
  BY <1>1, CommandAssumption DEF IInv, OneThread, TypeOK, Threads
<1> QED BY <1>2, <1>3

\* readloop: the test of finished_, the two pops, the publication.
LEMMA ReadLoopStep ==
  ASSUME IInv, NEW t \in Threads, ReadLoop(t)
  PROVE  IInv'
<1>1. CASE ReadCheck(t)
  <2>1. OneThread' /\ reader' \in [Threads -> ReaderStates]
    BY <1>1, ReaderMoves DEF ReadCheck, ReaderStates
  <2> QED BY <1>1, <2>1 DEF ReadCheck, IInv, TypeOK
<1>2. ASSUME Take(t), reader[t] \notin {"none", "ended"} PROVE IInv'
  <2>1. OneThread' /\ reader' \in [Threads -> ReaderStates]
    BY <1>2, ReaderMoves DEF Take, ReaderStates
  <2>2. PopResult(queue) \in Strings /\ Popped(queue) \in Seq(Strings)
        /\ Len(Popped(queue)) <= Capacity
    BY QueueTypes, QueueBounds DEF IInv, TypeOK
  <2> QED BY <1>2, <2>1, <2>2 DEF Take, IInv, TypeOK
<1>3. CASE ReadBlocking(t)
  BY <1>2, <1>3 DEF ReadBlocking
<1>4. CASE ReadNext(t)
  BY <1>2, <1>4 DEF ReadNext
<1>5. CASE Publish(t)
  <2>1. OneThread' /\ reader' \in [Threads -> ReaderStates]
    BY <1>5, ReaderMoves DEF Publish, ReaderStates
  <2>2. published' \in Seq(Strings)
    <3>1. published \in Seq(Strings) /\ cur[t] \in Strings
      BY DEF IInv, TypeOK
    <3>2. Append(published, cur[t]) \in Seq(Strings)
      BY <3>1
    <3>3. published' \in {published, Append(published, cur[t])}
      BY <1>5 DEF Publish, Published
    <3> QED BY <3>1, <3>2, <3>3
  <2> QED BY <1>5, <2>1, <2>2 DEF Publish, IInv, TypeOK
<1> QED BY <1>1, <1>3, <1>4, <1>5 DEF ReadLoop

\* The initial state satisfies the invariant.
LEMMA InitIInv == Init => IInv
<1> SUFFICES ASSUME Init PROVE IInv
  OBVIOUS
<1>1. queue \in Seq(Strings) /\ Len(queue) <= Capacity
  BY QueueAssumption DEF Init
<1>2. accepted \in Seq(Strings) /\ published \in Seq(Strings) /\ recorded \in BOOLEAN
  BY DEF Init
<1>3. reader \in [Threads -> ReaderStates] /\ cur \in [Threads -> Strings]
  BY QueueAssumption DEF Init, ReaderStates
<1>4. TypeOK
  <2>1. starts \in 0..MaxStarts
    BY CommandAssumption DEF Init
  <2>2. closed \in BOOLEAN /\ finished \in BOOLEAN
    BY DEF Init
  <2>3. life \in {"new", "running", "close", "join", "stopped"}
    BY DEF Init
  <2> QED BY <1>1, <1>2, <1>3, <2>1, <2>2, <2>3 DEF TypeOK
<1>5. OneThread
  BY CommandAssumption DEF Init, OneThread, Threads
<1> QED BY <1>4, <1>5 DEF IInv

\* Every step preserves it.
LEMMA NextIInv == IInv /\ [Next]_vars => IInv'
<1> SUFFICES ASSUME IInv, [Next]_vars PROVE IInv'
  OBVIOUS
<1>1. ASSUME NEW s \in Strings, Push(s) PROVE IInv'
  <2>1. queue' \in Seq(Strings) /\ Len(queue') <= Capacity
    BY <1>1, QueueTypes, QueueBounds DEF Push, IInv, TypeOK
  <2>2. accepted' \in Seq(Strings) /\ published' \in Seq(Strings) /\ recorded' \in BOOLEAN
    BY <1>1 DEF Push, IInv, TypeOK
  <2> QED BY <1>1, <2>1, <2>2 DEF Push, IInv, TypeOK, OneThread
<1>2. CASE Start
  <2>1. starts + 1 \in Threads
    BY <1>2, CommandAssumption DEF Start, IInv, TypeOK, Threads
  <2>2. TypeOK'
    <3>1. starts' \in 0..MaxStarts
      BY <1>2, CommandAssumption DEF Start, IInv, TypeOK
    <3>2. reader' \in [Threads -> ReaderStates]
      BY <1>2, <2>1 DEF Start, IInv, TypeOK, ReaderStates
    <3>3. finished' \in BOOLEAN /\ life' \in {"new", "running", "close", "join", "stopped"}
      BY <1>2 DEF Start
    <3> QED BY <1>2, <3>1, <3>2, <3>3 DEF Start, IInv, TypeOK
  <2>3. OneThread'
    BY <1>2, <2>1, CommandAssumption DEF Start, IInv, TypeOK, OneThread, Threads
  <2> QED BY <2>2, <2>3 DEF IInv
<1>3. CASE Stop
  BY <1>3 DEF Stop, IInv, TypeOK, OneThread
<1>4. CASE StopCloses
  BY <1>4 DEF StopCloses, IInv, TypeOK, OneThread
<1>5. CASE StopJoins
  BY <1>5 DEF StopJoins, IInv, TypeOK, OneThread
<1>6. ASSUME NEW t \in Threads, ReadLoop(t) PROVE IInv'
  BY <1>6, ReadLoopStep
<1>7. CASE UNCHANGED vars
  BY <1>7 DEF vars, IInv, TypeOK, OneThread
<1> QED BY <1>1, <1>2, <1>3, <1>4, <1>5, <1>6, <1>7 DEF Next

\* At most one thread reads the queue of a command source at a time, however
\* often the block is stopped and started again.
THEOREM OneConsumer == Spec => []SingleConsumer
<1>1. IInv => SingleConsumer
  BY CommandAssumption DEF IInv, TypeOK, OneThread, SingleConsumer, Active, Threads
<1> QED BY InitIInv, NextIInv, <1>1, PTL DEF Spec

-----------------------------------------------------------------------------
(* Nothing is lost *)

\* What the thread has in hand is neither the empty string, on which both pops
\* end the inner loop, nor an item over the limit, for which they return it.
HandIsCommand ==
  \A t \in Threads : reader[t] = "parse" => cur[t] \notin Large \cup {EmptyString}

LostInv == IInv /\ HandIsCommand /\ NothingLost

\* The thread that takes its next step is the only one that may have a command
\* in hand.
LEMMA OnlyHand ==
  ASSUME IInv, NEW t \in Threads, reader[t] \notin {"none", "ended"}
  PROVE  \A u \in Threads : reader[u] = "parse" => u = t
BY CommandAssumption DEF IInv, TypeOK, OneThread, Threads

\* A step that touches neither the queue nor what is in hand.
LEMMA LostFrame ==
  ASSUME NothingLost, HandIsCommand,
         UNCHANGED <<queue, histories, cur>>,
         \A t \in Threads : reader'[t] = "parse" <=> reader[t] = "parse"
  PROVE  NothingLost' /\ HandIsCommand'
<1>1. InHand' <=> InHand
  BY DEF InHand
<1>2. Taken(queue, accepted)' = Taken(queue, accepted)
  BY DEF Taken
<1> QED BY <1>1, <1>2 DEF NothingLost, HandIsCommand

\* A command is accepted or, when the queue is full, refused.
LEMMA PushLost ==
  ASSUME LostInv, NEW s \in Strings, Push(s)
  PROVE  NothingLost' /\ HandIsCommand'
<1>0. HandIsCommand'
  BY DEF Push, LostInv, HandIsCommand
<1> SUFFICES ASSUME recorded' PROVE NothingLost'
  BY <1>0 DEF NothingLost
<1>rec. recorded
  BY DEF Push
<1>1. CASE ~HasRoom(queue)
  <2>1. UNCHANGED <<queue, histories, cur, reader>>
    BY <1>1, <1>rec DEF Push, Pushed
  <2> QED BY <2>1, LostFrame DEF LostInv
<1>2. CASE HasRoom(queue)
  <2> DEFINE n == Taken(queue, accepted)
             k == IF InHand THEN n - 1 ELSE n
  <2>1. /\ queue' = Append(queue, s) /\ accepted' = Append(accepted, s)
        /\ published' = published /\ reader' = reader /\ cur' = cur
    BY <1>2 DEF Push, Pushed
  <2>2. queue \in Seq(Strings) /\ accepted \in Seq(Strings) /\ HoldsRest(queue, accepted)
    BY <1>rec DEF LostInv, IInv, TypeOK, NothingLost
  <2>3. HoldsRest(queue', accepted') /\ Taken(queue', accepted') = n
    BY <2>1, <2>2, RestPushed
  <2>4. n \in Nat /\ n <= Len(accepted) /\ Len(accepted) \in Nat
    BY <2>2, TakenBounds
  <2>5. InHand => n > 0
    BY <1>rec DEF InHand, LostInv, NothingLost
  <2>6. k \in 0..Len(accepted)
    BY <2>4, <2>5
  <2>7. SelectedFrom(published, accepted, k, Deliverable)
    BY <1>rec DEF LostInv, NothingLost
  <2> HIDE DEF k
  <2>8. SelectedFrom(published, accepted', k, Deliverable)
    BY <2>1, <2>2, <2>6, <2>7, SelectedAccept
  <2>9. ASSUME NEW t \in Threads, reader'[t] = "parse"
        PROVE  n > 0 /\ cur'[t] = accepted'[n]
    <3>1. n > 0 /\ cur[t] = accepted[n]
      BY <1>rec, <2>1, <2>9 DEF LostInv, NothingLost
    <3>2. n \in 1..Len(accepted)
      BY <2>4, <3>1
    <3> HIDE DEF n
    <3>3. accepted'[n] = accepted[n]
      BY <2>1, <2>2, <3>2, AppendItems
    <3> QED BY <2>1, <3>1, <3>3
  <2>10. InHand' <=> InHand
    BY <2>1 DEF InHand
  <2>11. k = IF InHand' THEN n - 1 ELSE n
    BY <2>10 DEF k
  <2> HIDE DEF n
  <2>12. SelectedFrom(published', accepted', IF InHand' THEN n - 1 ELSE n, Deliverable)
    BY <2>1, <2>8, <2>11
  <2> QED BY <2>3, <2>9, <2>12 DEF NothingLost
<1> QED BY <1>1, <1>2

\* A pop moves one item from the queue to the hand of the thread, or discards
\* an item that is empty or too large, or finds nothing.
LEMMA TakeLost ==
  ASSUME LostInv, NEW t \in Threads, reader[t] \in {"pop", "next"}, Take(t)
  PROVE  NothingLost' /\ HandIsCommand'
<1> DEFINE n == Taken(queue, accepted)
<1>1. \A u \in Threads : reader[u] # "parse"
  BY OnlyHand DEF LostInv
<1>0. HandIsCommand'
  BY <1>1 DEF Take, HandIsCommand, LostInv, IInv, TypeOK, PopResult
<1> SUFFICES ASSUME recorded' PROVE NothingLost'
  BY <1>0 DEF NothingLost
<1>rec. recorded
  BY DEF Take
<1>2. /\ queue \in Seq(Strings) /\ accepted \in Seq(Strings)
      /\ published \in Seq(Strings) /\ HoldsRest(queue, accepted)
      /\ SelectedFrom(published, accepted, n, Deliverable)
  BY <1>1, <1>rec DEF LostInv, IInv, TypeOK, NothingLost, InHand
<1>3. n \in Nat
  BY <1>2, TakenBounds
<1>4. /\ \A u \in Threads \ {t} : reader'[u] = reader[u]
      /\ reader'[t] = IF PopResult(queue) = EmptyString THEN "check" ELSE "parse"
      /\ cur'[t] = PopResult(queue)
      /\ queue' = Popped(queue) /\ accepted' = accepted /\ published' = published
  BY DEF Take, LostInv, IInv, TypeOK
<1>5. CASE PopResult(queue) = EmptyString
  <2>1. \A u \in Threads : reader'[u] # "parse"
    BY <1>1, <1>4, <1>5
  <2>2. ~InHand'
    BY <2>1 DEF InHand
  <2>3. CASE queue = <<>>
    <3>1. queue' = queue
      BY <1>4, <2>3 DEF Popped
    <3> QED BY <1>2, <1>4, <2>1, <2>2, <3>1 DEF NothingLost
  <2>4. CASE queue # <<>>
    <3>1. queue' = Tail(queue)
      BY <1>4, <2>4 DEF Popped
    <3>2. HoldsRest(queue', accepted) /\ Taken(queue', accepted) = n + 1
          /\ Head(queue) = accepted[n + 1]
      BY <1>2, <2>4, <3>1, RestPopped
    <3>3. accepted[n + 1] \notin Deliverable
      BY <1>5, <2>4, <3>2 DEF PopResult, Deliverable
    <3> HIDE DEF n
    <3>4. SelectedFrom(published, accepted, n + 1, Deliverable)
      BY <1>2, <1>3, <3>3, SelectedSkip
    <3> QED BY <1>4, <2>1, <2>2, <3>2, <3>4 DEF NothingLost
  <2> QED BY <2>3, <2>4
<1>6. CASE PopResult(queue) # EmptyString
  <2>1. queue # <<>> /\ PopResult(queue) = Head(queue) /\ Head(queue) \notin Large
    BY <1>6 DEF PopResult
  <2>2. queue' = Tail(queue)
    BY <1>4, <2>1 DEF Popped
  <2>3. HoldsRest(queue', accepted) /\ Taken(queue', accepted) = n + 1
        /\ Head(queue) = accepted[n + 1]
    BY <1>2, <2>1, <2>2, RestPopped
  <2>4. reader'[t] = "parse" /\ \A u \in Threads : reader'[u] = "parse" => u = t
    BY <1>1, <1>4, <1>6
  <2>5. InHand'
    BY <2>4 DEF InHand
  <2> HIDE DEF n
  <2>6. n + 1 > 0 /\ (n + 1) - 1 = n
    BY <1>3
  <2> QED BY <1>2, <1>4, <2>1, <2>3, <2>4, <2>5, <2>6 DEF NothingLost
<1> QED BY <1>5, <1>6

\* The command in hand is published, or skipped when it cannot be parsed.
LEMMA PublishLost ==
  ASSUME LostInv, NEW t \in Threads, Publish(t)
  PROVE  NothingLost' /\ HandIsCommand'
<1> DEFINE n == Taken(queue, accepted)
           m == n - 1
<1>1. \A u \in Threads : reader[u] = "parse" => u = t
  BY OnlyHand DEF LostInv, Publish
<1>0. HandIsCommand'
  BY <1>1 DEF Publish, HandIsCommand, LostInv, IInv, TypeOK
<1> SUFFICES ASSUME recorded' PROVE NothingLost'
  BY <1>0 DEF NothingLost
<1>rec. recorded
  BY DEF Publish
<1>2. /\ queue \in Seq(Strings) /\ accepted \in Seq(Strings)
      /\ published \in Seq(Strings) /\ HoldsRest(queue, accepted)
      /\ n > 0 /\ cur[t] = accepted[n] /\ cur[t] \in Strings
      /\ SelectedFrom(published, accepted, m, Deliverable)
      /\ cur[t] \notin Large \cup {EmptyString}
  BY <1>rec DEF LostInv, IInv, TypeOK, NothingLost, HandIsCommand, InHand, Publish
<1>3. n \in Nat
  BY <1>2, TakenBounds
<1>4. /\ \A u \in Threads \ {t} : reader'[u] = reader[u]
      /\ reader'[t] = "next"
      /\ queue' = queue /\ accepted' = accepted /\ cur' = cur
      /\ published' = IF cur[t] \in Unparsable THEN published ELSE Append(published, cur[t])
  BY <1>rec DEF Publish, Published, LostInv, IInv, TypeOK
<1>5. \A u \in Threads : reader'[u] # "parse"
  BY <1>1, <1>4
<1>6. ~InHand'
  BY <1>5 DEF InHand
<1>7. m \in Nat /\ n = m + 1
  BY <1>2, <1>3
<1>8. Taken(queue', accepted') = m + 1 /\ HoldsRest(queue', accepted')
  BY <1>2, <1>4, <1>7
<1> HIDE DEF n, m
<1>9. SelectedFrom(published', accepted, m + 1, Deliverable)
  <2>1. CASE cur[t] \in Unparsable
    <3>1. accepted[m + 1] \notin Deliverable
      BY <1>2, <1>7, <2>1 DEF Deliverable
    <3> QED BY <1>2, <1>4, <1>7, <2>1, <3>1, SelectedSkip
  <2>2. CASE cur[t] \notin Unparsable
    <3>1. cur[t] \in Deliverable /\ accepted[m + 1] = cur[t]
      BY <1>2, <1>7, <2>2 DEF Deliverable
    <3> QED BY <1>2, <1>4, <1>7, <2>2, <3>1, SelectedKeep
  <2> QED BY <2>1, <2>2
<1> QED BY <1>4, <1>5, <1>6, <1>8, <1>9 DEF NothingLost

\* Every step preserves the invariant.
LEMMA NextLostInv == LostInv /\ [Next]_vars => LostInv'
<1> SUFFICES ASSUME LostInv, [Next]_vars PROVE NothingLost' /\ HandIsCommand'
  BY NextIInv DEF LostInv
<1>1. ASSUME NEW s \in Strings, Push(s) PROVE NothingLost' /\ HandIsCommand'
  BY <1>1, PushLost
<1>2. CASE Start
  <2>1. starts + 1 \in Threads /\ reader[starts + 1] = "none"
    BY <1>2, CommandAssumption DEF Start, LostInv, IInv, TypeOK, OneThread, Threads
  <2>2. \A t \in Threads : reader'[t] = "parse" <=> reader[t] = "parse"
    BY <1>2, <2>1 DEF Start, LostInv, IInv, TypeOK
  <2> QED BY <1>2, <2>2, LostFrame DEF Start, LostInv
<1>3. CASE Stop
  BY <1>3, LostFrame DEF Stop, LostInv
<1>4. CASE StopCloses
  BY <1>4, LostFrame DEF StopCloses, LostInv
<1>5. CASE StopJoins
  BY <1>5, LostFrame DEF StopJoins, LostInv
<1>6. ASSUME NEW t \in Threads, ReadCheck(t) PROVE NothingLost' /\ HandIsCommand'
  <2>1. \A u \in Threads : reader'[u] = "parse" <=> reader[u] = "parse"
    BY <1>6 DEF ReadCheck, LostInv, IInv, TypeOK
  <2> QED BY <1>6, <2>1, LostFrame DEF ReadCheck, LostInv
<1>7. ASSUME NEW t \in Threads, ReadBlocking(t) PROVE NothingLost' /\ HandIsCommand'
  BY <1>7, TakeLost DEF ReadBlocking
<1>8. ASSUME NEW t \in Threads, ReadNext(t) PROVE NothingLost' /\ HandIsCommand'
  BY <1>8, TakeLost DEF ReadNext
<1>9. ASSUME NEW t \in Threads, Publish(t) PROVE NothingLost' /\ HandIsCommand'
  BY <1>9, PublishLost
<1>10. CASE UNCHANGED vars
  BY <1>10, LostFrame DEF vars, LostInv
<1> QED
  BY <1>1, <1>2, <1>3, <1>4, <1>5, <1>6, <1>7, <1>8, <1>9, <1>10 DEF Next, ReadLoop

\* Of the commands the queue has accepted, those that can be parsed are
\* published once each and in their order, up to the one in hand, and the rest
\* is in the queue: a stop, a restart, a parse error, an empty or an oversized
\* command loses and reorders none of the others.
THEOREM NothingIsLost == Spec => []NothingLost
<1>1. Init => LostInv
  <2> SUFFICES ASSUME Init PROVE HandIsCommand /\ NothingLost
    BY InitIInv DEF LostInv
  <2>1. \A t \in Threads : reader[t] # "parse"
    BY DEF Init
  <2>2. ~InHand /\ HandIsCommand
    BY <2>1 DEF InHand, HandIsCommand
  <2>3. queue = <<>> /\ accepted = <<>> /\ published = <<>>
    BY DEF Init
  <2>4. Taken(queue, accepted) = 0 /\ HoldsRest(queue, accepted)
    BY <2>3 DEF Taken, HoldsRest
  <2>5. SelectedFrom(published, accepted, 0, Deliverable)
    BY <2>3, SelectedNone
  <2> QED BY <2>1, <2>2, <2>4, <2>5 DEF NothingLost
<1>2. LostInv => NothingLost
  BY DEF LostInv
<1> QED BY <1>1, <1>2, NextLostInv, PTL DEF Spec

=============================================================================
