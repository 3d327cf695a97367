------------------------- MODULE StreamServerProofs -------------------------
(***************************************************************************)
(* Proofs about StreamServer, for every number of streams, blocks and      *)
(* shutdown goroutines, every capacity and every message bound.            *)
(***************************************************************************)
EXTENDS StreamServer, QueueOpsProofs, FiniteSetTheorems, TLAPS

\* A wait group has finitely many members.
LEMMA MembersFinite ==
  ASSUME NEW s \in Streams PROVE IsFiniteSet(Members(s))
<1>1. IsFiniteSet({b \in Blocks : obs[s][b] \in InsideLoop})
  BY ServerAssumption, FS_Subset
<1>2. IsFiniteSet(IF perf[s] \in InsidePerf THEN {Perf} ELSE {})
  BY FS_EmptySet, FS_Singleton
<1>3. IsFiniteSet(IF Opened(s) /\ ~stopChannel[s] THEN {Handler} ELSE {})
  BY FS_EmptySet, FS_Singleton
<1> QED
  BY <1>1, <1>2, <1>3, FS_Union DEF Members

\* The three ways in which a step may treat the wait groups: it leaves them
\* alone, adds one member to one of them, or takes one away.
LEMMA SameMembers ==
  ASSUME TypeOK, WaitGroupExact, wg' = wg,
         \A t \in Streams : Members(t)' = Members(t)
  PROVE  WaitGroupExact' /\ wg' \in [Streams -> Nat]
  BY DEF WaitGroupExact, TypeOK

LEMMA OneMemberMore ==
  ASSUME TypeOK, WaitGroupExact, NEW s \in Streams, NEW x,
         x \notin Members(s), Members(s)' = Members(s) \cup {x},
         \A t \in Streams \ {s} : Members(t)' = Members(t),
         wg' = [wg EXCEPT ![s] = @ + 1]
  PROVE  WaitGroupExact' /\ wg' \in [Streams -> Nat]
<1>1. Cardinality(Members(s) \cup {x}) = Cardinality(Members(s)) + 1
  BY MembersFinite, FS_AddElement
<1>2. wg'[s] = Cardinality(Members(s)')
  BY <1>1 DEF WaitGroupExact, TypeOK
<1>3. \A t \in Streams \ {s} : wg'[t] = Cardinality(Members(t)')
  BY DEF WaitGroupExact, TypeOK
<1>4. WaitGroupExact'
  BY <1>2, <1>3 DEF WaitGroupExact
<1> QED
  BY <1>4 DEF TypeOK

LEMMA OneMemberLess ==
  ASSUME TypeOK, WaitGroupExact, NEW s \in Streams, NEW x,
         x \in Members(s), Members(s)' = Members(s) \ {x},
         \A t \in Streams \ {s} : Members(t)' = Members(t),
         wg' = [wg EXCEPT ![s] = @ - 1]
  PROVE  WaitGroupExact' /\ wg' \in [Streams -> Nat]
<1>1. /\ Cardinality(Members(s) \ {x}) = Cardinality(Members(s)) - 1
      /\ Cardinality(Members(s) \ {x}) \in Nat
  BY MembersFinite, FS_RemoveElement, FS_CardinalityType
<1>2. wg'[s] = Cardinality(Members(s)')
  BY <1>1 DEF WaitGroupExact, TypeOK
<1>3. \A t \in Streams \ {s} : wg'[t] = Cardinality(Members(t)')
  BY DEF WaitGroupExact, TypeOK
<1>4. WaitGroupExact'
  BY <1>2, <1>3 DEF WaitGroupExact
<1>5. wg'[s] \in Nat
  BY <1>1, <1>2
<1> QED
  BY <1>4, <1>5 DEF TypeOK

-----------------------------------------------------------------------------
\* Every step treats the wait groups in one of those ways.
LEMMA WaitGroupStep ==
  IInv /\ [Next]_vars => WaitGroupExact' /\ wg' \in [Streams -> Nat]
<1> SUFFICES ASSUME IInv, [Next]_vars
             PROVE  WaitGroupExact' /\ wg' \in [Streams -> Nat]
  OBVIOUS
<1> USE DEF callVars, errorVars, loopVars, queueVars, registryVars, processVars, exitVars
<1>0. TypeOK /\ WaitGroupExact
  BY DEF IInv
<1>env. ASSUME NEW s \in Streams, Environment(s)
        PROVE  WaitGroupExact' /\ wg' \in [Streams -> Nat]
  <2>1. wg' = wg /\ \A t \in Streams : Members(t)' = Members(t)
    BY <1>0, <1>env
    DEF Environment, RunFlowgraph, Goto, ClientCloses, ClientVanishes, Enqueue,
        EnqueueUsesDeleted, Members, Opened, AfterWait, TypeOK
  <2> QED
    BY <1>0, <2>1, SameMembers
<1>call. ASSUME NEW s \in Streams, Call(s), ~NewStreamHandler(s)
         PROVE  WaitGroupExact' /\ wg' \in [Streams -> Nat]
  <2>1. wg' = wg /\ \A t \in Streams : Members(t)' = Members(t)
    BY <1>0, <1>call
    DEF Call, RecvStart, RecvRejects, Reject, StartInstance, StartInstanceFails,
        StartAfterFinalize, RegisterQueue, RegisterQueueFails, WaitReturns,
        WaitBlocks, WaitPanics, DecRef, Delete, Goto, Members, Opened, AfterWait,
        TypeOK
  <2> QED
    BY <1>0, <2>1, SameMembers
<1>new. ASSUME NEW s \in Streams, NewStreamHandler(s)
        PROVE  WaitGroupExact' /\ wg' \in [Streams -> Nat]
  <2>1. ~Opened(s) /\ Opened(s)' /\ ~stopChannel'[s]
    <3>1. /\ rpc[s] = "queues" /\ rpc'[s] = "register"
          /\ stopChannel' = stopChannel
      BY <1>new, <1>0 DEF NewStreamHandler, Goto, TypeOK
    <3>2. ~stopChannel[s]
      BY <3>1 DEF IInv, HandlerStages, AfterWait
    <3> QED
      BY <3>1, <3>2 DEF Opened, AfterWait
  <2>2. Members(s) = {}
    BY <2>1 DEF Members, IInv, HandlerStages, InsideLoop, InsidePerf
  <2>3. Members(s)' = {Handler}
    BY <2>1, <1>new, <1>0
    DEF NewStreamHandler, Members, InsideLoop, InsidePerf, TypeOK
  <2>4. \A t \in Streams \ {s} : Members(t)' = Members(t)
    BY <1>new, <1>0
    DEF NewStreamHandler, Goto, Members, Opened, AfterWait, TypeOK
  <2>5. wg' = [wg EXCEPT ![s] = @ + 1]
    BY <1>new DEF NewStreamHandler
  <2>6. Handler \notin Members(s) /\ Members(s)' = Members(s) \cup {Handler}
    BY <2>2, <2>3
  <2> QED
    BY <1>0, <2>4, <2>5, <2>6, OneMemberMore
<1>client. ASSUME NEW s \in Streams,
                  ClientCommand(s) \/ ClientPushes(s) \/ ClientEOF(s) \/ ClientError(s)
           PROVE  WaitGroupExact' /\ wg' \in [Streams -> Nat]
  <2>1. wg' = wg /\ \A t \in Streams : Members(t)' = Members(t)
    BY <1>client
    DEF ClientCommand, ClientPushes, ClientEOF, ClientError, Members, Opened
  <2> QED
    BY <1>0, <2>1, SameMembers
<1>obs. ASSUME NEW s \in Streams, NEW b \in Blocks, ObservableQueueLoop(s, b)
        PROVE  WaitGroupExact' /\ wg' \in [Streams -> Nat]
  <2> USE DEF At, InsideLoop
  <2>0. /\ \A t \in Streams : Opened(t)' = Opened(t)
        /\ perf' = perf /\ stopChannel' = stopChannel
        /\ \A t \in Streams, d \in Blocks : t # s \/ d # b => obs'[t][d] = obs[t][d]
    <3>1. /\ rpc' = rpc /\ perf' = perf /\ stopChannel' = stopChannel
          /\ \E to : obs' = [obs EXCEPT ![s][b] = to]
      BY <1>obs
      DEF ObservableQueueLoop, LoopJoins, LoopUsesDeleted, LoopPops, LoopSkips,
          LoopSends, LoopSendFails, LoopChecksClosed, LoopDrains,
          LoopDrainSends
    <3>2. obs \in [Streams -> [Blocks -> ObsStates]]
      BY <1>0 DEF TypeOK
    <3> QED
      BY <3>1, <3>2 DEF Opened
  <2>others. \A t \in Streams \ {s} : Members(t)' = Members(t)
    BY <2>0 DEF Members
  <2>1. CASE LoopJoins(s, b)
    <3>1. b \notin Members(s) /\ Members(s)' = Members(s) \cup {b}
      BY <2>0, <2>1, <1>0, ServerAssumption DEF LoopJoins, Members, TypeOK
    <3>2. wg' = [wg EXCEPT ![s] = @ + 1]
      BY <2>1 DEF LoopJoins, Join
    <3> QED
      BY <1>0, <3>1, <3>2, <2>others, OneMemberMore
  <2>2. CASE obs'[s][b] = "done"
    <3>1. b \in Members(s) /\ Members(s)' = Members(s) \ {b}
      BY <1>obs, <2>0, <2>2, <1>0, ServerAssumption
      DEF ObservableQueueLoop, LoopJoins, LoopUsesDeleted, LoopPops, LoopSkips,
          LoopSends, LoopSendFails, LoopChecksClosed, LoopDrains,
          LoopDrainSends, Members, TypeOK
    <3>2. wg' = [wg EXCEPT ![s] = @ - 1]
      BY <1>obs, <2>2, <1>0
      DEF ObservableQueueLoop, LoopJoins, LoopUsesDeleted, LoopPops, LoopSkips,
          LoopSends, LoopSendFails, LoopChecksClosed, LoopDrains,
          LoopDrainSends, Leave, TypeOK
    <3> QED
      BY <1>0, <3>1, <3>2, <2>others, OneMemberLess
  <2>3. CASE ~LoopJoins(s, b) /\ obs'[s][b] # "done"
    <3>1. /\ wg' = wg
          /\ obs[s][b] \in InsideLoop /\ obs'[s][b] \in InsideLoop
      BY <1>obs, <2>3, <1>0
      DEF ObservableQueueLoop, LoopUsesDeleted, LoopPops, LoopSkips, LoopSends,
          LoopSendFails, LoopChecksClosed, LoopDrains, LoopDrainSends, TypeOK
    <3>2. Members(s)' = Members(s)
      BY <3>1, <2>0 DEF Members
    <3> QED
      BY <1>0, <3>1, <3>2, <2>others, SameMembers
  <2> QED
    BY <2>1, <2>2, <2>3
<1>perf. ASSUME NEW s \in Streams, PerformanceCounterCollectionLoop(s)
         PROVE  WaitGroupExact' /\ wg' \in [Streams -> Nat]
  <2> USE DEF PerfAt, InsidePerf
  <2>0. /\ \A t \in Streams : Opened(t)' = Opened(t)
        /\ obs' = obs /\ stopChannel' = stopChannel
        /\ \A t \in Streams \ {s} : perf'[t] = perf[t]
    BY <1>perf, <1>0
    DEF PerformanceCounterCollectionLoop, PerfDisabled, PerfJoins,
        PerfGetsGauges, PerfGaugesFail, PerfTickFails, PerfUsesFreed,
        PerfStops, TypeOK, Opened
  <2>others. \A t \in Streams \ {s} : Members(t)' = Members(t)
    BY <2>0 DEF Members
  <2>1. CASE PerfJoins(s)
    <3>1. Perf \notin Members(s) /\ Members(s)' = Members(s) \cup {Perf}
      BY <2>0, <2>1, <1>0, ServerAssumption DEF PerfJoins, Members, TypeOK
    <3>2. wg' = [wg EXCEPT ![s] = @ + 1]
      BY <2>1 DEF PerfJoins, Join
    <3> QED
      BY <1>0, <3>1, <3>2, <2>others, OneMemberMore
  <2>2. CASE PerfGaugesFail(s) \/ PerfTickFails(s) \/ PerfStops(s)
    <3>1. Perf \in Members(s) /\ Members(s)' = Members(s) \ {Perf}
      BY <2>2, <2>0, <1>0, ServerAssumption
      DEF PerfGaugesFail, PerfTickFails, PerfStops, Members, TypeOK
    <3>2. wg' = [wg EXCEPT ![s] = @ - 1]
      BY <2>2 DEF PerfGaugesFail, PerfTickFails, PerfStops, Leave
    <3> QED
      BY <1>0, <3>1, <3>2, <2>others, OneMemberLess
  <2>3. CASE PerfDisabled(s) \/ PerfGetsGauges(s) \/ PerfUsesFreed(s)
    <3>1. /\ wg' = wg
          /\ perf[s] \in InsidePerf <=> perf'[s] \in InsidePerf
      BY <2>3, <1>0 DEF PerfDisabled, PerfGetsGauges, PerfUsesFreed, TypeOK
    <3>2. Members(s)' = Members(s)
      BY <3>1, <2>0 DEF Members
    <3> QED
      BY <1>0, <3>1, <3>2, <2>others, SameMembers
  <2> QED
    BY <1>perf, <2>1, <2>2, <2>3 DEF PerformanceCounterCollectionLoop
<1>release. CASE Release
  <2>0. target \in Streams
    BY <1>release, <1>0 DEF Release, IInv, RegistryStages, TypeOK
  <2> PICK r \in Streams : r = target
    BY <2>0
  <2>1. Handler \in Members(r) /\ Members(r)' = Members(r) \ {Handler}
    BY <1>release, <1>0, ServerAssumption
    DEF Release, Members, Opened, IInv, CloseOnce, RegistryStages,
        HandlerStages, TypeOK
  <2>2. \A t \in Streams \ {r} : Members(t)' = Members(t)
    BY <1>release, <1>0 DEF Release, Members, Opened, TypeOK
  <2>3. wg' = [wg EXCEPT ![r] = @ - 1]
    BY <1>release DEF Release, Leave
  <2> QED
    BY <1>0, <2>1, <2>2, <2>3, OneMemberLess
<1>registry. CASE Registry /\ ~Release
  <2>1. wg' = wg /\ \A t \in Streams : Members(t)' = Members(t)
    BY <1>0, <1>registry
    DEF Registry, Closing, Register, Goto, Deregister, StopFlowGraph,
        StopFlowGraphFails, CloseAllBegins, CloseAllNext, CloseAllEnds,
        Members, Opened, AfterWait, TypeOK
  <2> QED
    BY <1>0, <2>1, SameMembers
<1>closer. ASSUME NEW c \in Closers, Terminate(c) \/ Hangup(c) \/ Shutdown(c)
           PROVE  WaitGroupExact' /\ wg' \in [Streams -> Nat]
  <2>1. wg' = wg /\ \A t \in Streams : Members(t)' = Members(t)
    BY <1>closer
    DEF Terminate, Hangup, Shutdown, CountFlowgraphs, SleepEnds, Finalize,
        GracefulStop, GracefulStopEnds, OnlyCloserMoves, Members, Opened
  <2> QED
    BY <1>0, <2>1, SameMembers
<1>stutter. CASE Exit \/ UNCHANGED vars
  <2>1. wg' = wg /\ \A t \in Streams : Members(t)' = Members(t)
    BY <1>stutter DEF Exit, vars, Members, Opened
  <2> QED
    BY <1>0, <2>1, SameMembers
<1> QED
  BY <1>env, <1>call, <1>new, <1>client, <1>obs, <1>perf, <1>release,
     <1>registry, <1>closer, <1>stutter
  DEF Next, Goroutines

-----------------------------------------------------------------------------
\* finish() keeps the types of what it changes.
LEMMA FinishTypes ==
  ASSUME TypeOK, NEW s \in Streams, NEW err \in {"nil", "error"}, Finish(s, err)
  PROVE  /\ streamError' \in [Streams -> {"nil", "error"}]
         /\ clientFinished' \in [Streams -> BOOLEAN]
         /\ finishing' \in [Streams -> Nat]
<1>1. streamError' \in [Streams -> {"nil", "error"}]
  BY DEF Finish, TypeOK
<1>2. finishing' \in [Streams -> Nat]
  BY DEF Finish, TypeOK
<1>3. clientFinished' \in [Streams -> BOOLEAN]
  BY DEF Finish, TypeOK
<1> QED
  BY <1>1, <1>2, <1>3

\* wg.Done() keeps the type of what it changes besides the counter.
LEMMA LeaveTypes ==
  ASSUME TypeOK, NEW s \in Streams, Leave(s)
  PROVE  released' \in [Streams -> BOOLEAN]
<1>1. \E x \in BOOLEAN : released' = [released EXCEPT ![s] = x]
  BY DEF Leave, TypeOK
<1> QED
  BY <1>1 DEF TypeOK

\* Every step keeps the types.
LEMMA TypeStep ==
  IInv /\ [Next]_vars => TypeOK'
<1> SUFFICES ASSUME IInv, [Next]_vars PROVE TypeOK'
  OBVIOUS
<1> USE DEF callVars, errorVars, loopVars, queueVars, registryVars, processVars, exitVars
<1>0. TypeOK /\ wg' \in [Streams -> Nat]
  BY WaitGroupStep DEF IInv
<1>env. ASSUME NEW s \in Streams, Environment(s)
        PROVE  TypeOK'
  <2>1. CASE RunFlowgraph(s)
    BY <1>0, <2>1 DEF RunFlowgraph, Goto, TypeOK, RpcStates
  <2>2. CASE ClientCloses(s)
    BY <1>0, <2>2 DEF ClientCloses, TypeOK
  <2>3. CASE ClientVanishes(s)
    BY <1>0, <2>3 DEF ClientVanishes, TypeOK
  <2>4. ASSUME NEW b \in Blocks, NEW m \in Strings, Enqueue(s, b, m)
        PROVE  TypeOK'
    <3>1. queue[s][b] \in Seq(Strings) /\ accepted[s][b] \in Seq(Strings)
      BY <1>0 DEF TypeOK
    <3>2. Pushed(queue[s][b], m) \in Seq(Strings)
      BY <3>1, QueueTypes
    <3>9. Append(accepted[s][b], m) \in Seq(Strings)
      BY <3>1
    <3>3. /\ queue' \in [Streams -> [Blocks -> Seq(Strings)]]
          /\ accepted' \in [Streams -> [Blocks -> Seq(Strings)]]
      <4>1. accepted' = accepted \/ accepted' = [accepted EXCEPT ![s][b] = Append(@, m)]
        BY <2>4 DEF Enqueue
      <4> QED
        BY <1>0, <2>4, <3>2, <3>9, <4>1 DEF Enqueue, TypeOK
    <3> QED
      BY <1>0, <2>4, <3>3 DEF Enqueue, TypeOK
  <2>5. CASE EnqueueUsesDeleted(s)
    BY <1>0, <2>5 DEF EnqueueUsesDeleted, TypeOK
  <2> QED
    BY <1>env, <2>1, <2>2, <2>3, <2>4, <2>5 DEF Environment
<1>call. ASSUME NEW s \in Streams, Call(s)
         PROVE  TypeOK'
  <2> USE DEF Goto, RpcStates
  <2>1. CASE \/ RecvStart(s) \/ StartAfterFinalize(s) \/ WaitBlocks(s)
            \/ DecRef(s) \/ Delete(s)
    <3>1. \E to \in RpcStates : rpc' = [rpc EXCEPT ![s] = to]
      BY <2>1 DEF RecvStart, StartAfterFinalize, WaitBlocks, DecRef, Delete
    <3>2. rpc' \in [Streams -> RpcStates]
      BY <1>0, <3>1 DEF TypeOK
    <3>3. exit' \in {"no", "pending", "exited", "panicked"}
      BY <1>0, <2>1
      DEF RecvStart, StartAfterFinalize, WaitBlocks, DecRef, Delete, TypeOK
    <3>4. UNCHANGED <<conn, fg, retval, errorVars, client, loopVars, stopChannel,
                      queueVars, registryVars, closer, interpreter, serving,
                      killAfterStream>>
      BY <2>1 DEF RecvStart, StartAfterFinalize, WaitBlocks, DecRef, Delete
    <3> QED
      BY <1>0, <3>2, <3>3, <3>4 DEF TypeOK
  <2>2. CASE RecvRejects(s) \/ StartInstanceFails(s) \/ RegisterQueueFails(s)
    <3>1. killAfterStream' \in BOOLEAN
      BY <1>0, <2>2
      DEF RecvRejects, StartInstanceFails, RegisterQueueFails, TypeOK
    <3>2. \E from \in RpcStates, err \in {"nil", "error"} : Reject(s, from, err)
      BY <2>2 DEF RecvRejects, StartInstanceFails, RegisterQueueFails
    <3>3. /\ rpc' \in [Streams -> RpcStates]
          /\ retval' \in [Streams -> {"none", "nil", "error"}]
      BY <1>0, <3>2 DEF Reject, TypeOK
    <3>4. UNCHANGED <<conn, fg, errorVars, client, loopVars, stopChannel,
                      queueVars, registryVars, closer, interpreter, serving,
                      exit>>
      BY <3>2 DEF Reject
    <3> QED
      BY <1>0, <3>1, <3>3, <3>4 DEF TypeOK
  <2>3. CASE StartInstance(s)
    BY <1>0, <2>3 DEF StartInstance, TypeOK
  <2>4. ASSUME NEW b \in Blocks, RegisterQueue(s, b)
        PROVE  TypeOK'
    BY <1>0, <2>4 DEF RegisterQueue, TypeOK
  <2>5. CASE NewStreamHandler(s)
    BY <1>0, <2>5 DEF NewStreamHandler, TypeOK, ObsStates, PerfStates
  <2>6. CASE WaitReturns(s)
    <3>1. rpc' = [rpc EXCEPT ![s] = "decref"]
      BY <2>6 DEF WaitReturns
    <3>2. rpc' \in [Streams -> RpcStates]
      BY <1>0, <3>1 DEF TypeOK
    <3> QED
      BY <1>0, <2>6, <3>2 DEF WaitReturns, TypeOK
  <2>7. CASE WaitPanics(s)
    BY <1>0, <2>7 DEF WaitPanics, TypeOK
  <2> QED
    BY <1>call, <2>1, <2>2, <2>3, <2>4, <2>5, <2>6, <2>7 DEF Call
<1>client. ASSUME NEW s \in Streams,
                  ClientCommand(s) \/ ClientPushes(s) \/ ClientEOF(s) \/ ClientError(s)
           PROVE  TypeOK'
  <2>1. CASE ClientCommand(s) \/ ClientPushes(s)
    <3>1. client' \in [Streams -> {"none", "recv", "push", "done", "undefined"}]
      <4>1. \E state \in {"recv", "push", "undefined"} :
              client' = [client EXCEPT ![s] = state]
        BY <2>1 DEF ClientCommand, ClientPushes
      <4> QED
        BY <1>0, <4>1 DEF TypeOK
    <3>2. UNCHANGED <<callVars, errorVars, loopVars, stopChannel, queueVars,
                      registryVars, processVars>>
      BY <2>1 DEF ClientCommand, ClientPushes
    <3> QED
      BY <1>0, <3>1, <3>2 DEF TypeOK
  <2>2. CASE ClientEOF(s) \/ ClientError(s)
    <3>1. \E err \in {"nil", "error"} : Finish(s, err)
      BY <2>2 DEF ClientEOF, ClientError
    <3>2. client' \in [Streams -> {"none", "recv", "push", "done", "undefined"}]
      <4>1. client' = [client EXCEPT ![s] = "done"]
        BY <2>2 DEF ClientEOF, ClientError
      <4> QED
        BY <1>0, <4>1 DEF TypeOK
    <3>3. UNCHANGED <<callVars, loopVars, stopChannel, queueVars, registryVars,
                      processVars>>
      BY <2>2 DEF ClientEOF, ClientError
    <3>4. /\ streamError' \in [Streams -> {"nil", "error"}]
          /\ clientFinished' \in [Streams -> BOOLEAN]
          /\ finishing' \in [Streams -> Nat]
      BY <1>0, <3>1, FinishTypes
    <3> QED
      BY <1>0, <3>2, <3>3, <3>4 DEF TypeOK
  <2> QED
    BY <1>client, <2>1, <2>2
<1>obs. ASSUME NEW s \in Streams, NEW b \in Blocks, ObservableQueueLoop(s, b)
        PROVE  TypeOK'
  <2> USE DEF At, ObsStates
  <2>0. queue[s][b] \in Seq(Strings) /\ sent[s][b] \in Seq(Strings) /\ cur[s][b] \in Strings
    BY <1>0 DEF TypeOK
  <2>take. ASSUME TakeItem(s, b)
           PROVE  /\ cur' \in [Streams -> [Blocks -> Strings]]
                  /\ queue' \in [Streams -> [Blocks -> Seq(Strings)]]
    BY <1>0, <2>0, <2>take, QueueTypes DEF TakeItem, TypeOK
  <2>send. ASSUME sent' = sent \/ SentOn(s, b)
           PROVE  sent' \in [Streams -> [Blocks -> Seq(Strings)]]
    <3>1. Append(sent[s][b], cur[s][b]) \in Seq(Strings)
      BY <2>0
    <3>2. sent' = sent \/ sent' = [sent EXCEPT ![s][b] = Append(@, cur[s][b])]
      BY <2>send DEF SentOn
    <3>3. CASE sent' = sent
      BY <1>0, <3>3 DEF TypeOK
    <3>4. ASSUME NEW out \in Seq(Strings), sent' = [sent EXCEPT ![s][b] = out]
          PROVE  sent' \in [Streams -> [Blocks -> Seq(Strings)]]
      BY <1>0, <3>4 DEF TypeOK
    <3> QED
      BY <3>1, <3>2, <3>3, <3>4
  <2>1. CASE LoopJoins(s, b)
    <3>1. late' \in [Streams -> SUBSET (Blocks \cup {Perf})]
      BY <1>0, <2>1 DEF LoopJoins, Join, TypeOK
    <3> QED
      BY <1>0, <2>1, <3>1 DEF LoopJoins, Join, TypeOK
  <2>2. CASE LoopUsesDeleted(s, b)
    BY <1>0, <2>2 DEF LoopUsesDeleted, TypeOK
  <2>3. CASE LoopPops(s, b)
    <3>1. obs' \in [Streams -> [Blocks -> ObsStates]]
      BY <1>0, <2>3 DEF LoopPops, TypeOK
    <3> QED
      BY <1>0, <2>3, <2>take, <3>1 DEF LoopPops, TypeOK
  <2>4. CASE LoopSkips(s, b)
    BY <1>0, <2>4 DEF LoopSkips, TypeOK
  <2>5. CASE LoopSends(s, b)
    <3>1. sent' \in [Streams -> [Blocks -> Seq(Strings)]]
      BY <2>5, <2>send DEF LoopSends
    <3> QED
      BY <1>0, <2>5, <3>1 DEF LoopSends, TypeOK
  <2>6. CASE LoopSendFails(s, b)
    <3>1. Finish(s, "error") /\ Leave(s)
      BY <2>6 DEF LoopSendFails
    <3>2. /\ streamError' \in [Streams -> {"nil", "error"}]
          /\ clientFinished' \in [Streams -> BOOLEAN]
          /\ finishing' \in [Streams -> Nat]
          /\ released' \in [Streams -> BOOLEAN]
      BY <1>0, <3>1, FinishTypes, LeaveTypes
    <3>3. obs' \in [Streams -> [Blocks -> ObsStates]]
      BY <1>0, <2>6 DEF LoopSendFails, TypeOK
    <3>4. UNCHANGED <<callVars, client, cur, perf, late, stopChannel, queueVars,
                      registryVars, processVars>>
      BY <2>6 DEF LoopSendFails
    <3> QED
      BY <1>0, <3>2, <3>3, <3>4 DEF TypeOK
  <2>7. CASE LoopChecksClosed(s, b)
    BY <1>0, <2>7 DEF LoopChecksClosed, TypeOK
  <2>8. CASE LoopDrains(s, b)
    <3>0. \E to \in ObsStates : obs' = [obs EXCEPT ![s][b] = to]
      BY <2>8 DEF LoopDrains
    <3>1. obs' \in [Streams -> [Blocks -> ObsStates]]
      BY <1>0, <3>0 DEF TypeOK
    <3>2. released' = released \/ Leave(s)
      BY <2>8 DEF LoopDrains
    <3>3. released' \in [Streams -> BOOLEAN]
      BY <1>0, <3>2, LeaveTypes DEF TypeOK
    <3> QED
      BY <1>0, <2>8, <2>take, <3>1, <3>3 DEF LoopDrains, TypeOK
  <2>9. CASE LoopDrainSends(s, b)
    <3>1. sent' \in [Streams -> [Blocks -> Seq(Strings)]]
      BY <2>9, <2>send DEF LoopDrainSends
    <3> QED
      BY <1>0, <2>9, <3>1 DEF LoopDrainSends, TypeOK
  <2> QED
    BY <1>obs, <2>1, <2>2, <2>3, <2>4, <2>5, <2>6, <2>7, <2>8, <2>9
    DEF ObservableQueueLoop
<1>perf. ASSUME NEW s \in Streams, PerformanceCounterCollectionLoop(s)
         PROVE  TypeOK'
  <2> USE DEF PerfAt, PerfStates
  <2>1. CASE PerfJoins(s)
    <3>1. late' \in [Streams -> SUBSET (Blocks \cup {Perf})]
      BY <1>0, <2>1 DEF PerfJoins, Join, TypeOK
    <3> QED
      BY <1>0, <2>1, <3>1 DEF PerfJoins, Join, TypeOK
  <2>2. CASE ~PerfJoins(s)
    <3>1. \E to \in PerfStates : perf' = [perf EXCEPT ![s] = to]
      BY <1>perf, <2>2
      DEF PerformanceCounterCollectionLoop, PerfDisabled, PerfGetsGauges,
          PerfGaugesFail, PerfTickFails, PerfUsesFreed, PerfStops
    <3>2. perf' \in [Streams -> PerfStates]
      BY <1>0, <3>1 DEF TypeOK
    <3>3. UNCHANGED <<callVars, client, obs, cur, late, stopChannel, queueVars,
                      registryVars, processVars>>
      BY <1>perf, <2>2
      DEF PerformanceCounterCollectionLoop, PerfDisabled, PerfGetsGauges,
          PerfGaugesFail, PerfTickFails, PerfUsesFreed, PerfStops
    <3>4. UNCHANGED errorVars \/ Finish(s, "error")
      BY <1>perf, <2>2
      DEF PerformanceCounterCollectionLoop, PerfDisabled, PerfGetsGauges,
          PerfGaugesFail, PerfTickFails, PerfUsesFreed, PerfStops
    <3>5. /\ streamError' \in [Streams -> {"nil", "error"}]
          /\ clientFinished' \in [Streams -> BOOLEAN]
          /\ finishing' \in [Streams -> Nat]
      <4>1. CASE UNCHANGED errorVars
        BY <1>0, <4>1 DEF TypeOK
      <4>2. CASE Finish(s, "error")
        BY <1>0, <4>2, FinishTypes
      <4> QED
        BY <3>4, <4>1, <4>2
    <3>6. released' = released \/ Leave(s)
      BY <1>perf, <2>2
      DEF PerformanceCounterCollectionLoop, PerfDisabled, PerfGetsGauges,
          PerfGaugesFail, PerfTickFails, PerfUsesFreed, PerfStops
    <3>7. released' \in [Streams -> BOOLEAN]
      BY <1>0, <3>6, LeaveTypes DEF TypeOK
    <3> QED
      BY <1>0, <3>2, <3>3, <3>5, <3>7 DEF TypeOK
  <2> QED
    BY <2>1, <2>2
<1>registry. CASE Registry
  <2>1. ASSUME NEW s \in Streams, Register(s)
        PROVE  TypeOK'
    <3>1. rpc' \in [Streams -> RpcStates]
      BY <1>0, <2>1 DEF Register, Goto, RpcStates, TypeOK
    <3> QED
      BY <1>0, <2>1, <3>1 DEF Register, Goto, TypeOK
  <2>2. ASSUME NEW s \in Streams, Deregister(s)
        PROVE  TypeOK'
    BY <1>0, <2>2 DEF Deregister, TypeOK
  <2>3. ASSUME NEW c \in Closers, CloseAllBegins(c) \/ CloseAllEnds(c)
        PROVE  TypeOK'
    <3>1. CASE CloseAllBegins(c)
      BY <1>0, <3>1 DEF CloseAllBegins, CloserStates, TypeOK
    <3>2. CASE CloseAllEnds(c)
      BY <1>0, <3>2 DEF CloseAllEnds, CloserStates, TypeOK
    <3> QED
      BY <2>3, <3>1, <3>2
  <2>4. ASSUME NEW s \in Streams, CloseAllNext(s)
        PROVE  TypeOK'
    BY <1>0, <2>4 DEF CloseAllNext, TypeOK
  <2>5. CASE StopFlowGraph
    BY <1>0, <2>5 DEF StopFlowGraph, TypeOK
  <2>6. CASE StopFlowGraphFails
    <3>0. target \in Streams
      BY <1>0, <2>6 DEF StopFlowGraphFails, IInv, RegistryStages, TypeOK
    <3> PICK r \in Streams : r = target
      BY <3>0
    <3>1. Finish(r, "error")
      BY <2>6 DEF StopFlowGraphFails
    <3> QED
      BY <1>0, <2>6, <3>1, FinishTypes DEF StopFlowGraphFails, TypeOK
  <2>7. CASE Release
    <3>1. /\ qState' \in [Streams -> [Blocks -> {"none", "open", "closed"}]]
          /\ stopChannel' \in [Streams -> BOOLEAN]
      BY <1>0, <2>7 DEF Release, TypeOK
    <3>2. /\ streamHandlers' \subseteq Streams /\ flowgraphCount' \in Int
          /\ loop' \in {"select", "stop", "release", "all", "ended"}
      BY <1>0, <2>7 DEF Release, TypeOK
    <3>3. /\ accepted' \in [Streams -> [Blocks -> Seq(Strings)]]
          /\ sent' \in [Streams -> [Blocks -> Seq(Strings)]]
      <4>1. CASE accepted' = accepted /\ sent' = sent
        BY <1>0, <4>1 DEF TypeOK
      <4>2. CASE /\ accepted' = [accepted EXCEPT ![target] = [b \in Blocks |-> <<>>]]
                 /\ sent' = [sent EXCEPT ![target] = [b \in Blocks |-> <<>>]]
        <5>1. [b \in Blocks |-> <<>>] \in [Blocks -> Seq(Strings)]
          OBVIOUS
        <5> QED
          BY <1>0, <4>2, <5>1 DEF TypeOK
      <4> QED
        BY <2>7, <4>1, <4>2 DEF Release
    <3>4. target \in Streams
      BY <1>0, <2>7 DEF Release, IInv, RegistryStages, TypeOK
    <3> PICK r \in Streams : r = target
      BY <3>4
    <3>5. released' \in [Streams -> BOOLEAN]
      <4>1. Leave(r)
        BY <2>7 DEF Release
      <4> QED
        BY <1>0, <4>1, LeaveTypes
    <3> QED
      BY <1>0, <2>7, <3>1, <3>2, <3>3, <3>5 DEF Release, TypeOK
  <2> QED
    BY <1>registry, <2>1, <2>2, <2>3, <2>4, <2>5, <2>6, <2>7 DEF Registry, Closing
<1>closer. ASSUME NEW c \in Closers, Terminate(c) \/ Hangup(c) \/ Shutdown(c)
           PROVE  TypeOK'
  <2>1. closer' \in [Closers -> CloserStates]
    <3>1. \E to \in CloserStates : closer' = [closer EXCEPT ![c] = to]
      BY <1>closer
      DEF Terminate, Hangup, Shutdown, CountFlowgraphs, SleepEnds, Finalize,
          GracefulStop, GracefulStopEnds, CloserAt, CloserStates
    <3> QED
      BY <1>0, <3>1 DEF TypeOK
  <2>2. /\ interpreter' \in {"alive", "finalized"} /\ serving' \in BOOLEAN
        /\ UNCHANGED exitVars
    BY <1>0, <1>closer
    DEF Terminate, Hangup, Shutdown, CountFlowgraphs, SleepEnds, Finalize,
        GracefulStop, GracefulStopEnds, TypeOK
  <2>3. OnlyCloserMoves
    BY <1>closer
    DEF Terminate, Hangup, Shutdown, CountFlowgraphs, SleepEnds, Finalize,
        GracefulStop, GracefulStopEnds
  <2> QED
    BY <1>0, <2>1, <2>2, <2>3 DEF OnlyCloserMoves, TypeOK
<1>stutter. CASE Exit \/ UNCHANGED vars
  BY <1>0, <1>stutter DEF Exit, vars, TypeOK
<1> QED
  BY <1>env, <1>call, <1>client, <1>obs, <1>perf, <1>registry, <1>closer,
     <1>stutter
  DEF Next, Goroutines

-----------------------------------------------------------------------------
\* Every step keeps the stages of the calls.
LEMMA HandlerStep ==
  IInv /\ [Next]_vars => HandlerStages'
<1> SUFFICES ASSUME IInv, [Next]_vars PROVE HandlerStages'
  OBVIOUS
<1> USE DEF callVars, errorVars, loopVars, queueVars, registryVars, processVars, exitVars
<1>0. TypeOK /\ HandlerStages
  BY DEF IInv
<1>env. ASSUME NEW s \in Streams, Environment(s)
        PROVE  HandlerStages'
  BY <1>0, <1>env
  DEF Environment, RunFlowgraph, Goto, ClientCloses, ClientVanishes, Enqueue,
      EnqueueUsesDeleted, HandlerStages, Opened, AfterWait, TypeOK
<1>call. ASSUME NEW s \in Streams, Call(s), ~NewStreamHandler(s)
         PROVE  HandlerStages'
  <2>1. CASE WaitReturns(s) \/ WaitBlocks(s) \/ WaitPanics(s) \/ DecRef(s) \/ Delete(s)
    <3>1. UNCHANGED <<client, obs, perf, streamHandlers, stopChannel>>
      BY <2>1 DEF WaitReturns, WaitBlocks, WaitPanics, DecRef, Delete
    <3>2. \/ rpc' = rpc
          \/ /\ rpc[s] \in {"registered", "waiting"} \cup AfterWait
             /\ \E to \in {"waiting"} \cup AfterWait : rpc' = [rpc EXCEPT ![s] = to]
      BY <2>1 DEF WaitReturns, WaitBlocks, WaitPanics, DecRef, Delete, Goto, AfterWait
    <3>3. \A t \in Streams :
            /\ Opened(t)' <=> Opened(t)
            /\ rpc[t] \in {"registered", "waiting"} \cup AfterWait =>
                 rpc'[t] \in {"registered", "waiting"} \cup AfterWait
      BY <1>0, <3>2 DEF TypeOK, Opened
    <3> QED
      BY <1>0, <3>1, <3>3 DEF HandlerStages
  <2>2. CASE ~(WaitReturns(s) \/ WaitBlocks(s) \/ WaitPanics(s) \/ DecRef(s) \/ Delete(s))
    <3>1. UNCHANGED <<client, obs, perf, streamHandlers, stopChannel>>
      BY <1>call, <2>2
      DEF Call, RecvStart, RecvRejects, Reject, StartInstance,
          StartInstanceFails, StartAfterFinalize, RegisterQueue,
          RegisterQueueFails
    <3>2. \/ rpc' = rpc
          \/ /\ rpc[s] \in {"recv", "start", "queues"}
             /\ \E to \in {"start", "queues", "rejected", "startUndefined"} :
                  rpc' = [rpc EXCEPT ![s] = to]
      BY <1>call, <2>2
      DEF Call, RecvStart, RecvRejects, Reject, StartInstance,
          StartInstanceFails, StartAfterFinalize, RegisterQueue,
          RegisterQueueFails, Goto
    <3>3. \A t \in Streams :
            /\ Opened(t)' <=> Opened(t)
            /\ rpc[t] \in {"registered", "waiting"} \cup AfterWait =>
                 rpc'[t] \in {"registered", "waiting"} \cup AfterWait
      BY <1>0, <3>2 DEF TypeOK, Opened, AfterWait
    <3> QED
      BY <1>0, <3>1, <3>3 DEF HandlerStages
  <2> QED
    BY <2>1, <2>2
<1>new. ASSUME NEW s \in Streams, NewStreamHandler(s)
        PROVE  HandlerStages'
  BY <1>0, <1>new
  DEF NewStreamHandler, Goto, HandlerStages, Opened, AfterWait, TypeOK
<1>client. ASSUME NEW s \in Streams,
                  ClientCommand(s) \/ ClientPushes(s) \/ ClientEOF(s) \/ ClientError(s)
           PROVE  HandlerStages'
  BY <1>0, <1>client
  DEF ClientCommand, ClientPushes, ClientEOF, ClientError, HandlerStages,
      Opened, TypeOK
<1>obs. ASSUME NEW s \in Streams, NEW b \in Blocks, ObservableQueueLoop(s, b)
        PROVE  HandlerStages'
  <2>1. /\ rpc' = rpc /\ perf' = perf /\ client' = client
        /\ stopChannel' = stopChannel /\ streamHandlers' = streamHandlers
        /\ obs[s][b] # "none" /\ \E to : obs' = [obs EXCEPT ![s][b] = to]
    BY <1>obs
    DEF ObservableQueueLoop, LoopJoins, LoopUsesDeleted, LoopPops, LoopSkips,
        LoopSends, LoopSendFails, LoopChecksClosed, LoopDrains,
        LoopDrainSends, At
  <2>2. \A t \in Streams : ~Opened(t) => obs'[t] = obs[t]
    BY <2>1, <1>0 DEF HandlerStages, TypeOK
  <2> QED
    BY <1>0, <2>1, <2>2 DEF HandlerStages, Opened
<1>perf. ASSUME NEW s \in Streams, PerformanceCounterCollectionLoop(s)
         PROVE  HandlerStages'
  <2>1. /\ rpc' = rpc /\ obs' = obs /\ client' = client
        /\ stopChannel' = stopChannel /\ streamHandlers' = streamHandlers
        /\ perf[s] # "none" /\ \E to : perf' = [perf EXCEPT ![s] = to]
    BY <1>perf
    DEF PerformanceCounterCollectionLoop, PerfDisabled, PerfJoins,
        PerfGetsGauges, PerfGaugesFail, PerfTickFails, PerfUsesFreed,
        PerfStops, PerfAt
  <2>2. \A t \in Streams : ~Opened(t) => perf'[t] = perf[t]
    BY <2>1, <1>0 DEF HandlerStages, TypeOK
  <2> QED
    BY <1>0, <2>1, <2>2 DEF HandlerStages, Opened
<1>register. ASSUME NEW s \in Streams, Register(s)
             PROVE  HandlerStages'
  BY <1>0, <1>register
  DEF Register, Goto, HandlerStages, Opened, AfterWait, TypeOK
<1>release. CASE Release
  <2>1. target \in streamHandlers
    BY <1>release DEF Release, IInv, RegistryStages
  <2> QED
    BY <1>0, <1>release, <2>1 DEF Release, HandlerStages, Opened, TypeOK
<1>registry. CASE /\ Registry /\ ~Release
                  /\ \A s \in Streams : ~Register(s)
  BY <1>0, <1>registry
  DEF Registry, Closing, Deregister, StopFlowGraph, StopFlowGraphFails,
      CloseAllBegins, CloseAllNext, CloseAllEnds, HandlerStages, Opened
<1>closer. ASSUME NEW c \in Closers, Terminate(c) \/ Hangup(c) \/ Shutdown(c)
           PROVE  HandlerStages'
  BY <1>0, <1>closer
  DEF Terminate, Hangup, Shutdown, CountFlowgraphs, SleepEnds, Finalize,
      GracefulStop, GracefulStopEnds, OnlyCloserMoves, HandlerStages, Opened
<1>stutter. CASE Exit \/ UNCHANGED vars
  BY <1>0, <1>stutter DEF Exit, vars, HandlerStages, Opened
<1> QED
  BY <1>env, <1>call, <1>new, <1>client, <1>obs, <1>perf, <1>register,
     <1>release, <1>registry, <1>closer, <1>stutter
  DEF Next, Goroutines

\* Every step keeps the stages of the registry.
LEMMA RegistryStep ==
  IInv /\ [Next]_vars => RegistryStages'
<1> SUFFICES ASSUME IInv, [Next]_vars PROVE RegistryStages'
  OBVIOUS
<1> USE DEF callVars, errorVars, loopVars, queueVars, registryVars, processVars, exitVars
<1>0. TypeOK /\ RegistryStages
  BY DEF IInv
<1>same. ASSUME UNCHANGED <<stopChannel, loop, target, todo, closingAll, streamHandlers>>
         PROVE  RegistryStages'
  BY <1>0, <1>same DEF RegistryStages
<1>stream. ASSUME NEW s \in Streams, Environment(s) \/ Call(s) \/ Goroutines(s)
           PROVE  RegistryStages'
  <2>1. CASE Environment(s)
    BY <2>1, <1>same
    DEF Environment, RunFlowgraph, ClientCloses, ClientVanishes, Enqueue,
        EnqueueUsesDeleted
  <2>2. CASE Call(s)
    BY <2>2, <1>same
    DEF Call, RecvStart, RecvRejects, Reject, StartInstance,
        StartInstanceFails, StartAfterFinalize, RegisterQueue,
        RegisterQueueFails, NewStreamHandler, WaitReturns, WaitBlocks,
        WaitPanics, DecRef, Delete
  <2>3. CASE Goroutines(s)
    BY <2>3, <1>same
    DEF Goroutines, ClientCommand, ClientPushes, ClientEOF, ClientError,
        ObservableQueueLoop, LoopJoins,
        LoopUsesDeleted, LoopPops, LoopSkips, LoopSends, LoopSendFails,
        LoopChecksClosed, LoopDrains, LoopDrainSends,
        PerformanceCounterCollectionLoop, PerfDisabled, PerfJoins,
        PerfGetsGauges, PerfGaugesFail, PerfTickFails, PerfUsesFreed, PerfStops
  <2> QED
    BY <1>stream, <2>1, <2>2, <2>3
<1>register. ASSUME NEW s \in Streams, Register(s)
             PROVE  RegistryStages'
  <2>1. ~stopChannel[s]
    BY <1>register DEF Register, Goto, IInv, HandlerStages, AfterWait
  <2> QED
    BY <1>0, <1>register, <2>1 DEF Register, RegistryStages
<1>deregister. ASSUME NEW s \in Streams, Deregister(s)
               PROVE  RegistryStages'
  <2>1. CASE s \in streamHandlers
    <3>1. todo = {}
      BY <1>0, <1>deregister DEF Deregister, RegistryStages
    <3> QED
      BY <1>0, <1>deregister, <2>1, <3>1 DEF Deregister, RegistryStages
  <2>2. CASE s \notin streamHandlers
    BY <1>0, <1>deregister, <2>2 DEF Deregister, RegistryStages
  <2> QED
    BY <2>1, <2>2
<1>begins. ASSUME NEW c \in Closers, CloseAllBegins(c)
           PROVE  RegistryStages'
  BY <1>0, <1>begins DEF CloseAllBegins, RegistryStages
<1>next. ASSUME NEW s \in Streams, CloseAllNext(s)
         PROVE  RegistryStages'
  BY <1>0, <1>next DEF CloseAllNext, RegistryStages
<1>ends. ASSUME NEW c \in Closers, CloseAllEnds(c)
         PROVE  RegistryStages'
  BY <1>0, <1>ends DEF CloseAllEnds, RegistryStages
<1>stop. CASE StopFlowGraph \/ StopFlowGraphFails
  BY <1>0, <1>stop DEF StopFlowGraph, StopFlowGraphFails, RegistryStages
<1>release. CASE Release
  <2>1. CASE closingAll
    BY <1>0, <1>release, <2>1 DEF Release, RegistryStages, TypeOK
  <2>2. CASE ~closingAll
    BY <1>0, <1>release, <2>2 DEF Release, RegistryStages, TypeOK
  <2> QED
    BY <2>1, <2>2
<1>closer. ASSUME NEW c \in Closers, Terminate(c) \/ Hangup(c) \/ Shutdown(c)
           PROVE  RegistryStages'
  BY <1>closer, <1>same
  DEF Terminate, Hangup, Shutdown, CountFlowgraphs, SleepEnds, Finalize,
      GracefulStop, GracefulStopEnds, OnlyCloserMoves
<1>stutter. CASE Exit \/ UNCHANGED vars
  BY <1>same, <1>stutter DEF Exit, vars
<1> QED
  BY <1>stream, <1>register, <1>deregister, <1>begins, <1>next, <1>ends,
     <1>stop, <1>release, <1>closer, <1>stutter
  DEF Next, Registry, Closing

-----------------------------------------------------------------------------
\* A wait group at zero: nobody is inside, and the handler is closed.
LEMMA NobodyLeft ==
  ASSUME TypeOK, WaitGroupExact, NEW s \in Streams, wg[s] = 0, Opened(s)
  PROVE  /\ stopChannel[s] /\ perf[s] \notin InsidePerf
         /\ \A b \in Blocks : obs[s][b] \notin InsideLoop
<1>1. Cardinality(Members(s)) = 0
  BY DEF WaitGroupExact
<1>2. Members(s) = {}
  BY <1>1, MembersFinite, FS_EmptySet
<1> QED
  BY <1>2 DEF Members

\* Every step keeps what holds past sh.Wait().
LEMMA QuietStep ==
  IInv /\ [Next]_vars => QuietAfterWait'
<1> SUFFICES ASSUME IInv, [Next]_vars PROVE QuietAfterWait'
  OBVIOUS
<1> USE DEF callVars, errorVars, loopVars, queueVars, registryVars, processVars, exitVars
<1>0. TypeOK /\ QuietAfterWait
  BY DEF IInv
<1>same. ASSUME UNCHANGED <<stopChannel, obs, perf, late>>,
                \A t \in Streams : rpc'[t] \in AfterWait => rpc[t] \in AfterWait
         PROVE  QuietAfterWait'
  BY <1>0, <1>same DEF QuietAfterWait
<1>env. ASSUME NEW s \in Streams, Environment(s)
        PROVE  QuietAfterWait'
  BY <1>0, <1>env, <1>same
  DEF Environment, RunFlowgraph, Goto, ClientCloses, ClientVanishes, Enqueue,
      EnqueueUsesDeleted, AfterWait, TypeOK
<1>wait. ASSUME NEW s \in Streams, WaitReturns(s)
         PROVE  QuietAfterWait'
  <2>1. Opened(s) /\ wg[s] = 0
    BY <1>wait DEF WaitReturns, Goto, Opened
  <2>2. /\ stopChannel[s] /\ perf[s] \notin InsidePerf
        /\ \A b \in Blocks : obs[s][b] \notin InsideLoop
    BY <2>1, NobodyLeft DEF IInv
  <2> QED
    BY <1>0, <1>wait, <2>2 DEF WaitReturns, Goto, QuietAfterWait, TypeOK
<1>new. ASSUME NEW s \in Streams, NewStreamHandler(s)
        PROVE  QuietAfterWait'
  BY <1>0, <1>new
  DEF NewStreamHandler, Goto, QuietAfterWait, AfterWait, TypeOK
<1>call. ASSUME NEW s \in Streams, Call(s), ~WaitReturns(s), ~NewStreamHandler(s)
         PROVE  QuietAfterWait'
  BY <1>0, <1>call, <1>same
  DEF Call, RecvStart, RecvRejects, Reject, StartInstance, StartInstanceFails,
      StartAfterFinalize, RegisterQueue, RegisterQueueFails, WaitBlocks,
      WaitPanics, DecRef, Delete, Goto, AfterWait, TypeOK
<1>client. ASSUME NEW s \in Streams,
                  ClientCommand(s) \/ ClientPushes(s) \/ ClientEOF(s) \/ ClientError(s)
           PROVE  QuietAfterWait'
  BY <1>client, <1>same DEF ClientCommand, ClientPushes, ClientEOF, ClientError
<1>obs. ASSUME NEW s \in Streams, NEW b \in Blocks, ObservableQueueLoop(s, b)
        PROVE  QuietAfterWait'
  <2>1. CASE LoopJoins(s, b)
    <3>1. late' = IF rpc[s] \in AfterWait
                  THEN [late EXCEPT ![s] = @ \cup {b}] ELSE late
      BY <2>1 DEF LoopJoins, Join
    <3>2. \A t \in Streams, d \in Blocks :
            /\ t # s \/ d # b => obs'[t][d] = obs[t][d]
            /\ d \in late[t] => d \in late'[t]
            /\ Perf \in late[t] => Perf \in late'[t]
      BY <1>0, <2>1, <3>1 DEF LoopJoins, At, TypeOK
    <3>3. rpc[s] \in AfterWait => b \in late'[s]
      BY <1>0, <3>1 DEF TypeOK
    <3>4. UNCHANGED <<rpc, perf, stopChannel>>
      BY <2>1 DEF LoopJoins
    <3>5. \A t \in Streams : Perf \in late[t] => Perf \in late'[t]
      BY <1>obs, <3>2
    <3> QED
      BY <1>0, <3>2, <3>3, <3>4, <3>5 DEF QuietAfterWait
  <2>2. CASE ~LoopJoins(s, b)
    <3>1. /\ UNCHANGED <<rpc, perf, stopChannel, late>>
          /\ obs[s][b] \in InsideLoop
          /\ \E to : obs' = [obs EXCEPT ![s][b] = to]
      BY <1>obs, <2>2
      DEF ObservableQueueLoop, LoopUsesDeleted, LoopPops, LoopSkips, LoopSends,
          LoopSendFails, LoopChecksClosed, LoopDrains, LoopDrainSends, At,
          InsideLoop
    <3>2. \A t \in Streams, d \in Blocks :
            obs'[t][d] \in InsideLoop => obs[t][d] \in InsideLoop
      BY <1>0, <3>1 DEF TypeOK
    <3> QED
      BY <1>0, <3>1, <3>2 DEF QuietAfterWait
  <2> QED
    BY <2>1, <2>2
<1>perf. ASSUME NEW s \in Streams, PerformanceCounterCollectionLoop(s)
         PROVE  QuietAfterWait'
  <2>1. CASE PerfJoins(s)
    <3>1. late' = IF rpc[s] \in AfterWait
                  THEN [late EXCEPT ![s] = @ \cup {Perf}] ELSE late
      BY <2>1 DEF PerfJoins, Join
    <3>2. \A t \in Streams :
            /\ t # s => perf'[t] = perf[t]
            /\ late[t] \subseteq late'[t]
      BY <1>0, <2>1, <3>1 DEF PerfJoins, PerfAt, TypeOK
    <3>3. rpc[s] \in AfterWait => Perf \in late'[s]
      BY <1>0, <3>1 DEF TypeOK
    <3>4. UNCHANGED <<rpc, obs, stopChannel>>
      BY <2>1 DEF PerfJoins
    <3> QED
      BY <1>0, <3>2, <3>3, <3>4 DEF QuietAfterWait
  <2>2. CASE ~PerfJoins(s)
    <3>1. /\ UNCHANGED <<rpc, obs, stopChannel, late>>
          /\ \E to : perf' = [perf EXCEPT ![s] = to]
          /\ perf[s] \in InsidePerf \/ perf'[s] \notin InsidePerf
      BY <1>0, <1>perf, <2>2
      DEF PerformanceCounterCollectionLoop, PerfDisabled, PerfGetsGauges,
          PerfGaugesFail, PerfTickFails, PerfUsesFreed, PerfStops, PerfAt,
          InsidePerf, TypeOK
    <3>2. \A t \in Streams : perf'[t] \in InsidePerf => perf[t] \in InsidePerf
      BY <1>0, <3>1 DEF TypeOK
    <3> QED
      BY <1>0, <3>1, <3>2 DEF QuietAfterWait
  <2> QED
    BY <2>1, <2>2
<1>release. CASE Release
  <2>1. \A t \in Streams : stopChannel[t] => stopChannel'[t]
    BY <1>0, <1>release DEF Release, TypeOK
  <2>2. UNCHANGED <<rpc, obs, perf, late>>
    BY <1>release DEF Release
  <2> QED
    BY <1>0, <2>1, <2>2 DEF QuietAfterWait
<1>registry. CASE Registry /\ ~Release
  BY <1>0, <1>registry, <1>same
  DEF Registry, Closing, Register, Goto, Deregister, StopFlowGraph,
      StopFlowGraphFails, CloseAllBegins, CloseAllNext, CloseAllEnds,
      AfterWait, TypeOK
<1>closer. ASSUME NEW c \in Closers, Terminate(c) \/ Hangup(c) \/ Shutdown(c)
           PROVE  QuietAfterWait'
  BY <1>closer, <1>same
  DEF Terminate, Hangup, Shutdown, CountFlowgraphs, SleepEnds, Finalize,
      GracefulStop, GracefulStopEnds, OnlyCloserMoves
<1>stutter. CASE Exit \/ UNCHANGED vars
  BY <1>stutter, <1>same DEF Exit, vars
<1> QED
  BY <1>env, <1>wait, <1>new, <1>call, <1>client, <1>obs, <1>perf, <1>release,
     <1>registry, <1>closer, <1>stutter
  DEF Next, Goroutines

-----------------------------------------------------------------------------
\* finish() signals its handler, takes no signal back, and forgets no client
\* that has finished.
LEMMA FinishSignals ==
  ASSUME TypeOK, NEW s \in Streams, NEW err \in {"nil", "error"}, Finish(s, err)
  PROVE  /\ Signalled(s)'
         /\ \A t \in Streams : Signalled(t) => Signalled(t)'
         /\ \A t \in Streams : clientFinished[t] => clientFinished'[t]
         /\ \A t \in Streams : finishing'[t] > 0 => finishing[t] > 0 \/ t = s
<1>1. /\ streamError'[s] = err
      /\ clientFinished'[s] = (clientFinished[s] \/ err = "nil")
  BY DEF Finish, TypeOK
<1>2. \A t \in Streams \ {s} : /\ streamError'[t] = streamError[t]
                               /\ clientFinished'[t] = clientFinished[t]
                               /\ finishing'[t] = finishing[t]
  BY DEF Finish, TypeOK
<1> QED
  BY <1>1, <1>2 DEF Signalled

\* Every step keeps the order of signals, closes and results.
LEMMA SignalStep ==
  IInv /\ [Next]_vars => SignalledBeforeClose' /\ NilMeansFinished'
<1> DEFINE Goal == SignalledBeforeClose /\ NilMeansFinished
<1> SUFFICES ASSUME IInv, [Next]_vars PROVE Goal'
  OBVIOUS
<1> USE DEF callVars, errorVars, loopVars, queueVars, registryVars, processVars, exitVars
<1>0. TypeOK /\ Goal
  BY DEF IInv
<1>target. loop \in {"stop", "release"} => target \in Streams
  BY <1>0 DEF IInv, RegistryStages, TypeOK
<1> HIDE DEF Goal
<1>same. ASSUME UNCHANGED <<streamError, clientFinished, finishing, stopChannel,
                            loop, target, closingAll>>,
                \A t \in Streams :
                  rpc'[t] \in AfterWait =>
                    rpc[t] \in AfterWait /\ retval'[t] = retval[t]
         PROVE  Goal'
  BY <1>0, <1>same DEF Goal, SignalledBeforeClose, NilMeansFinished, Signalled
<1>finish. ASSUME NEW s \in Streams, NEW err \in {"nil", "error"}, Finish(s, err),
                  UNCHANGED <<rpc, retval, stopChannel, target, closingAll>>,
                  loop' = loop \/ loop \in {"stop", "release"}
           PROVE  Goal'
  <2>1. SignalledBeforeClose'
    BY <1>0, <1>target, <1>finish, FinishSignals DEF Goal, SignalledBeforeClose
  <2>2. NilMeansFinished'
    BY <1>0, <1>finish, FinishSignals DEF Goal, NilMeansFinished
  <2> QED
    BY <2>1, <2>2 DEF Goal
<1>env. ASSUME NEW s \in Streams, Environment(s)
        PROVE  Goal'
  BY <1>0, <1>env, <1>same
  DEF Environment, RunFlowgraph, Goto, ClientCloses, ClientVanishes, Enqueue,
      EnqueueUsesDeleted, AfterWait, TypeOK
<1>wait. ASSUME NEW s \in Streams, WaitReturns(s)
         PROVE  Goal'
  <2>1. Opened(s) /\ wg[s] = 0
    BY <1>wait DEF WaitReturns, Goto, Opened
  <2>2. Signalled(s) \/ closingAll
    BY <1>0, <2>1, NobodyLeft DEF IInv, SignalledBeforeClose
  <2>3. retval'[s] = streamError[s]
    BY <1>0, <1>wait DEF WaitReturns, TypeOK
  <2>4. retval'[s] = "nil" => clientFinished[s] \/ closingAll
    BY <2>2, <2>3 DEF Signalled
  <2>5. \A t \in Streams \ {s} : retval'[t] = retval[t] /\ rpc'[t] = rpc[t]
    BY <1>0, <1>wait DEF WaitReturns, Goto, TypeOK
  <2>6. NilMeansFinished'
    BY <1>0, <1>wait, <2>4, <2>5 DEF WaitReturns, Goal, NilMeansFinished
  <2>7. SignalledBeforeClose'
    BY <1>0, <1>wait
    DEF WaitReturns, Goal, SignalledBeforeClose, Signalled
  <2> QED
    BY <2>6, <2>7 DEF Goal
<1>call. ASSUME NEW s \in Streams, Call(s), ~WaitReturns(s)
         PROVE  Goal'
  BY <1>0, <1>call, <1>same
  DEF Call, RecvStart, RecvRejects, Reject, StartInstance, StartInstanceFails,
      StartAfterFinalize, RegisterQueue, RegisterQueueFails, NewStreamHandler,
      WaitBlocks, WaitPanics, DecRef, Delete, Goto, AfterWait, TypeOK
<1>client. ASSUME NEW s \in Streams,
                  ClientCommand(s) \/ ClientPushes(s) \/ ClientEOF(s) \/ ClientError(s)
           PROVE  Goal'
  <2>1. CASE ClientCommand(s) \/ ClientPushes(s)
    BY <2>1, <1>same DEF ClientCommand, ClientPushes
  <2>2. CASE ClientEOF(s) \/ ClientError(s)
    BY <2>2, <1>finish DEF ClientEOF, ClientError
  <2> QED
    BY <1>client, <2>1, <2>2
<1>obs. ASSUME NEW s \in Streams, NEW b \in Blocks, ObservableQueueLoop(s, b)
        PROVE  Goal'
  <2>1. CASE LoopSendFails(s, b)
    BY <2>1, <1>finish DEF LoopSendFails
  <2>2. CASE ~LoopSendFails(s, b)
    BY <1>obs, <2>2, <1>same
    DEF ObservableQueueLoop, LoopJoins, LoopUsesDeleted, LoopPops, LoopSkips,
        LoopSends, LoopChecksClosed, LoopDrains, LoopDrainSends
  <2> QED
    BY <2>1, <2>2
<1>perf. ASSUME NEW s \in Streams, PerformanceCounterCollectionLoop(s)
         PROVE  Goal'
  <2>1. CASE PerfTickFails(s)
    BY <2>1, <1>finish DEF PerfTickFails
  <2>2. CASE ~PerfTickFails(s)
    BY <1>perf, <2>2, <1>same
    DEF PerformanceCounterCollectionLoop, PerfDisabled, PerfJoins,
        PerfGetsGauges, PerfGaugesFail, PerfUsesFreed, PerfStops
  <2> QED
    BY <2>1, <2>2
<1>register. ASSUME NEW s \in Streams, Register(s)
             PROVE  Goal'
  BY <1>0, <1>register, <1>same DEF Register, Goto, AfterWait, TypeOK
<1>deregister. ASSUME NEW s \in Streams, Deregister(s)
               PROVE  Goal'
  <2>1. Signalled(s)
    BY <1>0, <1>deregister DEF Deregister, Goal, SignalledBeforeClose
  <2>2. /\ UNCHANGED <<rpc, retval, streamError, clientFinished, stopChannel, closingAll>>
        /\ \A t \in Streams : finishing'[t] > 0 => finishing[t] > 0
        /\ (loop' = "stop" /\ target' = s) \/ loop' = "select"
    BY <1>0, <1>deregister DEF Deregister, TypeOK
  <2> QED
    BY <1>0, <2>1, <2>2
    DEF Goal, SignalledBeforeClose, NilMeansFinished, Signalled
<1>stopFails. CASE StopFlowGraphFails
  <2> PICK r \in Streams : r = target
    BY <1>target, <1>stopFails DEF StopFlowGraphFails
  <2> QED
    BY <1>finish, <1>stopFails DEF StopFlowGraphFails
<1>stop. CASE StopFlowGraph
  BY <1>0, <1>stop
  DEF StopFlowGraph, Goal, SignalledBeforeClose, NilMeansFinished, Signalled
<1>release. CASE Release
  <2>1. \A t \in Streams : stopChannel'[t] => stopChannel[t] \/ t = target
    BY <1>0, <1>release DEF Release, TypeOK
  <2>2. Signalled(target) \/ closingAll
    BY <1>0, <1>release DEF Release, Goal, SignalledBeforeClose
  <2> QED
    BY <1>0, <1>release, <2>1, <2>2
    DEF Release, Goal, SignalledBeforeClose, NilMeansFinished, Signalled
<1>all. CASE \/ \E c \in Closers : CloseAllBegins(c) \/ CloseAllEnds(c)
             \/ \E s \in Streams : CloseAllNext(s)
  <2>1. closingAll'
    BY <1>all
    DEF CloseAllBegins, CloseAllEnds, CloseAllNext, IInv, RegistryStages
  <2>2. UNCHANGED errorVars
    BY <1>all DEF CloseAllBegins, CloseAllEnds, CloseAllNext
  <2> QED
    BY <1>0, <2>1, <2>2
    DEF Goal, SignalledBeforeClose, NilMeansFinished, Signalled
<1>closer. ASSUME NEW c \in Closers, Terminate(c) \/ Hangup(c) \/ Shutdown(c)
           PROVE  Goal'
  BY <1>closer, <1>same
  DEF Terminate, Hangup, Shutdown, CountFlowgraphs, SleepEnds, Finalize,
      GracefulStop, GracefulStopEnds, OnlyCloserMoves
<1>stutter. CASE Exit \/ UNCHANGED vars
  BY <1>stutter, <1>same DEF Exit, vars
<1> QED
  BY <1>env, <1>wait, <1>call, <1>client, <1>obs, <1>perf, <1>register,
     <1>deregister, <1>stopFails, <1>stop, <1>release, <1>all, <1>closer,
     <1>stutter
  DEF Next, Goroutines, Registry, Closing

-----------------------------------------------------------------------------
LEMMA InitInvariant == Init => IInv
<1> SUFFICES ASSUME Init PROVE IInv
  OBVIOUS
<1>1. TypeOK
  <2>1. /\ rpc \in [Streams -> RpcStates] /\ perf \in [Streams -> PerfStates]
        /\ obs \in [Streams -> [Blocks -> ObsStates]]
        /\ closer \in [Closers -> CloserStates]
    BY DEF Init, RpcStates, PerfStates, ObsStates, CloserStates
  <2>2. cur \in [Streams -> [Blocks -> Strings]]
    BY QueueAssumption DEF Init
  <2>3. /\ queue \in [Streams -> [Blocks -> Seq(Strings)]]
        /\ accepted \in [Streams -> [Blocks -> Seq(Strings)]]
        /\ sent \in [Streams -> [Blocks -> Seq(Strings)]]
    BY DEF Init
  <2>4. /\ late \in [Streams -> SUBSET (Blocks \cup {Perf})]
        /\ qState \in [Streams -> [Blocks -> {"none", "open", "closed"}]]
        /\ wg \in [Streams -> Nat] /\ finishing \in [Streams -> Nat]
    BY DEF Init
  <2>5. /\ conn \in [Streams -> {"open", "halfClosed", "broken"}]
        /\ fg \in [Streams -> {"none", "running", "stopped", "undefined"}]
        /\ retval \in [Streams -> {"none", "nil", "error"}]
        /\ client \in [Streams -> {"none", "recv", "done"}]
        /\ streamError \in [Streams -> {"nil", "error"}]
    BY DEF Init
  <2>6. /\ clientFinished \in [Streams -> BOOLEAN]
        /\ stopChannel \in [Streams -> BOOLEAN]
        /\ closingAll \in BOOLEAN /\ serving \in BOOLEAN
        /\ released \in [Streams -> BOOLEAN] /\ killAfterStream \in BOOLEAN
        /\ exit \in {"no", "pending", "exited", "panicked"}
    BY DEF Init
  <2>7. /\ streamHandlers \subseteq Streams /\ flowgraphCount \in Int
        /\ loop \in {"select", "stop", "release", "all", "ended"}
        /\ target \in Streams \cup {NoStream} /\ todo \subseteq Streams
        /\ interpreter \in {"alive", "finalized"}
    BY DEF Init
  <2> QED
    BY <2>1, <2>2, <2>3, <2>4, <2>5, <2>6, <2>7 DEF TypeOK
<1>2. WaitGroupExact
  <2> SUFFICES ASSUME NEW s \in Streams PROVE wg[s] = Cardinality(Members(s))
    BY DEF WaitGroupExact
  <2>1. Members(s) = {}
    BY DEF Init, Members, Opened, AfterWait, InsideLoop, InsidePerf
  <2> QED
    BY <2>1, FS_EmptySet DEF Init
<1>3. CloseOnce /\ HandlerStages /\ RegistryStages
  BY DEF Init, CloseOnce, HandlerStages, RegistryStages, Opened, AfterWait
<1>4. QuietAfterWait /\ SignalledBeforeClose /\ NilMeansFinished
  BY DEF Init, QuietAfterWait, SignalledBeforeClose, NilMeansFinished, AfterWait
<1> QED
  BY <1>1, <1>2, <1>3, <1>4 DEF IInv

LEMMA StepInvariant == IInv /\ [Next]_vars => IInv'
<1> SUFFICES ASSUME IInv, [Next]_vars PROVE IInv'
  OBVIOUS
<1>1. TypeOK' /\ WaitGroupExact' /\ HandlerStages' /\ RegistryStages'
  BY TypeStep, WaitGroupStep, HandlerStep, RegistryStep
<1>2. QuietAfterWait' /\ SignalledBeforeClose' /\ NilMeansFinished'
  BY QuietStep, SignalStep
<1>3. CloseOnce'
  BY <1>1 DEF RegistryStages, CloseOnce
<1> QED
  BY <1>1, <1>2, <1>3 DEF IInv

\* The server keeps its inductive invariant: the stages of the calls, of their
\* goroutines and of the registry stay in step.
THEOREM ServerInvariant == Spec => []IInv
<1> QED
  BY InitInvariant, StepInvariant, PTL DEF Spec

\* The server's variables keep their types; no wait group becomes negative.
THEOREM ServerTypeCorrect == Spec => []TypeOK
<1>1. IInv => TypeOK
  BY DEF IInv
<1> QED
  BY <1>1, ServerInvariant, PTL

\* The wait group of a handler counts exactly the goroutines inside their
\* loops and the handler itself until Close.
THEOREM WaitGroupCounts == Spec => []WaitGroupExact
<1>1. IInv => WaitGroupExact
  BY DEF IInv
<1> QED
  BY <1>1, ServerInvariant, PTL

\* The registry never closes a handler twice.
THEOREM ClosedOnce == Spec => []CloseOnce
<1>1. IInv => CloseOnce
  BY DEF IInv
<1> QED
  BY <1>1, ServerInvariant, PTL

\* RunFlowgraph frees nothing under a goroutine of its handler, unless that
\* goroutine called wg.Add(1) after sh.Wait() had returned.
THEOREM NothingFreedInUse == Spec => []FreedOnlyUnderLate
<1>1. IInv => FreedOnlyUnderLate
  BY DEF IInv, QuietAfterWait, FreedOnlyUnderLate, Deleted, Freed, AfterWait
<1> QED
  BY <1>1, ServerInvariant, PTL

\* A result of nil means that the client finished, or that the server closed.
THEOREM SuccessIsFinish == Spec => []NilMeansFinished
<1>1. IInv => NilMeansFinished
  BY DEF IInv
<1> QED
  BY <1>1, ServerInvariant, PTL

\* The registry goroutine does not end before every handler is closed.
THEOREM NoHandlerLeftOpen == Spec => []EndedClosedAll
<1>1. IInv => EndedClosedAll
  BY DEF IInv, RegistryStages, EndedClosedAll
<1> QED
  BY <1>1, ServerInvariant, PTL

-----------------------------------------------------------------------------
(* The drain is complete *)

InFlight(s, b) == obs[s][b] \in {"send", "drainSend"}

\* The hypotheses of DrainComplete that, once false, stay false.
Clean(s, b) ==
  /\ conn[s] # "broken" /\ b \notin late[s] /\ ~StopFailed(s)
  /\ \A i \in 1..Len(accepted[s][b]) : accepted[s][b][i] # EmptyString

\* What has been sent is what was taken from the queue, but for the messages
\* that cannot be and the one in flight.
Delivered(s, b) ==
  /\ InFlight(s, b) => Holding(queue[s][b], accepted[s][b], sent[s][b], cur[s][b],
                               Strings \ TooBig)
  /\ ~InFlight(s, b) => Settled(queue[s][b], accepted[s][b], sent[s][b], Strings \ TooBig)

\* A clean loop ends after Close, hence after the attempt to stop the flowgraph,
\* with an empty queue, to which a flowgraph that has stopped adds nothing.
LoopInv(s, b) ==
  /\ \A i \in 1..Len(accepted[s][b]) : accepted[s][b][i] \notin Large
  /\ qState[s][b] = "closed" => stopChannel[s]
  /\ obs[s][b] \in {"drain", "drainSend"} => qState[s][b] = "closed"
  /\ Clean(s, b) => Delivered(s, b)
  /\ Clean(s, b) /\ obs[s][b] = "done" =>
       stopChannel[s] /\ (fg[s] = "stopped" => queue[s][b] = <<>>)

DrainInv == \A s \in Streams, b \in Blocks : LoopInv(s, b)

\* A step that leaves the messages of a loop where they are.
LEMMA LoopFrame ==
  ASSUME NEW s \in Streams, NEW b \in Blocks, LoopInv(s, b),
         queue'[s][b] = queue[s][b], accepted'[s][b] = accepted[s][b],
         sent'[s][b] = sent[s][b], cur'[s][b] = cur[s][b],
         conn[s] = "broken" => conn'[s] = "broken",
         b \in late[s] => b \in late'[s],
         stopChannel[s] => stopChannel'[s],
         qState'[s][b] = "closed" => stopChannel'[s],
         obs'[s][b] \in {"drain", "drainSend"} => qState'[s][b] = "closed",
         InFlight(s, b)' <=> InFlight(s, b),
         obs'[s][b] = "done" => obs[s][b] = "done",
         fg'[s] = "stopped" => fg[s] = "stopped" \/ ~stopChannel[s]
  PROVE  LoopInv(s, b)'
<1>1. Clean(s, b)' => Clean(s, b)
  BY DEF Clean, StopFailed
<1>2. Clean(s, b)' => Delivered(s, b)'
  <2> SUFFICES ASSUME Clean(s, b)' PROVE Delivered(s, b)'
    OBVIOUS
  <2>1. Delivered(s, b)
    BY <1>1 DEF LoopInv
  <2> QED BY <2>1 DEF Delivered
<1>3. Clean(s, b)' /\ obs'[s][b] = "done" =>
        stopChannel'[s] /\ (fg'[s] = "stopped" => queue'[s][b] = <<>>)
  BY <1>1 DEF LoopInv
<1> QED BY <1>2, <1>3 DEF LoopInv

\* A step of some other part of the server.
LEMMA DrainFrame ==
  ASSUME DrainInv,
         UNCHANGED <<obs, cur, queue, qState, accepted, sent>>,
         \A s \in Streams :
           /\ conn[s] = "broken" => conn'[s] = "broken"
           /\ \A b \in Blocks : b \in late[s] => b \in late'[s]
           /\ stopChannel[s] => stopChannel'[s]
           /\ fg'[s] = "stopped" => fg[s] = "stopped" \/ ~stopChannel[s]
  PROVE  DrainInv'
<1> SUFFICES ASSUME NEW s \in Streams, NEW b \in Blocks PROVE LoopInv(s, b)'
  BY DEF DrainInv
<1>1. LoopInv(s, b)
  BY DEF DrainInv
<1>2. /\ qState'[s][b] = "closed" => stopChannel'[s]
      /\ obs'[s][b] \in {"drain", "drainSend"} => qState'[s][b] = "closed"
      /\ InFlight(s, b)' <=> InFlight(s, b)
  BY <1>1 DEF LoopInv, InFlight
<1> QED BY <1>1, <1>2, LoopFrame

\* A step that concerns one loop leaves the invariants of the others alone.
OthersKept(s, b) ==
  \A t \in Streams, d \in Blocks : t # s \/ d # b =>
    /\ obs'[t][d] = obs[t][d] /\ cur'[t][d] = cur[t][d]
    /\ queue'[t][d] = queue[t][d] /\ accepted'[t][d] = accepted[t][d]
    /\ sent'[t][d] = sent[t][d]

LEMMA OneLoop ==
  ASSUME DrainInv, NEW s \in Streams, NEW b \in Blocks,
         UNCHANGED <<conn, fg, qState, stopChannel>>,
         \A t \in Streams, d \in Blocks : d \in late[t] => d \in late'[t],
         OthersKept(s, b), LoopInv(s, b)'
  PROVE  DrainInv'
<1> SUFFICES ASSUME NEW t \in Streams, NEW d \in Blocks, t # s \/ d # b
             PROVE  LoopInv(t, d)'
  BY DEF DrainInv
<1>1. LoopInv(t, d)
  BY DEF DrainInv
<1>2. /\ obs'[t][d] = obs[t][d] /\ cur'[t][d] = cur[t][d]
      /\ queue'[t][d] = queue[t][d] /\ accepted'[t][d] = accepted[t][d]
      /\ sent'[t][d] = sent[t][d]
  BY DEF OthersKept
<1>3. /\ qState'[t][d] = "closed" => stopChannel'[t]
      /\ obs'[t][d] \in {"drain", "drainSend"} => qState'[t][d] = "closed"
      /\ InFlight(t, d)' <=> InFlight(t, d)
  BY <1>1, <1>2 DEF LoopInv, InFlight
<1> QED BY <1>1, <1>2, <1>3, LoopFrame

\* The types of what one loop works on.
LEMMA LoopTypes ==
  ASSUME TypeOK, NEW s \in Streams, NEW b \in Blocks
  PROVE  /\ queue[s][b] \in Seq(Strings) /\ accepted[s][b] \in Seq(Strings)
         /\ sent[s][b] \in Seq(Strings) /\ cur[s][b] \in Strings
BY DEF TypeOK

\* The handler of the block pushes a message.
LEMMA EnqueueDrain ==
  ASSUME IInv, DrainInv, NEW s \in Streams, NEW b \in Blocks, NEW m \in Strings,
         Enqueue(s, b, m)
  PROVE  DrainInv'
<1> USE DEF callVars, errorVars, loopVars, registryVars, processVars, exitVars
<1> DEFINE q == queue[s][b]
           in == accepted[s][b]
<1>0. TypeOK /\ LoopInv(s, b)
  BY DEF IInv, DrainInv
<1>1. q \in Seq(Strings) /\ in \in Seq(Strings)
  BY <1>0, LoopTypes
<1>3. OthersKept(s, b)
  BY <1>0 DEF Enqueue, TypeOK, OthersKept
<1>4. UNCHANGED <<conn, fg, qState, stopChannel, late, obs, cur, sent>>
  BY DEF Enqueue
<1>failed. CASE StopFailed(s)
  <2>1. accepted' = accepted /\ ~Clean(s, b)'
    BY <1>4, <1>failed DEF Enqueue, Clean, StopFailed
  <2>2. LoopInv(s, b)'
    BY <1>0, <1>4, <2>1 DEF LoopInv
  <2> QED BY <1>3, <1>4, <2>2, OneLoop
<1> SUFFICES ASSUME ~StopFailed(s) PROVE DrainInv'
  BY <1>failed
<1>2. queue'[s][b] = Append(q, m) /\ accepted'[s][b] = Append(in, m)
  BY <1>0 DEF Enqueue, Pushed, TypeOK
<1>5. /\ \A i \in 1..Len(in) : accepted'[s][b][i] = in[i] /\ i \in 1..Len(accepted'[s][b])
      /\ Len(accepted'[s][b]) = Len(in) + 1 /\ Len(in) \in Nat
      /\ accepted'[s][b][Len(in) + 1] = m
  BY <1>1, <1>2, AppendItems
<1>6. \A i \in 1..Len(accepted'[s][b]) : accepted'[s][b][i] \notin Large
  <2> SUFFICES ASSUME NEW i \in 1..Len(accepted'[s][b])
               PROVE  accepted'[s][b][i] \notin Large
    OBVIOUS
  <2>1. CASE i \in 1..Len(in)
    BY <1>0, <1>5, <2>1 DEF LoopInv
  <2>2. CASE i = Len(in) + 1
    BY <1>5, <2>2 DEF Enqueue
  <2> QED BY <1>5, <2>1, <2>2
<1>7. Clean(s, b)' => Clean(s, b)
  BY <1>4, <1>5 DEF Clean, StopFailed
<1> HIDE DEF q, in
<1>8. ASSUME Clean(s, b)' PROVE Delivered(s, b)'
  <2>1. Delivered(s, b)
    BY <1>0, <1>7, <1>8 DEF LoopInv
  <2>2. CASE InFlight(s, b)
    <3>1. Holding(q, in, sent[s][b], cur[s][b], Strings \ TooBig)
      BY <2>1, <2>2 DEF Delivered, q, in
    <3>2. Holding(Append(q, m), Append(in, m), sent[s][b], cur[s][b], Strings \ TooBig)
      BY <1>1, <3>1, HoldingPush
    <3>3. InFlight(s, b)'
      BY <1>4, <2>2 DEF InFlight
    <3> QED BY <1>2, <1>4, <3>2, <3>3 DEF Delivered
  <2>3. CASE ~InFlight(s, b)
    <3>1. Settled(q, in, sent[s][b], Strings \ TooBig)
      BY <2>1, <2>3 DEF Delivered, q, in
    <3>2. Settled(Append(q, m), Append(in, m), sent[s][b], Strings \ TooBig)
      BY <1>1, <3>1, SettledPush
    <3>3. ~InFlight(s, b)'
      BY <1>4, <2>3 DEF InFlight
    <3> QED BY <1>2, <1>4, <3>2, <3>3 DEF Delivered
  <2> QED BY <2>2, <2>3
<1>9. Clean(s, b)' /\ obs'[s][b] = "done" => stopChannel'[s] /\ fg'[s] # "stopped"
  BY <1>0, <1>4, <1>7 DEF LoopInv, Enqueue
<1>10. LoopInv(s, b)'
  BY <1>0, <1>4, <1>6, <1>8, <1>9 DEF LoopInv
<1> QED BY <1>3, <1>4, <1>10, OneLoop

\* Of a clean loop, an empty string from the queue means that it is empty, and
\* anything else is the oldest message.
LEMMA CleanPop ==
  ASSUME TypeOK, NEW s \in Streams, NEW b \in Blocks, LoopInv(s, b), Clean(s, b),
         ~InFlight(s, b)
  PROVE  /\ PopResult(queue[s][b]) = EmptyString => queue[s][b] = <<>>
         /\ PopResult(queue[s][b]) # EmptyString =>
              /\ queue[s][b] # <<>>
              /\ PopResult(queue[s][b]) = Head(queue[s][b])
<1> DEFINE q == queue[s][b]
           in == accepted[s][b]
<1>1. q \in Seq(Strings) /\ in \in Seq(Strings)
  BY LoopTypes
<1>2. Settled(q, in, sent[s][b], Strings \ TooBig)
  BY DEF LoopInv, Delivered
<1>3. /\ \A i \in 1..Len(in) : in[i] \notin Large /\ in[i] # EmptyString
  BY DEF LoopInv, Clean
<1> HIDE DEF q, in
<1>4. ASSUME q # <<>> PROVE Head(q) \notin Large /\ Head(q) # EmptyString
  <2>1. Head(q) = in[Taken(q, in) + 1] /\ Taken(q, in) + 1 \in 1..Len(in)
    BY <1>1, <1>2, <1>4, RestPopped DEF Settled
  <2> QED BY <1>3, <2>1
<1>5. /\ PopResult(q) = EmptyString => q = <<>>
      /\ PopResult(q) # EmptyString => q # <<>> /\ PopResult(q) = Head(q)
  BY <1>4 DEF PopResult
<1> QED BY <1>5 DEF q

\* A pop of a clean loop.
LEMMA TakeDrain ==
  ASSUME TypeOK, NEW s \in Streams, NEW b \in Blocks, LoopInv(s, b), Clean(s, b),
         ~InFlight(s, b), TakeItem(s, b)
  PROVE  /\ PopResult(queue[s][b]) = EmptyString =>
              /\ queue'[s][b] = <<>>
              /\ Settled(queue'[s][b], accepted[s][b], sent[s][b], Strings \ TooBig)
         /\ PopResult(queue[s][b]) # EmptyString =>
              Holding(queue'[s][b], accepted[s][b], sent[s][b], cur'[s][b], Strings \ TooBig)
<1> DEFINE q == queue[s][b]
           in == accepted[s][b]
           out == sent[s][b]
<1>1. q \in Seq(Strings) /\ in \in Seq(Strings)
  BY LoopTypes
<1>2. Settled(q, in, out, Strings \ TooBig)
  BY DEF LoopInv, Delivered
<1>3. /\ PopResult(q) = EmptyString => q = <<>>
      /\ PopResult(q) # EmptyString => q # <<>> /\ PopResult(q) = Head(q)
  BY CleanPop
<1>4. queue'[s][b] = Popped(q) /\ cur'[s][b] = PopResult(q)
  BY DEF TakeItem, TypeOK
<1> HIDE DEF q, in, out
<1>5. CASE PopResult(q) = EmptyString
  <2>1. q = <<>> /\ queue'[s][b] = q
    BY <1>3, <1>4, <1>5 DEF Popped
  <2> QED BY <1>2, <1>5, <2>1 DEF q, in, out
<1>6. CASE PopResult(q) # EmptyString
  <2>1. q # <<>> /\ queue'[s][b] = Tail(q) /\ cur'[s][b] = Head(q)
    BY <1>3, <1>4, <1>6 DEF Popped
  <2>2. Holding(Tail(q), in, out, Head(q), Strings \ TooBig)
    BY <1>1, <1>2, <2>1, SettledTake
  <2> QED BY <1>6, <2>1, <2>2 DEF q, in, out
<1> QED BY <1>5, <1>6

\* The message in flight of a clean loop is skipped or sent.
LEMMA SendDrain ==
  ASSUME TypeOK, NEW s \in Streams, NEW b \in Blocks, LoopInv(s, b), Clean(s, b),
         InFlight(s, b)
  PROVE  /\ cur[s][b] \in TooBig =>
              Settled(queue[s][b], accepted[s][b], sent[s][b], Strings \ TooBig)
         /\ cur[s][b] \notin TooBig =>
              Settled(queue[s][b], accepted[s][b], Append(sent[s][b], cur[s][b]),
                      Strings \ TooBig)
<1>1. Holding(queue[s][b], accepted[s][b], sent[s][b], cur[s][b], Strings \ TooBig)
  BY DEF LoopInv, Delivered
<1>2. /\ queue[s][b] \in Seq(Strings) /\ accepted[s][b] \in Seq(Strings)
      /\ sent[s][b] \in Seq(Strings) /\ cur[s][b] \in Strings
  BY LoopTypes
<1>3. cur[s][b] \in Strings \ TooBig <=> cur[s][b] \notin TooBig
  BY <1>2
<1> QED BY <1>1, <1>2, <1>3, HoldingSettles

\* The send of a clean loop works: the call has not returned under it.
LEMMA CleanSendWorks ==
  ASSUME IInv, NEW s \in Streams, NEW b \in Blocks, Clean(s, b), InFlight(s, b)
  PROVE  SendWorks(s)
<1>1. obs[s][b] \in InsideLoop
  BY DEF InFlight, InsideLoop
<1> QED BY <1>1 DEF IInv, QuietAfterWait, AfterWait, Clean, SendWorks

\* An update for one loop, seen from another.
LEMMA EntryKept ==
  ASSUME NEW S, NEW f \in [Streams -> [Blocks -> S]],
         NEW s \in Streams, NEW b \in Blocks, NEW x,
         NEW t \in Streams, NEW d \in Blocks, t # s \/ d # b
  PROVE  [f EXCEPT ![s][b] = x][t][d] = f[t][d]
OBVIOUS

\* A goroutine that joins late stays late.
LEMMA LateKept ==
  ASSUME TypeOK, NEW s \in Streams, NEW w,
         late' = late \/ late' = [late EXCEPT ![s] = @ \cup {w}]
  PROVE  \A t \in Streams, d \in Blocks : d \in late[t] => d \in late'[t]
<1>1. DOMAIN late = Streams
  BY DEF TypeOK
<1>2. CASE late' = late
  BY <1>2
<1>3. CASE late' = [late EXCEPT ![s] = @ \cup {w}]
  BY <1>1, <1>3
<1> QED BY <1>2, <1>3

\* The observable loop itself.
LEMMA LoopDrain ==
  ASSUME IInv, DrainInv, NEW s \in Streams, NEW b \in Blocks,
         ObservableQueueLoop(s, b)
  PROVE  DrainInv'
<1> USE DEF callVars, errorVars, loopVars, queueVars, registryVars, processVars, exitVars
<1>0. TypeOK /\ LoopInv(s, b)
  BY DEF IInv, DrainInv
<1>same. UNCHANGED <<conn, fg, qState, stopChannel, accepted>>
  BY DEF ObservableQueueLoop, LoopJoins, LoopUsesDeleted, LoopPops, LoopSkips,
         LoopSends, LoopSendFails, LoopChecksClosed, LoopDrains, LoopDrainSends
<1>late. \A t \in Streams, d \in Blocks : d \in late[t] => d \in late'[t]
  <2>1. CASE LoopJoins(s, b)
    <3>1. late' = late \/ late' = [late EXCEPT ![s] = @ \cup {b}]
      BY <2>1 DEF LoopJoins, Join
    <3> QED BY <1>0, <3>1, LateKept
  <2>2. CASE ~LoopJoins(s, b)
    BY <2>2 DEF ObservableQueueLoop, LoopUsesDeleted, LoopPops, LoopSkips,
         LoopSends, LoopSendFails, LoopChecksClosed, LoopDrains, LoopDrainSends
  <2> QED BY <2>1, <2>2
<1>clean. Clean(s, b)' => Clean(s, b)
  BY <1>same, <1>late DEF Clean, StopFailed
<1>base. /\ \A i \in 1..Len(accepted'[s][b]) : accepted'[s][b][i] \notin Large
         /\ qState'[s][b] = "closed" => stopChannel'[s]
  BY <1>0, <1>same DEF LoopInv
<1>others. OthersKept(s, b)
  <2>1. \E to : obs' = [obs EXCEPT ![s][b] = to]
    BY DEF ObservableQueueLoop, LoopJoins, LoopUsesDeleted, LoopPops, LoopSkips,
           LoopSends, LoopSendFails, LoopChecksClosed, LoopDrains, LoopDrainSends, At
  <2>2. (cur' = cur /\ queue' = queue) \/ TakeItem(s, b)
    BY DEF ObservableQueueLoop, LoopJoins, LoopUsesDeleted, LoopPops, LoopSkips,
           LoopSends, LoopSendFails, LoopChecksClosed, LoopDrains, LoopDrainSends
  <2>3. sent' = sent \/ \E x : sent' = [sent EXCEPT ![s][b] = x]
    BY DEF ObservableQueueLoop, LoopJoins, LoopUsesDeleted, LoopPops, LoopSkips,
           LoopSends, LoopSendFails, LoopChecksClosed, LoopDrains, LoopDrainSends,
           SentOn
  <2> SUFFICES ASSUME NEW t \in Streams, NEW d \in Blocks, t # s \/ d # b
               PROVE  /\ obs'[t][d] = obs[t][d] /\ cur'[t][d] = cur[t][d]
                      /\ queue'[t][d] = queue[t][d] /\ sent'[t][d] = sent[t][d]
    BY <1>same DEF OthersKept
  <2>4. obs'[t][d] = obs[t][d]
    BY <1>0, <2>1 DEF TypeOK
  <2>5. cur'[t][d] = cur[t][d] /\ queue'[t][d] = queue[t][d]
    <3>1. CASE cur' = cur /\ queue' = queue
      BY <3>1
    <3>2. CASE TakeItem(s, b)
      <4>1. cur'[t][d] = cur[t][d]
        BY <1>0, <3>2, EntryKept DEF TypeOK, TakeItem
      <4>2. queue'[t][d] = queue[t][d]
        BY <1>0, <3>2, EntryKept DEF TypeOK, TakeItem
      <4> QED BY <4>1, <4>2
    <3> QED BY <2>2, <3>1, <3>2
  <2>6. sent'[t][d] = sent[t][d]
    <3>1. CASE sent' = sent
      BY <3>1
    <3>2. ASSUME NEW x, sent' = [sent EXCEPT ![s][b] = x]
          PROVE  sent'[t][d] = sent[t][d]
      <4>1. sent \in [Streams -> [Blocks -> Seq(Strings)]]
        BY <1>0 DEF TypeOK
      <4>2. [sent EXCEPT ![s][b] = x][t][d] = sent[t][d]
        BY <4>1, EntryKept
      <4> QED BY <3>2, <4>2
    <3> QED BY <2>3, <3>1, <3>2
  <2> QED BY <2>4, <2>5, <2>6
<1>frame. ASSUME UNCHANGED <<queue, sent, cur>>,
                 InFlight(s, b)' <=> InFlight(s, b), obs'[s][b] # "done",
                 obs'[s][b] \in {"drain", "drainSend"} => qState[s][b] = "closed"
          PROVE  LoopInv(s, b)'
  BY <1>0, <1>same, <1>late, <1>base, <1>frame, LoopFrame
<1>1. CASE LoopJoins(s, b)
  <2>1. obs[s][b] = "spawned" /\ obs'[s][b] = "pop"
    BY <1>0, <1>1 DEF LoopJoins, At, TypeOK
  <2> QED BY <1>1, <1>frame, <1>same, <1>late, <1>others, <2>1, OneLoop
          DEF LoopJoins, InFlight
<1>2. CASE LoopUsesDeleted(s, b)
  <2>1. obs[s][b] \in {"pop", "check", "drain"} /\ obs'[s][b] = "undefined"
    BY <1>0, <1>2 DEF LoopUsesDeleted, At, TypeOK
  <2> QED BY <1>2, <1>frame, <1>same, <1>late, <1>others, <2>1, OneLoop
          DEF LoopUsesDeleted, InFlight
<1>3. CASE LoopChecksClosed(s, b)
  <2>1. /\ obs[s][b] = "check"
        /\ obs'[s][b] = IF qState[s][b] = "closed" THEN "drain" ELSE "pop"
    BY <1>0, <1>3 DEF LoopChecksClosed, At, TypeOK
  <2> QED BY <1>3, <1>frame, <1>same, <1>late, <1>others, <2>1, OneLoop
          DEF LoopChecksClosed, InFlight
<1>4. CASE LoopPops(s, b)
  <2>1. /\ obs[s][b] = "pop"
        /\ obs'[s][b] = IF PopResult(queue[s][b]) = EmptyString THEN "check" ELSE "send"
        /\ sent' = sent /\ TakeItem(s, b)
    BY <1>0, <1>4 DEF LoopPops, At, TypeOK
  <2>2. Clean(s, b)' => Delivered(s, b)'
    BY <1>0, <1>clean, <1>same, <2>1, TakeDrain DEF InFlight, Delivered
  <2>3. LoopInv(s, b)'
    BY <1>base, <2>1, <2>2 DEF LoopInv
  <2> QED BY <1>same, <1>late, <1>others, <2>3, OneLoop
<1>5. CASE LoopDrains(s, b)
  <2>1. /\ obs[s][b] = "drain"
        /\ obs'[s][b] = IF PopResult(queue[s][b]) = EmptyString THEN "done" ELSE "drainSend"
        /\ sent' = sent /\ TakeItem(s, b)
    BY <1>0, <1>5 DEF LoopDrains, At, TypeOK
  <2>2. qState'[s][b] = "closed" /\ stopChannel'[s]
    BY <1>0, <1>same, <2>1 DEF LoopInv
  <2>3. Clean(s, b)' => Delivered(s, b)'
    BY <1>0, <1>clean, <1>same, <2>1, TakeDrain DEF InFlight, Delivered
  <2>4. Clean(s, b)' /\ obs'[s][b] = "done" => queue'[s][b] = <<>>
    BY <1>0, <1>clean, <2>1, TakeDrain DEF InFlight
  <2>5. LoopInv(s, b)'
    BY <1>base, <2>2, <2>3, <2>4 DEF LoopInv
  <2> QED BY <1>same, <1>late, <1>others, <2>5, OneLoop
<1>6. CASE LoopSkips(s, b)
  <2>1. /\ obs[s][b] = "send" /\ obs'[s][b] = "pop" /\ cur[s][b] \in TooBig
        /\ UNCHANGED <<queue, cur, sent>>
    BY <1>0, <1>6 DEF LoopSkips, At, TypeOK
  <2>2. Clean(s, b)' => Delivered(s, b)'
    BY <1>0, <1>clean, <1>same, <2>1, SendDrain DEF InFlight, Delivered
  <2>3. LoopInv(s, b)'
    BY <1>base, <2>1, <2>2 DEF LoopInv
  <2> QED BY <1>same, <1>late, <1>others, <2>3, OneLoop
<1>7. CASE LoopSends(s, b)
  <2>1. /\ obs[s][b] = "send" /\ obs'[s][b] = "check" /\ cur[s][b] \notin TooBig
        /\ UNCHANGED <<queue, cur>>
        /\ ~StopFailed(s) => sent'[s][b] = Append(sent[s][b], cur[s][b])
    BY <1>0, <1>7 DEF LoopSends, SentOn, At, TypeOK
  <2>9. Clean(s, b)' => ~StopFailed(s)
    BY <1>clean DEF Clean
  <2>2. Clean(s, b)' => Delivered(s, b)'
    BY <1>0, <1>clean, <1>same, <2>1, <2>9, SendDrain DEF InFlight, Delivered
  <2>3. LoopInv(s, b)'
    BY <1>base, <2>1, <2>2 DEF LoopInv
  <2> QED BY <1>same, <1>late, <1>others, <2>3, OneLoop
<1>8. CASE LoopSendFails(s, b)
  <2>1. obs[s][b] = "send" /\ obs'[s][b] = "done" /\ ~SendWorks(s)
    BY <1>0, <1>8 DEF LoopSendFails, At, TypeOK
  <2>2. ~Clean(s, b)'
    BY <1>clean, <2>1, CleanSendWorks DEF InFlight
  <2>3. LoopInv(s, b)'
    BY <1>base, <2>1, <2>2 DEF LoopInv
  <2> QED BY <1>same, <1>late, <1>others, <2>3, OneLoop
<1>9. CASE LoopDrainSends(s, b)
  <2>1. /\ obs[s][b] = "drainSend" /\ obs'[s][b] = "drain" /\ UNCHANGED <<queue, cur>>
        /\ cur[s][b] \in TooBig => sent' = sent
        /\ cur[s][b] \notin TooBig /\ SendWorks(s) /\ ~StopFailed(s) =>
             sent'[s][b] = Append(sent[s][b], cur[s][b])
    BY <1>0, <1>9 DEF LoopDrainSends, SentOn, At, TypeOK
  <2>2. Clean(s, b)' => SendWorks(s) /\ ~StopFailed(s)
    BY <1>clean, <2>1, CleanSendWorks DEF InFlight, Clean
  <2>3. Clean(s, b)' => Delivered(s, b)'
    BY <1>0, <1>clean, <1>same, <2>1, <2>2, SendDrain DEF InFlight, Delivered
  <2>4. qState'[s][b] = "closed"
    BY <1>0, <1>same, <2>1 DEF LoopInv
  <2>5. LoopInv(s, b)'
    BY <1>base, <2>1, <2>3, <2>4 DEF LoopInv
  <2> QED BY <1>same, <1>late, <1>others, <2>5, OneLoop
<1> QED
  BY <1>1, <1>2, <1>3, <1>4, <1>5, <1>6, <1>7, <1>8, <1>9 DEF ObservableQueueLoop

\* Every step preserves what is known of the loops.
LEMMA DrainStep == IInv /\ DrainInv /\ [Next]_vars => DrainInv'
<1> SUFFICES ASSUME IInv, DrainInv, [Next]_vars PROVE DrainInv'
  OBVIOUS
<1> USE DEF callVars, errorVars, loopVars, queueVars, registryVars, processVars, exitVars
<1>0. TypeOK
  BY DEF IInv
<1>quiet. ASSUME UNCHANGED <<obs, cur, queue, qState, accepted, sent, conn, late,
                             fg, stopChannel>>
          PROVE  DrainInv'
  BY <1>quiet, DrainFrame
<1>env. ASSUME NEW s \in Streams, Environment(s)
        PROVE  DrainInv'
  <2>1. CASE RunFlowgraph(s)
    BY <1>quiet, <2>1 DEF RunFlowgraph
  <2>2. CASE ClientCloses(s) \/ ClientVanishes(s)
    <3>1. \A t \in Streams : conn[t] = "broken" => conn'[t] = "broken"
      BY <1>0, <2>2 DEF ClientCloses, ClientVanishes, TypeOK
    <3>2. UNCHANGED <<obs, cur, queue, qState, accepted, sent, late, fg, stopChannel>>
      BY <2>2 DEF ClientCloses, ClientVanishes
    <3> QED BY <3>1, <3>2, DrainFrame
  <2>3. ASSUME NEW b \in Blocks, NEW m \in Strings, Enqueue(s, b, m)
        PROVE  DrainInv'
    BY <2>3, EnqueueDrain
  <2>4. CASE EnqueueUsesDeleted(s)
    <3>1. \A t \in Streams : fg'[t] = "stopped" => fg[t] = "stopped"
      BY <1>0, <2>4 DEF EnqueueUsesDeleted, TypeOK
    <3>2. UNCHANGED <<obs, cur, queue, qState, accepted, sent, late, conn, stopChannel>>
      BY <2>4 DEF EnqueueUsesDeleted
    <3> QED BY <3>1, <3>2, DrainFrame
  <2> QED BY <1>env, <2>1, <2>2, <2>3, <2>4 DEF Environment
<1>call. ASSUME NEW s \in Streams, Call(s)
         PROVE  DrainInv'
  <2>1. CASE RecvStart(s) \/ RecvRejects(s) \/ StartInstanceFails(s)
    BY <1>quiet, <2>1 DEF RecvStart, RecvRejects, StartInstanceFails, Reject
  <2>2. CASE StartAfterFinalize(s) \/ RegisterQueueFails(s)
    BY <1>quiet, <2>2 DEF StartAfterFinalize, RegisterQueueFails, Reject
  <2>3. CASE WaitReturns(s) \/ WaitBlocks(s) \/ WaitPanics(s) \/ DecRef(s) \/ Delete(s)
    BY <1>quiet, <2>3 DEF WaitReturns, WaitBlocks, WaitPanics, DecRef, Delete
  <2>4. CASE StartInstance(s)
    <3>1. \A t \in Streams : fg'[t] = "stopped" => fg[t] = "stopped"
      BY <1>0, <2>4 DEF StartInstance, TypeOK
    <3>2. UNCHANGED <<obs, cur, queue, qState, accepted, sent, late, conn, stopChannel>>
      BY <2>4 DEF StartInstance
    <3> QED BY <3>1, <3>2, DrainFrame
  <2>5. ASSUME NEW b \in Blocks, RegisterQueue(s, b)
        PROVE  DrainInv'
    <3> SUFFICES ASSUME NEW t \in Streams, NEW d \in Blocks PROVE LoopInv(t, d)'
      BY DEF DrainInv
    <3>1. LoopInv(t, d)
      BY DEF DrainInv
    <3>2. UNCHANGED <<obs, cur, queue, accepted, sent, late, conn, fg, stopChannel>>
      BY <2>5 DEF RegisterQueue
    <3>3. qState'[t][d] = "closed" <=> qState[t][d] = "closed"
      BY <1>0, <2>5 DEF RegisterQueue, TypeOK
    <3>4. InFlight(t, d)' <=> InFlight(t, d)
      BY <3>2 DEF InFlight
    <3>5. /\ qState'[t][d] = "closed" => stopChannel'[t]
          /\ obs'[t][d] \in {"drain", "drainSend"} => qState'[t][d] = "closed"
      BY <3>1, <3>2, <3>3 DEF LoopInv
    <3> QED BY <3>1, <3>2, <3>4, <3>5, LoopFrame
  <2>6. CASE NewStreamHandler(s)
    <3> SUFFICES ASSUME NEW t \in Streams, NEW d \in Blocks PROVE LoopInv(t, d)'
      BY DEF DrainInv
    <3>1. LoopInv(t, d)
      BY DEF DrainInv
    <3>2. UNCHANGED <<cur, queue, qState, accepted, sent, late, conn, fg, stopChannel>>
      BY <2>6 DEF NewStreamHandler
    <3>3. ~Opened(s)
      BY <2>6 DEF NewStreamHandler, Goto, Opened, AfterWait
    <3>4. obs'[t][d] = obs[t][d] \/ (obs[t][d] = "none" /\ obs'[t][d] = "spawned")
      BY <1>0, <2>6, <3>3 DEF NewStreamHandler, TypeOK, IInv, HandlerStages
    <3>5. InFlight(t, d)' <=> InFlight(t, d)
      BY <3>4 DEF InFlight
    <3>6. /\ qState'[t][d] = "closed" => stopChannel'[t]
          /\ obs'[t][d] \in {"drain", "drainSend"} => qState'[t][d] = "closed"
          /\ obs'[t][d] = "done" => obs[t][d] = "done"
      BY <3>1, <3>2, <3>4 DEF LoopInv
    <3> QED BY <3>1, <3>2, <3>5, <3>6, LoopFrame
  <2> QED BY <1>call, <2>1, <2>2, <2>3, <2>4, <2>5, <2>6 DEF Call
<1>client. ASSUME NEW s \in Streams,
                  ClientCommand(s) \/ ClientPushes(s) \/ ClientEOF(s) \/ ClientError(s)
           PROVE  DrainInv'
  BY <1>client, <1>quiet DEF ClientCommand, ClientPushes, ClientEOF, ClientError
<1>obs. ASSUME NEW s \in Streams, NEW b \in Blocks, ObservableQueueLoop(s, b)
        PROVE  DrainInv'
  BY <1>obs, LoopDrain
<1>perf. ASSUME NEW s \in Streams, PerformanceCounterCollectionLoop(s)
         PROVE  DrainInv'
  <2>1. CASE PerfJoins(s)
    <3>1. late' = late \/ late' = [late EXCEPT ![s] = @ \cup {Perf}]
      BY <2>1 DEF PerfJoins, Join
    <3>2. \A t \in Streams, d \in Blocks : d \in late[t] => d \in late'[t]
      BY <1>0, <3>1, LateKept
    <3>3. UNCHANGED <<obs, cur, queue, qState, accepted, sent, conn, fg, stopChannel>>
      BY <2>1 DEF PerfJoins
    <3> QED BY <3>2, <3>3, DrainFrame
  <2>2. CASE ~PerfJoins(s)
    BY <1>perf, <1>quiet, <2>2
    DEF PerformanceCounterCollectionLoop, PerfDisabled, PerfGetsGauges,
        PerfGaugesFail, PerfTickFails, PerfUsesFreed, PerfStops
  <2> QED BY <2>1, <2>2
<1>stop. CASE StopFlowGraph
  <2>1. \A t \in Streams : fg'[t] = "stopped" => fg[t] = "stopped" \/ ~stopChannel[t]
    BY <1>0, <1>stop DEF StopFlowGraph, IInv, CloseOnce, TypeOK
  <2>2. UNCHANGED <<obs, cur, queue, qState, accepted, sent, late, conn, stopChannel>>
    BY <1>stop DEF StopFlowGraph
  <2> QED BY <2>1, <2>2, DrainFrame
<1>release. CASE Release
  <2> SUFFICES ASSUME NEW t \in Streams, NEW d \in Blocks PROVE LoopInv(t, d)'
    BY DEF DrainInv
  <2>1. LoopInv(t, d)
    BY DEF DrainInv
  <2>2. UNCHANGED <<obs, cur, queue, late, conn, fg>>
    BY <1>release DEF Release
  <2>3. /\ stopChannel[t] => stopChannel'[t]
        /\ qState[t][d] = "closed" => qState'[t][d] = "closed"
        /\ qState'[t][d] = "closed" => qState[t][d] = "closed" \/ stopChannel'[t]
    BY <1>0, <1>release DEF Release, TypeOK
  <2>4. InFlight(t, d)' <=> InFlight(t, d)
    BY <2>2 DEF InFlight
  <2>5. /\ qState'[t][d] = "closed" => stopChannel'[t]
        /\ obs'[t][d] \in {"drain", "drainSend"} => qState'[t][d] = "closed"
    BY <2>1, <2>2, <2>3 DEF LoopInv
  <2>6. CASE t = target /\ fg[t] # "stopped"
    <3>1. accepted'[t][d] = <<>> /\ stopChannel'[t]
      BY <1>0, <1>release, <2>6 DEF Release, TypeOK
    <3>2. ~Clean(t, d)'
      BY <2>2, <2>6, <3>1 DEF Clean, StopFailed
    <3>3. \A i \in 1..Len(accepted'[t][d]) : FALSE
      BY <3>1
    <3> QED BY <2>5, <3>2, <3>3 DEF LoopInv
  <2>7. CASE ~(t = target /\ fg[t] # "stopped")
    <3>1. accepted'[t][d] = accepted[t][d] /\ sent'[t][d] = sent[t][d]
      BY <1>0, <1>release, <2>7 DEF Release, TypeOK
    <3> QED BY <2>1, <2>2, <2>3, <2>4, <2>5, <3>1, LoopFrame
  <2> QED BY <2>6, <2>7
<1>registry. CASE Registry /\ ~Release /\ ~StopFlowGraph
  BY <1>registry, <1>quiet
  DEF Registry, Closing, Register, Deregister, StopFlowGraphFails,
      CloseAllBegins, CloseAllNext, CloseAllEnds
<1>closer. ASSUME NEW c \in Closers, Terminate(c) \/ Hangup(c) \/ Shutdown(c)
           PROVE  DrainInv'
  BY <1>closer, <1>quiet
  DEF Terminate, Hangup, Shutdown, CountFlowgraphs, SleepEnds, Finalize,
      GracefulStop, GracefulStopEnds, OnlyCloserMoves
<1>stutter. CASE Exit \/ UNCHANGED vars
  BY <1>stutter, <1>quiet DEF Exit, vars
<1> QED
  BY <1>env, <1>call, <1>client, <1>obs, <1>perf, <1>stop, <1>release,
     <1>registry, <1>closer, <1>stutter
  DEF Next, Goroutines

\* When the loop of an observable block ends after its flowgraph has stopped, with
\* the connection intact, all that its queue ever accepted has been sent, in order
\* and once, but for the messages no response can be built from.
THEOREM DrainIsComplete == Spec => []DrainComplete
<1>1. Init => DrainInv
  <2> SUFFICES ASSUME Init, NEW s \in Streams, NEW b \in Blocks PROVE LoopInv(s, b)
    BY DEF DrainInv
  <2>1. /\ queue[s][b] = <<>> /\ accepted[s][b] = <<>> /\ sent[s][b] = <<>>
        /\ obs[s][b] = "none" /\ qState[s][b] = "none"
    BY DEF Init
  <2>2. Delivered(s, b)
    BY <2>1, SettledEmpty DEF Delivered, InFlight
  <2>3. \A i \in 1..Len(accepted[s][b]) : FALSE
    BY <2>1
  <2> QED BY <2>1, <2>2, <2>3 DEF LoopInv
<1>2. IInv /\ DrainInv => DrainComplete
  <2> SUFFICES ASSUME IInv, DrainInv, NEW s \in Streams, NEW b \in Blocks,
                      obs[s][b] = "done", b \notin late[s],
                      conn[s] # "broken", fg[s] = "stopped",
                      \A i \in DOMAIN accepted[s][b] : accepted[s][b][i] # EmptyString
               PROVE  SelectedFrom(sent[s][b], accepted[s][b], Len(accepted[s][b]),
                                   Strings \ TooBig)
    BY DEF DrainComplete
  <2>1. TypeOK /\ LoopInv(s, b)
    BY DEF IInv, DrainInv
  <2>2. queue[s][b] \in Seq(Strings) /\ accepted[s][b] \in Seq(Strings)
    BY <2>1, LoopTypes
  <2>3. Clean(s, b)
    BY <2>2 DEF Clean, StopFailed
  <2>4. /\ queue[s][b] = <<>>
        /\ Settled(queue[s][b], accepted[s][b], sent[s][b], Strings \ TooBig)
    BY <2>1, <2>3 DEF LoopInv, Delivered, InFlight
  <2>5. Taken(queue[s][b], accepted[s][b]) = Len(accepted[s][b])
    BY <2>2, <2>4, TakenBounds DEF Settled
  <2> QED BY <2>4, <2>5 DEF Settled
<1> QED
  BY <1>1, <1>2, ServerInvariant, DrainStep, PTL DEF Spec

=============================================================================
