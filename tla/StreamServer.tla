---------------------------- MODULE StreamServer ----------------------------
(***************************************************************************)
(* server/starcoder.go and the signal handling of cmd/serve.go: the        *)
(* registry goroutine, the RunFlowgraph calls with the goroutines of their *)
(* stream handlers, the flowgraphs that fill the observable queues, and    *)
(* the goroutines that shut the server down.                               *)
(*                                                                         *)
(* Queues are used as the atomic queues of ClosableQueue, which            *)
(* StringQueue implements.  Commands to the flowgraph are in CommandSource.*)
(***************************************************************************)
EXTENDS QueueOps, Integers, FiniteSets

CONSTANTS
  Streams,      \* the RunFlowgraph calls, and their stream handlers
  Blocks,       \* the observable blocks of every flowgraph
  NoStream,     \* no handler
  Perf,         \* stands for the performance counter goroutine of a handler
  Handler,      \* stands for the handler's own membership of its wait group
  TooBig,       \* messages no response can be built from (unparsable, oversize)
  MaxMessages,  \* bound: messages a block gets into its queue, until a stop of the flowgraph fails
  PerfEnabled,  \* perfCtrInterval # 0
  TcpStreams,   \* the calls whose start request has the radio "TCP"
  Restarts,     \* the doRestart goroutines, one per SIGHUP
  Signals       \* the goroutine that handles SIGINT, SIGTERM and SIGQUIT

ASSUME ServerAssumption ==
  /\ IsFiniteSet(Streams) /\ IsFiniteSet(Blocks)
  /\ NoStream \notin Streams
  /\ Perf \notin Blocks /\ Handler \notin Blocks /\ Perf # Handler
  /\ TooBig \subseteq Strings \ {EmptyString}
  /\ MaxMessages \in Nat
  /\ PerfEnabled \in BOOLEAN
  /\ TcpStreams \subseteq Streams
  /\ Restarts \cap Signals = {}

VARIABLES
  rpc,            \* where RunFlowgraph is, per stream
  conn,           \* the client's side: "open" | "halfClosed" | "broken"
  fg,             \* the flowgraph: "none" | "running" | "stopped" | "undefined"
  retval,         \* what RunFlowgraph returned: "none" | "nil" | "error"
  client,         \* clientReceiveLoop: "none" | "recv" | "push" | "done" | "undefined"
  obs,            \* observableQueueLoop, per stream and block
  cur,            \* its local variable bytes
  perf,           \* performanceCounterCollectionLoop
  wg,             \* the counter of the handler's WaitGroup
  released,       \* ... which has released the goroutine blocked in its Wait()
  late,           \* history: goroutines that called wg.Add after Wait returned
  finishing,      \* goroutines of finish() still to send on deregisterStreamHandler
  streamError,    \* "nil" | "error"
  clientFinished,
  stopChannel,    \* perfCtrStopChannel has been closed
  queue,          \* contents of the observable queues
  qState,         \* "none" (not registered with the block) | "open" | "closed"
  accepted,       \* history: what each queue has accepted
  sent,           \* history: what has been sent to the client
  streamHandlers, \* the registry's map
  flowgraphCount, \* the gauge metrics.FlowgraphCount
  loop,           \* registry: "select" | "stop" | "release" | "all" | "ended"
  target,         \* registry: the handler being closed
  todo,           \* registry: handlers the close of all streams has yet to close
  closingAll,     \* registry: the request to close all streams was received
  closer,         \* the goroutines that close the server
  interpreter,    \* the Python interpreter: "alive" | "finalized"
  serving,        \* the gRPC server accepts calls
  killAfterStream,
  exit            \* the process: "no" | "pending" (os.Exit is scheduled) | "exited" | "panicked"

callVars     == <<rpc, conn, fg, retval>>
errorVars    == <<finishing, streamError, clientFinished>>
loopVars     == <<obs, cur, perf, wg, released, late>>
queueVars    == <<queue, qState, accepted, sent>>
registryVars == <<streamHandlers, flowgraphCount, loop, target, todo, closingAll>>
exitVars     == <<killAfterStream, exit>>
processVars  == <<closer, interpreter, serving, exitVars>>

vars == <<callVars, errorVars, client, loopVars, stopChannel, queueVars,
          registryVars, processVars>>

Closers == Restarts \cup Signals

RpcStates ==
  {"idle", "recv", "start", "queues", "register", "registered", "waiting",
   "decref", "delete", "returned", "rejected", "startUndefined", "decrefUndefined"}

ObsStates ==
  {"none", "spawned", "pop", "send", "check", "drain", "drainSend", "done",
   "undefined"}

PerfStates == {"none", "spawned", "gauges", "loop", "done", "undefined"}

CloserStates ==
  {"idle", "count", "sleep", "closeAll", "awaitClose", "finalize",
   "gracefulStop", "draining", "done"}

TypeOK ==
  /\ rpc \in [Streams -> RpcStates]
  /\ conn \in [Streams -> {"open", "halfClosed", "broken"}]
  /\ fg \in [Streams -> {"none", "running", "stopped", "undefined"}]
  /\ retval \in [Streams -> {"none", "nil", "error"}]
  /\ client \in [Streams -> {"none", "recv", "push", "done", "undefined"}]
  /\ obs \in [Streams -> [Blocks -> ObsStates]]
  /\ cur \in [Streams -> [Blocks -> Strings]]
  /\ perf \in [Streams -> PerfStates]
  /\ wg \in [Streams -> Nat]
  /\ released \in [Streams -> BOOLEAN]
  /\ late \in [Streams -> SUBSET (Blocks \cup {Perf})]
  /\ finishing \in [Streams -> Nat]
  /\ streamError \in [Streams -> {"nil", "error"}]
  /\ clientFinished \in [Streams -> BOOLEAN]
  /\ stopChannel \in [Streams -> BOOLEAN]
  /\ queue \in [Streams -> [Blocks -> Seq(Strings)]]
  /\ qState \in [Streams -> [Blocks -> {"none", "open", "closed"}]]
  /\ accepted \in [Streams -> [Blocks -> Seq(Strings)]]
  /\ sent \in [Streams -> [Blocks -> Seq(Strings)]]
  /\ streamHandlers \subseteq Streams
  /\ flowgraphCount \in Int
  /\ loop \in {"select", "stop", "release", "all", "ended"}
  /\ target \in Streams \cup {NoStream}
  /\ todo \subseteq Streams
  /\ closingAll \in BOOLEAN
  /\ closer \in [Closers -> CloserStates]
  /\ interpreter \in {"alive", "finalized"}
  /\ serving \in BOOLEAN
  /\ killAfterStream \in BOOLEAN
  /\ exit \in {"no", "pending", "exited", "panicked"}

Init ==
  /\ rpc = [s \in Streams |-> "idle"]
  /\ conn = [s \in Streams |-> "open"]
  /\ fg = [s \in Streams |-> "none"]
  /\ retval = [s \in Streams |-> "none"]
  /\ client = [s \in Streams |-> "none"]
  /\ obs = [s \in Streams |-> [b \in Blocks |-> "none"]]
  /\ cur = [s \in Streams |-> [b \in Blocks |-> EmptyString]]
  /\ perf = [s \in Streams |-> "none"]
  /\ wg = [s \in Streams |-> 0]
  /\ released = [s \in Streams |-> FALSE]
  /\ late = [s \in Streams |-> {}]
  /\ finishing = [s \in Streams |-> 0]
  /\ streamError = [s \in Streams |-> "nil"]
  /\ clientFinished = [s \in Streams |-> FALSE]
  /\ stopChannel = [s \in Streams |-> FALSE]
  /\ queue = [s \in Streams |-> [b \in Blocks |-> <<>>]]
  /\ qState = [s \in Streams |-> [b \in Blocks |-> "none"]]
  /\ accepted = [s \in Streams |-> [b \in Blocks |-> <<>>]]
  /\ sent = [s \in Streams |-> [b \in Blocks |-> <<>>]]
  /\ streamHandlers = {}
  /\ flowgraphCount = 0
  /\ loop = "select"
  /\ target = NoStream
  /\ todo = {}
  /\ closingAll = FALSE
  /\ closer = [c \in Closers |-> "idle"]
  /\ interpreter = "alive"
  /\ serving = TRUE
  /\ killAfterStream = FALSE
  /\ exit = "no"

-----------------------------------------------------------------------------
(* What the calls of RunFlowgraph have behind them. *)

\* The process has not ended: nothing of it runs otherwise.
Up == exit \notin {"exited", "panicked"}

AfterWait == {"decref", "delete", "returned", "decrefUndefined"}

\* The deferred DecRef of the flowgraph, and the deferred q.Delete(), are done.
Freed(s) == rpc[s] \in {"delete", "returned"}
Deleted(s) == rpc[s] = "returned"

\* Close could not stop the flowgraph, which goes on sending messages; what is
\* accepted and sent from then on is not recorded.
StopFailed(s) == stopChannel[s] /\ fg[s] # "stopped"

\* Mutant: finish() that does not record the error.
FinishForgetsError(s, err) ==
  /\ clientFinished' = [clientFinished EXCEPT ![s] = @ \/ err = "nil"]
  /\ finishing' = [finishing EXCEPT ![s] = @ + 1]
  /\ UNCHANGED streamError

\* finish(err): the error is overwritten, whatever it was, and a goroutine is
\* started that offers the handler on deregisterStreamHandler.
Finish(s, err) ==
  /\ streamError' = [streamError EXCEPT ![s] = err]
  /\ clientFinished' = [clientFinished EXCEPT ![s] = @ \/ err = "nil"]
  /\ finishing' = [finishing EXCEPT ![s] = @ + 1]

\* wg.Add(1) at the head of a goroutine, and its deferred wg.Done().
Join(s, w) ==
  /\ wg' = [wg EXCEPT ![s] = @ + 1]
  /\ late' = IF rpc[s] \in AfterWait THEN [late EXCEPT ![s] = @ \cup {w}] ELSE late
  /\ UNCHANGED released

\* The Done() that takes the counter to zero releases who is blocked in Wait().
Leave(s) ==
  /\ wg' = [wg EXCEPT ![s] = @ - 1]
  /\ released' = [released EXCEPT ![s] = @ \/ (wg[s] = 1 /\ rpc[s] = "waiting")]

-----------------------------------------------------------------------------
(* The client *)

ClientCloses(s) ==
  /\ Up /\ rpc[s] # "idle" /\ conn[s] = "open"
  /\ conn' = [conn EXCEPT ![s] = "halfClosed"]
  /\ UNCHANGED <<rpc, fg, retval, errorVars, client, loopVars, stopChannel,
                 queueVars, registryVars, processVars>>

ClientVanishes(s) ==
  /\ Up /\ rpc[s] # "idle" /\ conn[s] # "broken"
  /\ conn' = [conn EXCEPT ![s] = "broken"]
  /\ UNCHANGED <<rpc, fg, retval, errorVars, client, loopVars, stopChannel,
                 queueVars, registryVars, processVars>>

-----------------------------------------------------------------------------
(* RunFlowgraph *)

Goto(s, from, to) == Up /\ rpc[s] = from /\ rpc' = [rpc EXCEPT ![s] = to]

Reject(s, from, err) ==
  /\ Goto(s, from, "rejected")
  /\ retval' = [retval EXCEPT ![s] = err]
  /\ UNCHANGED <<conn, fg, errorVars, client, loopVars, stopChannel, queueVars,
                 registryVars, closer, interpreter, serving, exit>>

RunFlowgraph(s) ==
  /\ serving
  /\ Goto(s, "idle", "recv")
  /\ UNCHANGED <<conn, fg, retval, errorVars, client, loopVars, stopChannel,
                 queueVars, registryVars, processVars>>

\* The first Recv yields a StartFlowgraphRequest, and its file compiles.
RecvStart(s) ==
  /\ conn[s] # "broken"
  /\ Goto(s, "recv", "start")
  /\ UNCHANGED <<conn, fg, retval, errorVars, client, loopVars, stopChannel,
                 queueVars, registryVars, processVars>>

\* The first Recv meets the end of the stream; or it fails, yields another
\* kind of request, or one whose file does not compile.
RecvRejects(s) ==
  /\ \/ conn[s] = "halfClosed" /\ Reject(s, "recv", "nil")
     \/ Reject(s, "recv", "error")
  /\ UNCHANGED killAfterStream

\* startFlowGraph, up to the call of the instance's start method; on the way
\* fillDictWithParameters looks at the radio.
StartInstance(s) ==
  /\ interpreter = "alive"
  /\ Goto(s, "start", "queues")
  /\ fg' = [fg EXCEPT ![s] = "running"]
  /\ killAfterStream' = (killAfterStream \/ s \in TcpStreams)
  /\ UNCHANGED <<conn, retval, errorVars, client, loopVars, stopChannel,
                 queueVars, registryVars, closer, interpreter, serving, exit>>

\* It fails before it has looked at the parameters, or afterwards.
StartInstanceFails(s) ==
  /\ interpreter = "alive"
  /\ Reject(s, "start", "error")
  /\ \/ UNCHANGED killAfterStream
     \/ killAfterStream' = (killAfterStream \/ s \in TcpStreams)

\* A call that comes before GracefulStop uses a finalized interpreter.
StartAfterFinalize(s) ==
  /\ interpreter = "finalized"
  /\ \E from \in {"start", "queues"} : Goto(s, from, "startUndefined")
  /\ UNCHANGED <<conn, fg, retval, errorVars, client, loopVars, stopChannel,
                 queueVars, registryVars, processVars>>

\* startFlowGraph, one iteration over the started instance's blocks: a new
\* queue is handed to the block.
RegisterQueue(s, b) ==
  /\ Up /\ interpreter = "alive"
  /\ rpc[s] = "queues" /\ qState[s][b] = "none"
  /\ qState' = [qState EXCEPT ![s][b] = "open"]
  /\ UNCHANGED <<callVars, errorVars, client, loopVars, stopChannel, queue,
                 accepted, sent, registryVars, processVars>>

\* An error there returns at once: the instance goes on running, and the
\* queues registered so far stay with their blocks.
RegisterQueueFails(s) ==
  /\ interpreter = "alive"
  /\ Reject(s, "queues", "error")
  /\ UNCHANGED killAfterStream

\* newStreamHandler: starts the goroutines, then wg.Add(1).
NewStreamHandler(s) ==
  /\ \A b \in Blocks : qState[s][b] # "none"
  /\ Goto(s, "queues", "register")
  /\ client' = [client EXCEPT ![s] = "recv"]
  /\ obs' = [obs EXCEPT ![s] = [b \in Blocks |-> "spawned"]]
  /\ perf' = [perf EXCEPT ![s] = "spawned"]
  /\ wg' = [wg EXCEPT ![s] = @ + 1]
  /\ UNCHANGED <<conn, fg, retval, errorVars, cur, released, late, stopChannel,
                 queueVars, registryVars, processVars>>

\* Mutant: RunFlowgraph without sh.Wait().
DoesNotWait(s) ==
  /\ Goto(s, "waiting", "decref")
  /\ retval' = [retval EXCEPT ![s] = streamError[s]]
  /\ UNCHANGED <<conn, fg, errorVars, client, loopVars, stopChannel,
                 queueVars, registryVars, processVars>>

\* sh.Wait() returns, at once or after it was released, and streamError is read.
WaitReturns(s) ==
  /\ wg[s] = 0
  /\ \/ Goto(s, "registered", "decref")
     \/ released[s] /\ Goto(s, "waiting", "decref")
  /\ retval' = [retval EXCEPT ![s] = streamError[s]]
  /\ UNCHANGED <<conn, fg, errorVars, client, loopVars, stopChannel,
                 queueVars, registryVars, processVars>>

WaitBlocks(s) ==
  /\ wg[s] # 0
  /\ Goto(s, "registered", "waiting")
  /\ UNCHANGED <<conn, fg, retval, errorVars, client, loopVars, stopChannel,
                 queueVars, registryVars, processVars>>

\* It was released, and before it returns a goroutine joins: "WaitGroup is reused
\* before previous Wait has returned".
WaitPanics(s) ==
  /\ Up /\ rpc[s] = "waiting" /\ released[s] /\ wg[s] # 0
  /\ exit' = "panicked"
  /\ UNCHANGED <<callVars, errorVars, client, loopVars, stopChannel, queueVars,
                 registryVars, closer, interpreter, serving, killAfterStream>>

\* The deferred function: first the interpreter drops the flowgraph ...
DecRef(s) ==
  /\ Goto(s, "decref", IF interpreter = "alive" THEN "delete" ELSE "decrefUndefined")
  /\ UNCHANGED <<conn, fg, retval, errorVars, client, loopVars, stopChannel,
                 queueVars, registryVars, processVars>>

\* ... then the observable queues are deleted, and a goroutine may be started
\* that sleeps and exits.
Delete(s) ==
  /\ Goto(s, "delete", "returned")
  /\ exit' = IF killAfterStream THEN "pending" ELSE exit
  /\ UNCHANGED <<conn, fg, retval, errorVars, client, loopVars, stopChannel,
                 queueVars, registryVars, closer, interpreter, serving,
                 killAfterStream>>

\* os.Exit(0).
Exit ==
  /\ exit = "pending"
  /\ exit' = "exited"
  /\ UNCHANGED <<callVars, errorVars, client, loopVars, stopChannel, queueVars,
                 registryVars, closer, interpreter, serving, killAfterStream>>

-----------------------------------------------------------------------------
(* clientReceiveLoop: not a member of the wait group.  Requests it ignores   *)
(* leave this module's state alone, and what becomes of a command is the     *)
(* subject of CommandSource.                                                 *)

\* A command for a block that has a queue.
ClientCommand(s) ==
  /\ Up /\ client[s] = "recv" /\ conn[s] # "broken" /\ rpc[s] # "returned"
  /\ client' = [client EXCEPT ![s] = "push"]
  /\ UNCHANGED <<callVars, errorVars, loopVars, stopChannel, queueVars,
                 registryVars, processVars>>

\* commandCQueue.Push: the queue belongs to the block, which may have been
\* dropped with the flowgraph since.
ClientPushes(s) ==
  /\ Up /\ client[s] = "push"
  /\ client' = [client EXCEPT ![s] = IF Freed(s) THEN "undefined" ELSE "recv"]
  /\ UNCHANGED <<callVars, errorVars, loopVars, stopChannel, queueVars,
                 registryVars, processVars>>

ClientEOF(s) ==
  /\ Up /\ client[s] = "recv" /\ conn[s] = "halfClosed"
  /\ Finish(s, "nil")
  /\ client' = [client EXCEPT ![s] = "done"]
  /\ UNCHANGED <<callVars, loopVars, stopChannel, queueVars, registryVars,
                 processVars>>

\* Recv also fails once the call has returned: gRPC cancels its context.
ClientError(s) ==
  /\ Up /\ client[s] = "recv"
  /\ conn[s] = "broken" \/ rpc[s] = "returned"
  /\ Finish(s, "error")
  /\ client' = [client EXCEPT ![s] = "done"]
  /\ UNCHANGED <<callVars, loopVars, stopChannel, queueVars, registryVars,
                 processVars>>

-----------------------------------------------------------------------------
(* observableQueueLoop *)

At(s, b, from, to) ==
  Up /\ obs[s][b] = from /\ obs' = [obs EXCEPT ![s][b] = to]

SendWorks(s) == conn[s] # "broken" /\ rpc[s] # "returned"

\* wg.Add(1), from inside the new goroutine.
LoopJoins(s, b) ==
  /\ At(s, b, "spawned", "pop")
  /\ Join(s, b)
  /\ UNCHANGED <<callVars, errorVars, client, cur, perf, stopChannel,
                 queueVars, registryVars, processVars>>

\* A queue that has been deleted is used.
LoopUsesDeleted(s, b) ==
  /\ Deleted(s)
  /\ \E from \in {"pop", "check", "drain"} : At(s, b, from, "undefined")
  /\ UNCHANGED <<callVars, errorVars, client, cur, perf, wg, released, late, stopChannel,
                 queueVars, registryVars, processVars>>

TakeItem(s, b) ==
  /\ cur' = [cur EXCEPT ![s][b] = PopResult(queue[s][b])]
  /\ queue' = [queue EXCEPT ![s][b] = Popped(@)]

\* q.BlockingPop(), and the test for a string of length 0.
LoopPops(s, b) ==
  /\ ~Deleted(s)
  /\ queue[s][b] # <<>> \/ qState[s][b] = "closed"
  /\ TakeItem(s, b)
  /\ At(s, b, "pop",
        IF PopResult(queue[s][b]) = EmptyString THEN "check" ELSE "send")
  /\ UNCHANGED <<callVars, errorVars, client, perf, wg, released, late, stopChannel,
                 qState, accepted, sent, registryVars, processVars>>

\* No response can be built: the loop continues, without looking at Closed().
LoopSkips(s, b) ==
  /\ cur[s][b] \in TooBig
  /\ At(s, b, "send", "pop")
  /\ UNCHANGED <<callVars, errorVars, client, cur, perf, wg, released, late, stopChannel,
                 queueVars, registryVars, processVars>>

SentOn(s, b) ==
  sent' = IF StopFailed(s) THEN sent ELSE [sent EXCEPT ![s][b] = Append(@, cur[s][b])]

\* stream.Send, once the client has made room for the message.
LoopSends(s, b) ==
  /\ cur[s][b] \notin TooBig /\ SendWorks(s)
  /\ At(s, b, "send", "check")
  /\ SentOn(s, b)
  /\ UNCHANGED <<callVars, errorVars, client, cur, perf, wg, released, late, stopChannel,
                 queue, qState, accepted, registryVars, processVars>>

\* Mutants: the error path calls wg.Done() itself, besides the deferred call;
\* and it never does.
LoopSendFailsDoneTwice(s, b) ==
  /\ cur[s][b] \notin TooBig /\ ~SendWorks(s)
  /\ At(s, b, "send", "done")
  /\ Finish(s, "error")
  /\ wg' = [wg EXCEPT ![s] = @ - 2]
  /\ UNCHANGED <<callVars, client, cur, perf, released, late, stopChannel, queueVars,
                 registryVars, processVars>>

LoopSendFailsNotDone(s, b) ==
  /\ cur[s][b] \notin TooBig /\ ~SendWorks(s)
  /\ At(s, b, "send", "done")
  /\ Finish(s, "error")
  /\ UNCHANGED <<callVars, client, cur, perf, wg, released, late, stopChannel, queueVars,
                 registryVars, processVars>>

LoopSendFails(s, b) ==
  /\ cur[s][b] \notin TooBig /\ ~SendWorks(s)
  /\ At(s, b, "send", "done")
  /\ Finish(s, "error")
  /\ Leave(s)
  /\ UNCHANGED <<callVars, client, cur, perf, late, stopChannel, queueVars,
                 registryVars, processVars>>

LoopChecksClosed(s, b) ==
  /\ ~Deleted(s)
  /\ At(s, b, "check", IF qState[s][b] = "closed" THEN "drain" ELSE "pop")
  /\ UNCHANGED <<callVars, errorVars, client, cur, perf, wg, released, late, stopChannel,
                 queueVars, registryVars, processVars>>

\* Mutant: the loop returns as soon as the queue is closed.
LoopDoesNotDrain(s, b) ==
  /\ At(s, b, "drain", "done")
  /\ Leave(s)
  /\ UNCHANGED <<callVars, errorVars, client, cur, perf, late, stopChannel,
                 queueVars, registryVars, processVars>>

\* q.Pop() in the loop that sends the rest; "" ends the loop and the goroutine.
LoopDrains(s, b) ==
  /\ ~Deleted(s)
  /\ TakeItem(s, b)
  /\ \/ /\ PopResult(queue[s][b]) # EmptyString
        /\ At(s, b, "drain", "drainSend")
        /\ UNCHANGED <<wg, released>>
     \/ /\ PopResult(queue[s][b]) = EmptyString
        /\ At(s, b, "drain", "done")
        /\ Leave(s)
  /\ UNCHANGED <<callVars, errorVars, client, perf, late, stopChannel, qState,
                 accepted, sent, registryVars, processVars>>

\* Errors here are only logged.
LoopDrainSends(s, b) ==
  /\ At(s, b, "drainSend", "drain")
  /\ IF cur[s][b] \notin TooBig /\ SendWorks(s) THEN SentOn(s, b) ELSE UNCHANGED sent
  /\ UNCHANGED <<callVars, errorVars, client, cur, perf, wg, released, late, stopChannel,
                 queue, qState, accepted, registryVars, processVars>>

ObservableQueueLoop(s, b) ==
  \/ LoopJoins(s, b) \/ LoopUsesDeleted(s, b) \/ LoopPops(s, b)
  \/ LoopSkips(s, b) \/ LoopSends(s, b) \/ LoopSendFails(s, b)
  \/ LoopChecksClosed(s, b) \/ LoopDrains(s, b) \/ LoopDrainSends(s, b)

\* In stream.Send on a connection that stands: it returns when the client has
\* read enough for the message to fit into the flow-control window.
Sending(s, b) ==
  obs[s][b] \in {"send", "drainSend"} /\ cur[s][b] \notin TooBig /\ SendWorks(s)

-----------------------------------------------------------------------------
(* performanceCounterCollectionLoop *)

PerfAt(s, from, to) == Up /\ perf[s] = from /\ perf' = [perf EXCEPT ![s] = to]

PerfDisabled(s) ==
  /\ ~PerfEnabled
  /\ PerfAt(s, "spawned", "done")
  /\ UNCHANGED <<callVars, errorVars, client, obs, cur, wg, released, late, stopChannel,
                 queueVars, registryVars, processVars>>

PerfJoins(s) ==
  /\ PerfEnabled
  /\ PerfAt(s, "spawned", "gauges")
  /\ Join(s, Perf)
  /\ UNCHANGED <<callVars, errorVars, client, obs, cur, stopChannel, queueVars,
                 registryVars, processVars>>

\* The gauges are looked up; an error only ends this goroutine.
PerfGetsGauges(s) ==
  /\ PerfAt(s, "gauges", "loop")
  /\ UNCHANGED <<callVars, errorVars, client, obs, cur, wg, released, late, stopChannel,
                 queueVars, registryVars, processVars>>

PerfGaugesFail(s) ==
  /\ PerfAt(s, "gauges", "done")
  /\ Leave(s)
  /\ UNCHANGED <<callVars, errorVars, client, obs, cur, late, stopChannel,
                 queueVars, registryVars, processVars>>

\* A tick on which a counter cannot be read.  (One that works only sets gauges.)
PerfTickFails(s) ==
  /\ ~Freed(s) /\ interpreter = "alive"
  /\ PerfAt(s, "loop", "done")
  /\ Finish(s, "error")
  /\ Leave(s)
  /\ UNCHANGED <<callVars, client, obs, cur, late, stopChannel, queueVars,
                 registryVars, processVars>>

\* A tick that calls into a finalized interpreter or a dropped flowgraph.
PerfUsesFreed(s) ==
  /\ Freed(s) \/ interpreter = "finalized"
  /\ PerfAt(s, "loop", "undefined")
  /\ UNCHANGED <<callVars, errorVars, client, obs, cur, wg, released, late, stopChannel,
                 queueVars, registryVars, processVars>>

PerfStops(s) ==
  /\ stopChannel[s]
  /\ PerfAt(s, "loop", "done")
  /\ Leave(s)
  /\ UNCHANGED <<callVars, errorVars, client, obs, cur, late, stopChannel,
                 queueVars, registryVars, processVars>>

PerformanceCounterCollectionLoop(s) ==
  \/ PerfDisabled(s) \/ PerfJoins(s) \/ PerfGetsGauges(s) \/ PerfGaugesFail(s)
  \/ PerfTickFails(s) \/ PerfUsesFreed(s) \/ PerfStops(s)

-----------------------------------------------------------------------------
(* enqueue_message_sink: the handler of a running block.  A message over the *)
(* size limit, one that comes before the queue is registered and one that    *)
(* finds it full leave no trace.                                             *)

Enqueue(s, b, m) ==
  /\ Up /\ fg[s] = "running" /\ qState[s][b] # "none" /\ m \notin Large
  /\ ~Deleted(s)
  /\ HasRoom(queue[s][b])
  /\ StopFailed(s) \/ Len(accepted[s][b]) < MaxMessages
  /\ queue' = [queue EXCEPT ![s][b] = Pushed(@, m)]
  /\ accepted' = IF StopFailed(s) THEN accepted ELSE [accepted EXCEPT ![s][b] = Append(@, m)]
  /\ UNCHANGED <<callVars, errorVars, client, loopVars, stopChannel, qState,
                 sent, registryVars, processVars>>

\* A flowgraph that could not be stopped pushes to a deleted queue.
EnqueueUsesDeleted(s) ==
  /\ Up /\ fg[s] = "running" /\ Deleted(s) /\ Blocks # {}
  /\ fg' = [fg EXCEPT ![s] = "undefined"]
  /\ UNCHANGED <<rpc, conn, retval, errorVars, client, loopVars, stopChannel,
                 queueVars, registryVars, processVars>>

-----------------------------------------------------------------------------
(* The registry goroutine *)

\* case sh := <-s.registerStreamHandler, with RunFlowgraph as the sender.
Register(s) ==
  /\ loop = "select"
  /\ Goto(s, "register", "registered")
  /\ streamHandlers' = streamHandlers \cup {s}
  /\ flowgraphCount' = flowgraphCount + 1
  /\ UNCHANGED <<conn, fg, retval, errorVars, client, loopVars, stopChannel,
                 queueVars, loop, target, todo, closingAll, processVars>>

\* Mutant: the handler is closed without the test that it is in the map.
DeregisterAnyway(s) ==
  /\ Up /\ loop = "select" /\ finishing[s] > 0
  /\ finishing' = [finishing EXCEPT ![s] = @ - 1]
  /\ loop' = "stop" /\ target' = s
  /\ UNCHANGED <<callVars, streamError, clientFinished, client, loopVars,
                 stopChannel, queueVars, streamHandlers, flowgraphCount, todo,
                 closingAll, processVars>>

\* case sh := <-s.deregisterStreamHandler, with a goroutine of finish() as the
\* sender.  A handler that is not registered is ignored.
Deregister(s) ==
  /\ Up /\ loop = "select" /\ finishing[s] > 0
  /\ finishing' = [finishing EXCEPT ![s] = @ - 1]
  /\ \/ /\ s \in streamHandlers
        /\ loop' = "stop" /\ target' = s
     \/ /\ s \notin streamHandlers
        /\ UNCHANGED <<loop, target>>
  /\ UNCHANGED <<callVars, streamError, clientFinished, client, loopVars,
                 stopChannel, queueVars, streamHandlers, flowgraphCount, todo,
                 closingAll, processVars>>

\* streamHandler.Close: stopFlowGraph, which calls the flowgraph's stop and wait;
\* it may fail, or never return ...
StopFlowGraph ==
  /\ Up /\ loop = "stop"
  /\ loop' = "release"
  /\ fg' = [fg EXCEPT ![target] = "stopped"]
  /\ UNCHANGED <<rpc, conn, retval, errorVars, client, loopVars, stopChannel,
                 queueVars, streamHandlers, flowgraphCount, target, todo,
                 closingAll, processVars>>

StopFlowGraphFails ==
  /\ Up /\ loop = "stop"
  /\ loop' = "release"
  /\ Finish(target, "error")
  /\ UNCHANGED <<callVars, client, loopVars, stopChannel, queueVars,
                 streamHandlers, flowgraphCount, target, todo, closingAll,
                 processVars>>

\* Mutants: the observable queues are not closed; the close of all streams
\* forgets that it is one.
ReleaseWithoutQueues ==
  /\ Up /\ loop = "release"
  /\ stopChannel' = [stopChannel EXCEPT ![target] = TRUE]
  /\ Leave(target)
  /\ loop' = IF closingAll THEN "all" ELSE "select"
  /\ streamHandlers' = IF closingAll THEN streamHandlers ELSE streamHandlers \ {target}
  /\ UNCHANGED <<callVars, errorVars, client, obs, cur, perf, late, queueVars,
                 flowgraphCount, target, todo, closingAll, processVars>>

ReleaseReturnsToSelect ==
  /\ Up /\ loop = "release"
  /\ qState' = [qState EXCEPT ![target] = [b \in Blocks |-> "closed"]]
  /\ stopChannel' = [stopChannel EXCEPT ![target] = TRUE]
  /\ Leave(target)
  /\ loop' = "select"
  /\ streamHandlers' = streamHandlers \ {target}
  /\ UNCHANGED <<callVars, errorVars, client, obs, cur, perf, late, queue,
                 accepted, sent, flowgraphCount, target, todo, closingAll,
                 processVars>>

\* ... then the deferred function: closes the observable queues and the stop
\* channel, wg.Done().  Back in the registry, a handler that was deregistered
\* leaves the map; one closed with all the others stays there.
Release ==
  /\ Up /\ loop = "release"
  /\ qState' = [qState EXCEPT ![target] = [b \in Blocks |-> "closed"]]
  /\ stopChannel' = [stopChannel EXCEPT ![target] = TRUE]
  /\ Leave(target)
  /\ \/ /\ closingAll
        /\ loop' = "all"
        /\ UNCHANGED <<streamHandlers, flowgraphCount>>
     \/ /\ ~closingAll
        /\ loop' = "select"
        /\ streamHandlers' = streamHandlers \ {target}
        /\ flowgraphCount' = flowgraphCount - 1
  /\ \/ /\ fg[target] = "stopped"
        /\ UNCHANGED <<accepted, sent>>
     \/ /\ fg[target] # "stopped"
        /\ accepted' = [accepted EXCEPT ![target] = [b \in Blocks |-> <<>>]]
        /\ sent' = [sent EXCEPT ![target] = [b \in Blocks |-> <<>>]]
  /\ UNCHANGED <<callVars, errorVars, client, obs, cur, perf, late, queue,
                 target, todo, closingAll, processVars>>

\* case respCh := <-s.closeAllStreamsChannel: every handler is closed, in the
\* map's order, then the caller is answered and the goroutine ends.
CloseAllBegins(c) ==
  /\ Up /\ loop = "select" /\ closer[c] = "closeAll"
  /\ loop' = "all" /\ todo' = streamHandlers /\ closingAll' = TRUE
  /\ closer' = [closer EXCEPT ![c] = "awaitClose"]
  /\ UNCHANGED <<callVars, errorVars, client, loopVars, stopChannel, queueVars,
                 streamHandlers, flowgraphCount, target, interpreter, serving,
                 exitVars>>

CloseAllNext(s) ==
  /\ Up /\ loop = "all" /\ s \in todo
  /\ loop' = "stop" /\ target' = s /\ todo' = todo \ {s}
  /\ UNCHANGED <<callVars, errorVars, client, loopVars, stopChannel, queueVars,
                 streamHandlers, flowgraphCount, closingAll, processVars>>

\* Mutant: the caller is answered before all handlers are closed.
CloseAllEndsEarly(c) ==
  /\ Up /\ loop = "all" /\ closer[c] = "awaitClose"
  /\ loop' = "ended"
  /\ closer' = [closer EXCEPT ![c] = "finalize"]
  /\ UNCHANGED <<callVars, errorVars, client, loopVars, stopChannel, queueVars,
                 streamHandlers, flowgraphCount, target, todo, closingAll,
                 interpreter, serving, exitVars>>

CloseAllEnds(c) ==
  /\ Up /\ loop = "all" /\ todo = {} /\ closer[c] = "awaitClose"
  /\ loop' = "ended"
  /\ closer' = [closer EXCEPT ![c] = "finalize"]
  /\ UNCHANGED <<callVars, errorVars, client, loopVars, stopChannel, queueVars,
                 streamHandlers, flowgraphCount, target, todo, closingAll,
                 interpreter, serving, exitVars>>

-----------------------------------------------------------------------------
(* Shutting down: the signal goroutine, doRestart, and Starcoder.Close. *)

CloserAt(c, from, to) ==
  /\ Up /\ closer[c] = from
  /\ closer' = [closer EXCEPT ![c] = to]

OnlyCloserMoves ==
  UNCHANGED <<callVars, errorVars, client, loopVars, stopChannel, queueVars,
              registryVars>>

Terminate(c) ==
  /\ c \in Signals
  /\ CloserAt(c, "idle", "closeAll")
  /\ OnlyCloserMoves /\ UNCHANGED <<interpreter, serving, exitVars>>

\* SIGHUP, received while the signal goroutine is still in its loop.
Hangup(c) ==
  /\ c \in Restarts /\ \A g \in Signals : closer[g] = "idle"
  /\ CloserAt(c, "idle", "count")
  /\ OnlyCloserMoves /\ UNCHANGED <<interpreter, serving, exitVars>>

\* GetCurrentFlowgraphCount, answered by the registry.
CountFlowgraphs(c) ==
  /\ loop = "select"
  /\ CloserAt(c, "count", IF streamHandlers = {} THEN "closeAll" ELSE "sleep")
  /\ OnlyCloserMoves /\ UNCHANGED <<interpreter, serving, exitVars>>

SleepEnds(c) ==
  /\ CloserAt(c, "sleep", "count")
  /\ OnlyCloserMoves /\ UNCHANGED <<interpreter, serving, exitVars>>

\* Starcoder.Close goes on to finalize the interpreter.
Finalize(c) ==
  /\ CloserAt(c, "finalize", "gracefulStop")
  /\ interpreter' = "finalized"
  /\ OnlyCloserMoves /\ UNCHANGED <<serving, exitVars>>

\* GracefulStop: no new calls, and the calls under way are waited for.
GracefulStop(c) ==
  /\ CloserAt(c, "gracefulStop", "draining")
  /\ serving' = FALSE
  /\ OnlyCloserMoves /\ UNCHANGED <<interpreter, exitVars>>

GracefulStopEnds(c) ==
  /\ \A s \in Streams : rpc[s] \in {"idle", "rejected", "returned"}
  /\ CloserAt(c, "draining", "done")
  /\ OnlyCloserMoves /\ UNCHANGED <<interpreter, serving, exitVars>>

-----------------------------------------------------------------------------
\* The goroutine of a call, inside RunFlowgraph.
Call(s) ==
  \/ RecvStart(s) \/ RecvRejects(s)
  \/ StartInstance(s) \/ StartInstanceFails(s) \/ StartAfterFinalize(s)
  \/ (\E b \in Blocks : RegisterQueue(s, b)) \/ RegisterQueueFails(s)
  \/ NewStreamHandler(s)
  \/ WaitReturns(s) \/ WaitBlocks(s) \/ WaitPanics(s) \/ DecRef(s) \/ Delete(s)

Environment(s) ==
  \/ RunFlowgraph(s) \/ ClientCloses(s) \/ ClientVanishes(s)
  \/ \E b \in Blocks, m \in Strings : Enqueue(s, b, m)
  \/ EnqueueUsesDeleted(s)

Goroutines(s) ==
  \/ ClientCommand(s) \/ ClientPushes(s) \/ ClientEOF(s) \/ ClientError(s)
  \/ \E b \in Blocks : ObservableQueueLoop(s, b)
  \/ PerformanceCounterCollectionLoop(s)

Closing ==
  \/ StopFlowGraph \/ StopFlowGraphFails \/ Release
  \/ \E s \in Streams : CloseAllNext(s)
  \/ \E c \in Closers : CloseAllEnds(c)

Registry ==
  \/ \E s \in Streams : Register(s) \/ Deregister(s)
  \/ \E c \in Closers : CloseAllBegins(c)
  \/ Closing

Shutdown(c) ==
  \/ CountFlowgraphs(c) \/ SleepEnds(c) \/ Finalize(c)
  \/ GracefulStop(c) \/ GracefulStopEnds(c)

Next ==
  \/ \E s \in Streams : Environment(s) \/ Call(s) \/ Goroutines(s)
  \/ Registry
  \/ \E c \in Closers : Terminate(c) \/ Hangup(c) \/ Shutdown(c)
  \/ Exit

Spec == Init /\ [][Next]_vars

\* Every goroutine that can run does, but for the calls that wait for somebody
\* else: nothing is assumed of flowgraphs, which need not stop (StopFlowGraph),
\* nor of clients once they have sent their first request, which need not read
\* what is sent (Sending).  Nor is anything assumed of signals, of messages, or of
\* which way a step that may fail goes.  The select of the registry and that of
\* the performance counter loop choose at random among the cases that are ready,
\* hence strong fairness for each of those.  A client that has closed its side
\* has sent finitely many commands before.
Fairness ==
  /\ WF_vars(Release) /\ WF_vars(Exit)
  /\ WF_vars((\E s \in Streams : CloseAllNext(s)) \/ (\E c \in Closers : CloseAllEnds(c)))
  /\ \A s \in Streams :
       /\ WF_vars(Call(s))
       /\ WF_vars(ClientPushes(s)) /\ WF_vars(ClientError(s)) /\ SF_vars(ClientEOF(s))
       /\ \A b \in Blocks : WF_vars(~Sending(s, b) /\ ObservableQueueLoop(s, b))
       /\ WF_vars(PerfDisabled(s) \/ PerfJoins(s) \/ PerfGetsGauges(s) \/ PerfGaugesFail(s))
       /\ SF_vars(PerfStops(s))
       /\ SF_vars(Register(s)) /\ SF_vars(Deregister(s))
  /\ \A c \in Closers :
       /\ WF_vars(SleepEnds(c) \/ Finalize(c) \/ GracefulStop(c) \/ GracefulStopEnds(c))
       /\ SF_vars(CountFlowgraphs(c)) /\ SF_vars(CloseAllBegins(c))

FairSpec == Spec /\ Fairness

-----------------------------------------------------------------------------
(* Properties *)

\* Inside their loops: between wg.Add(1) and wg.Done().
InsideLoop == {"pop", "send", "check", "drain", "drainSend", "undefined"}
InsidePerf == {"gauges", "loop", "undefined"}

Opened(s) == rpc[s] \in {"register", "registered", "waiting"} \cup AfterWait

\* Who has been added to the wait group of a handler and is not done.
Members(s) ==
  {b \in Blocks : obs[s][b] \in InsideLoop}
    \cup (IF perf[s] \in InsidePerf THEN {Perf} ELSE {})
    \cup (IF Opened(s) /\ ~stopChannel[s] THEN {Handler} ELSE {})

\* The wait group counts exactly the goroutines inside their loops and the
\* handler until it is closed: it is never negative (which would panic), and
\* sh.Wait() never returns with one of them still there.
WaitGroupExact == \A s \in Streams : wg[s] = Cardinality(Members(s))

\* The registry closes a handler at most once, however many of its goroutines
\* called finish(): a second Close would close a closed channel and panic.
CloseOnce == loop \in {"stop", "release"} => ~stopChannel[target]

\* The observable queues are deleted, and the flowgraph is dropped, under no
\* goroutine but one that was scheduled so late that it called wg.Add(1) only
\* after sh.Wait() had returned.
FreedOnlyUnderLate ==
  \A s \in Streams :
    /\ \A b \in Blocks :
         Deleted(s) /\ obs[s][b] \in InsideLoop => b \in late[s]
    /\ Freed(s) /\ perf[s] \in InsidePerf => Perf \in late[s]

\* When an observable loop ends normally after its flowgraph has stopped,
\* with the connection intact, every message the queue had accepted was sent,
\* in order, except those no response can be built from.  (No claim is made
\* if a message was the empty string, which ends the drain early.)
DrainComplete ==
  \A s \in Streams, b \in Blocks :
    (/\ obs[s][b] = "done" /\ b \notin late[s]
     /\ conn[s] # "broken" /\ fg[s] = "stopped"
     /\ \A i \in DOMAIN accepted[s][b] : accepted[s][b][i] # EmptyString)
    => SelectedFrom(sent[s][b], accepted[s][b], Len(accepted[s][b]), Strings \ TooBig)

\* RunFlowgraph reports success only if the client ended the stream or the
\* server was shut down.
NilMeansFinished ==
  \A s \in Streams :
    rpc[s] \in AfterWait /\ retval[s] = "nil" => clientFinished[s] \/ closingAll

\* The three calls that may keep the server from what it promises: the wait of
\* stopFlowGraph, in which the registry goroutine then stays; a Send to a client
\* that does not read; and the drain of a queue that a flowgraph which could not
\* be stopped fills again and again.
StopNeverReturns == <>[](loop = "stop")
NotRead(s) == \E b \in Blocks : <>[]Sending(s, b)
FedForEver(s) ==
  []<><<StopFailed(s) /\ \E b \in Blocks, m \in Strings : Enqueue(s, b, m)>>_vars

\* A registered handler whose end has been signalled ends: its goroutines leave
\* and RunFlowgraph gets past sh.Wait(), unless the process ends or one of those
\* three calls lasts for ever.
SignalledHandlerEnds ==
  \A s \in Streams :
    \/ StopNeverReturns \/ NotRead(s) \/ FedForEver(s)
    \/ (s \in streamHandlers /\ finishing[s] > 0) ~> (rpc[s] \in AfterWait \/ ~Up)

\* finish(): "Signals starcoder server that it needs to end this stream
\* handler": once it is called, RunFlowgraph gets past sh.Wait(), if flowgraphs
\* stop.
FinishEndsHandler ==
  \/ StopNeverReturns
  \/ \A s \in Streams : finishing[s] > 0 ~> rpc[s] \in AfterWait

\* When the registry goroutine is gone, every handler left in its map has
\* been closed: no stream outlives the close of the server unnoticed.
EndedClosedAll ==
  loop = "ended" => \A s \in streamHandlers : stopChannel[s]

\* Starcoder.Close gets the registry to close all streams and to end, also
\* when a restart and a termination race, unless the process exits first or a
\* flowgraph never stops.
CloseEndsRegistry ==
  \/ StopNeverReturns
  \/ \A c \in Closers : closer[c] = "closeAll" ~> (loop = "ended" \/ ~Up)

\* SIGHUP: "Starcoder will restart.": once doRestart has found no flowgraph,
\* the server stops, if flowgraphs do, unless a call has run into the finalized
\* interpreter.
RestartCompletes ==
  \/ StopNeverReturns
  \/ \A c \in Restarts :
       closer[c] = "closeAll"
         ~> \/ closer[c] = "done"
            \/ \E s \in Streams : rpc[s] \in {"startUndefined", "decrefUndefined"}

-----------------------------------------------------------------------------
(* The strengthening that makes the safety properties inductive. *)

\* Where a call has no handler yet, it has no goroutines either; its handler
\* is registered, and then closed, only once it has reached sh.Wait().
HandlerStages ==
  \A s \in Streams :
    /\ ~Opened(s) => /\ perf[s] = "none" /\ client[s] = "none"
                     /\ \A b \in Blocks : obs[s][b] = "none"
    /\ s \in streamHandlers \/ stopChannel[s] => rpc[s] \in {"registered", "waiting"} \cup AfterWait

\* What the registry is doing, and which of its handlers are closed by then.
RegistryStages ==
  /\ loop \in {"stop", "release"} => target \in streamHandlers \ todo
  /\ loop = "select" => ~closingAll
  /\ loop \in {"all", "ended"} => closingAll
  /\ ~closingAll \/ loop = "ended" => todo = {}
  /\ todo \subseteq streamHandlers
  /\ \A s \in streamHandlers :
       stopChannel[s] <=> /\ closingAll /\ s \notin todo
                          /\ ~(loop \in {"stop", "release"} /\ target = s)

\* Past sh.Wait() the handler is closed and only late goroutines are inside.
QuietAfterWait ==
  \A s \in Streams :
    rpc[s] \in AfterWait =>
      /\ stopChannel[s]
      /\ \A b \in Blocks : obs[s][b] \in InsideLoop => b \in late[s]
      /\ perf[s] \in InsidePerf => Perf \in late[s]

\* finish() has been called for whatever is, or has been, deregistered.
Signalled(s) == streamError[s] = "error" \/ clientFinished[s]

SignalledBeforeClose ==
  /\ \A s \in Streams :
       /\ finishing[s] > 0 => Signalled(s)
       /\ stopChannel[s] => Signalled(s) \/ closingAll
  /\ loop \in {"stop", "release"} => Signalled(target) \/ closingAll

IInv ==
  /\ TypeOK /\ WaitGroupExact /\ CloseOnce /\ NilMeansFinished
  /\ HandlerStages /\ RegistryStages /\ QuietAfterWait /\ SignalledBeforeClose

=============================================================================
