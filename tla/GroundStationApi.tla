--------------------------- MODULE GroundStationApi ---------------------------
(***************************************************************************)
(* The groundstation_api block (gr-starcoder/python/groundstation_api.py). *)
(*                                                                         *)
(* Four kinds of threads take part:                                        *)
(*   - the block's own thread runs start(), the message handlers (which    *)
(*     put frames on the queue) and stop();                                *)
(*   - the stream thread runs handle_stream(), which opens a stream,       *)
(*     publishes the commands it receives and opens another stream when    *)
(*     one fails;                                                          *)
(*   - for every stream, a thread of the gRPC library runs the generator   *)
(*     generate_request() and writes what it yields;                       *)
(*   - the ground station reads frames, sends commands and ends streams.   *)
(*                                                                         *)
(* A frame is the number of its put.  Queue is a FIFO, so the queue holds  *)
(* the frames taken+1..put: two counters stand for it.  gRPC's thread      *)
(* learns that a stream has ended only when the generator yields the next  *)
(* request, which it then discards.                                        *)
(***************************************************************************)
EXTENDS Integers, Sequences, FiniteSets

CONSTANTS
    MAX_RETRY_ATTEMPTS,  \* streams opened after the first one
    MaxFrames,           \* bound: frames the flowgraph hands over
    MaxCommands,         \* bound: commands the ground station sends
    HasKey, HasCert      \* whether api_key and root_cert_path are given

ASSUME GroundStationAssumption ==
    /\ MAX_RETRY_ATTEMPTS \in Nat
    /\ MaxFrames \in Nat
    /\ MaxCommands \in Nat
    /\ HasKey \in BOOLEAN
    /\ HasCert \in BOOLEAN

VARIABLES
    block,      \* the block's thread: "new", "running", "joining", "stopped", or
                \* "raised" when start() raised
    stopped,    \* self.stopped
    put, taken, \* frames put on self.queue and taken off it
    client,     \* the channel of self.api_client: "none", "insecure", "secure"
    handler,    \* the stream thread: "none", "reading", "done", or "raised"
                \* when an exception other than an RPC error ended it
    retries,    \* local of handle_stream
    stream,     \* number of the newest stream, 0 when none was opened
    call,       \* state of every stream's RPC
    gen,        \* where every stream's generator is
    held,       \* the frame a generator has taken and not handed over, or 0
    wire,       \* frames written to the newest stream and not read yet
    newest,     \* newest frame the ground station has read, 0 when none
    received,   \* the frames the ground station has read
    lost,       \* frames discarded, with a stream or by a stream's thread
    dropped,    \* <<stream, frame>>: discarded by the thread of the stream
    responses,  \* responses in flight: each a sequence of commands
    commands,   \* commands the ground station has sent
    published   \* commands published on the "command" port

vars == <<block, stopped, put, taken, client, handler, retries, stream, call,
          gen, held, wire, newest, received, lost, dropped, responses,
          commands, published>>

blockVars == <<block, stopped, put>>
threadVars == <<client, handler, retries, stream>>
genVars == <<gen, held, taken>>
netVars == <<newest, received>>
cmdVars == <<responses, commands, published>>

Streams == 1..(MAX_RETRY_ATTEMPTS + 1)
Frames == 1..MaxFrames
Live == {"live", "half"}          \* the RPC has not ended
Ended == {"ok", "closed", "failed"}
Range(s) == {s[i] : i \in 1..Len(s)}
Prefix(s, n) == SubSeq(s, 1, n)

TypeOK ==
    /\ block \in {"new", "raised", "running", "joining", "stopped"}
    /\ stopped \in BOOLEAN
    /\ put \in 0..MaxFrames
    /\ taken \in 0..put
    /\ client \in {"none", "insecure", "secure"}
    /\ handler \in {"none", "reading", "done", "raised"}
    /\ retries \in 0..MAX_RETRY_ATTEMPTS
    /\ stream \in 0..(MAX_RETRY_ATTEMPTS + 1)
    /\ call \in [Streams -> {"none"} \cup Live \cup Ended]
    /\ gen \in [Streams -> {"none", "first", "test", "get", "yield",
                             "testempty", "drain", "drainyield", "done"}]
    /\ held \in [Streams -> 0..MaxFrames]
    /\ wire \in Seq(Frames)
    /\ newest \in 0..MaxFrames
    /\ received \in SUBSET Frames
    /\ lost \in SUBSET Frames
    /\ dropped \in SUBSET (Streams \X Frames)
    /\ responses \in Seq(Seq(1..MaxCommands))
    /\ commands \in 0..MaxCommands
    /\ published \in Seq(1..MaxCommands)

Init ==
    /\ block = "new"
    /\ stopped = FALSE
    /\ put = 0
    /\ taken = 0
    /\ client = "none"
    /\ handler = "none"
    /\ retries = 0
    /\ stream = 0
    /\ call = [s \in Streams |-> "none"]
    /\ gen = [s \in Streams |-> "none"]
    /\ held = [s \in Streams |-> 0]
    /\ wire = <<>>
    /\ newest = 0
    /\ received = {}
    /\ lost = {}
    /\ dropped = {}
    /\ responses = <<>>
    /\ commands = 0
    /\ published = <<>>

-----------------------------------------------------------------------------
(* The block's thread.  GNU Radio calls start(), then the message handlers *)
(* as messages arrive, then stop(), all in the thread of the block.        *)

\* Without both a key and a certificate the channel is not encrypted.
setup_api_client == IF HasKey /\ HasCert THEN "secure" ELSE "insecure"

\* OpenGroundStationStream(self.generate_request()): a new RPC and, in a new
\* thread of the library, a new generator.
OpenStream ==
    /\ client' = setup_api_client
    /\ stream' = stream + 1
    /\ call' = [call EXCEPT ![stream + 1] = "live"]
    /\ gen' = [gen EXCEPT ![stream + 1] = "first"]

start ==
    /\ block = "new"
    /\ block' = "running"
    /\ handler' = "reading"
    /\ OpenStream
    /\ UNCHANGED <<stopped, put, taken, retries, held, wire, newest, received,
                   lost, dropped, responses, commands, published>>

\* setup_api_client() raises in start(): a file of the credentials cannot be read
\* (nor the certificate by Python 2, which knows no mode 'br').  The exception
\* ends the thread of the block before it takes messages.
StartRaises ==
    /\ block = "new"
    /\ HasKey /\ HasCert
    /\ block' = "raised"
    /\ UNCHANGED <<stopped, put, threadVars, call, genVars, wire, netVars, lost,
                   dropped, cmdVars>>

\* The handler of the ports bitstream, ax25 and iq.  The queue is unbounded.
msg_handler ==
    /\ block = "running"
    /\ put < MaxFrames
    /\ put' = put + 1
    /\ UNCHANGED <<block, stopped, taken, threadVars, call, gen, held, wire,
                   netVars, lost, dropped, cmdVars>>

\* Mutant of stop: the flag is not set.
StopForgets ==
    /\ block = "running"
    /\ block' = "joining"
    /\ UNCHANGED <<stopped, put, taken, threadVars, call, gen, held, wire,
                   netVars, lost, dropped, cmdVars>>

stop ==
    /\ block = "running"
    /\ stopped' = TRUE
    /\ block' = "joining"
    /\ UNCHANGED <<put, taken, threadVars, call, gen, held, wire, netVars,
                   lost, dropped, cmdVars>>

\* stream_thread.join() returns.
StopReturned ==
    /\ block = "joining"
    /\ handler \in {"done", "raised"}
    /\ block' = "stopped"
    /\ UNCHANGED <<stopped, put, taken, threadVars, call, gen, held, wire,
                   netVars, lost, dropped, cmdVars>>

-----------------------------------------------------------------------------
(* generate_request(), run by the gRPC thread of stream s.                 *)

GenMoves(s, from, to) ==
    /\ gen[s] = from
    /\ gen' = [gen EXCEPT ![s] = to]
    /\ UNCHANGED <<blockVars, threadVars, netVars, cmdVars>>

\* The first request, which activates the stream; the thread ends instead
\* when the RPC has ended.
GenFirst(s) ==
    /\ GenMoves(s, "first", IF call[s] \in Live THEN "test" ELSE "done")
    /\ UNCHANGED <<call, held, taken, wire, lost, dropped>>

\* while not self.get_stopped()
GenTestStopped(s) ==
    /\ GenMoves(s, "test", IF stopped THEN "testempty" ELSE "get")
    /\ UNCHANGED <<call, held, taken, wire, lost, dropped>>

\* Mutant of GenTimeout: an empty queue ends the generator.
TimeoutEnds(s) ==
    /\ taken = put
    /\ GenMoves(s, "get", "done")
    /\ call' = IF call[s] = "live" THEN [call EXCEPT ![s] = "half"] ELSE call
    /\ UNCHANGED <<held, taken, wire, lost, dropped>>

\* self.queue.get(timeout=1) raises Empty.
GenTimeout(s) ==
    /\ taken = put
    /\ GenMoves(s, "get", "test")
    /\ UNCHANGED <<call, held, taken, wire, lost, dropped>>

\* get returns a frame: in the loop, or in the drain after stop, where it
\* has no timeout.
Take(s, from, to) ==
    /\ taken < put
    /\ GenMoves(s, from, to)
    /\ taken' = taken + 1
    /\ held' = [held EXCEPT ![s] = taken + 1]
    /\ UNCHANGED <<call, wire, lost, dropped>>

GenGet(s) == Take(s, "get", "yield")
GenDrainGet(s) == Take(s, "drain", "drainyield")

\* Mutant of HandOver: the thread goes on after a request it cannot write.
HandOverGoesOn(s, from, to) ==
    /\ held' = [held EXCEPT ![s] = 0]
    /\ GenMoves(s, from, to)
    /\ IF call[s] \in Live
          THEN wire' = Append(wire, held[s]) /\ UNCHANGED <<lost, dropped>>
          ELSE /\ lost' = lost \cup {held[s]}
               /\ dropped' = dropped \cup {<<s, held[s]>>}
               /\ UNCHANGED wire
    /\ UNCHANGED <<call, taken>>

\* The library's thread gets the yielded request: it writes it, or finds the
\* RPC ended, discards it and ends.
HandOver(s, from, to) ==
    /\ held' = [held EXCEPT ![s] = 0]
    /\ \/ /\ call[s] \in Live
          /\ GenMoves(s, from, to)
          /\ wire' = Append(wire, held[s])
          /\ UNCHANGED <<lost, dropped>>
       \/ /\ call[s] \notin Live
          /\ GenMoves(s, from, "done")
          /\ lost' = lost \cup {held[s]}
          /\ dropped' = dropped \cup {<<s, held[s]>>}
          /\ UNCHANGED wire
    /\ UNCHANGED <<call, taken>>

\* Mutant of GenYield: a frame taken before stop() is not yielded after it.
YieldUnlessStopped(s) ==
    IF stopped
      THEN /\ GenMoves(s, "yield", "testempty")
           /\ held' = [held EXCEPT ![s] = 0]
           /\ UNCHANGED <<call, taken, wire, lost, dropped>>
      ELSE HandOver(s, "yield", "test")

GenYield(s) == HandOver(s, "yield", "test")
GenDrainYield(s) == HandOver(s, "drainyield", "testempty")

\* Mutants of GenTestEmpty: nothing is drained; the test is left out.
EndWithoutDrain(s) ==
    /\ GenMoves(s, "testempty", "done")
    /\ call' = IF call[s] = "live" THEN [call EXCEPT ![s] = "half"] ELSE call
    /\ UNCHANGED <<held, taken, wire, lost, dropped>>

\* while not self.queue.empty(); the end of the generator closes the
\* client's side of the stream.
GenTestEmpty(s) ==
    /\ GenMoves(s, "testempty", IF taken = put THEN "done" ELSE "drain")
    /\ call' = IF taken = put /\ call[s] = "live"
                  THEN [call EXCEPT ![s] = "half"]
                  ELSE call
    /\ UNCHANGED <<held, taken, wire, lost, dropped>>

GenStep(s) ==
    \/ GenFirst(s)
    \/ GenTestStopped(s)
    \/ GenTimeout(s)
    \/ GenGet(s)
    \/ GenYield(s)
    \/ GenTestEmpty(s)
    \/ GenDrainGet(s)
    \/ GenDrainYield(s)

-----------------------------------------------------------------------------
(* The network and the ground station.                                     *)

\* The newest stream's RPC ends in the given state: what was written and not
\* read is lost with it.
EndCall(state) ==
    /\ call' = [call EXCEPT ![stream] = state]
    /\ lost' = lost \cup Range(wire)
    /\ wire' = <<>>

StationReads ==
    /\ stream > 0
    /\ call[stream] \in Live
    /\ wire # <<>>
    /\ received' = received \cup {Head(wire)}
    /\ newest' = Head(wire)
    /\ wire' = Tail(wire)
    /\ UNCHANGED <<blockVars, threadVars, genVars, call, lost, dropped, cmdVars>>

\* A response with n commands; with none it is one without satellite_commands.
StationSends(n) ==
    /\ stream > 0
    /\ call[stream] \in Live
    /\ gen[stream] # "first"
    /\ commands + n <= MaxCommands
    /\ Len(responses) < MaxCommands
    /\ responses' = Append(responses, [i \in 1..n |-> commands + i])
    /\ commands' = commands + n
    /\ UNCHANGED <<blockVars, threadVars, genVars, call, wire, netVars, lost,
                   dropped, published>>

\* The station ends the stream with status OK: in answer to the client's end
\* of a stream it has read to the last frame, or earlier.
StationCloses ==
    /\ stream > 0
    /\ call[stream] \in Live
    /\ EndCall(IF call[stream] = "half" /\ wire = <<>> THEN "ok" ELSE "closed")
    /\ UNCHANGED <<blockVars, threadVars, genVars, netVars, dropped, cmdVars>>

\* The RPC fails; the last responses in flight are lost with it.
CallFails ==
    /\ stream > 0
    /\ call[stream] \in Live
    /\ EndCall("failed")
    /\ \E n \in 0..Len(responses) : responses' = Prefix(responses, n)
    /\ UNCHANGED <<blockVars, threadVars, genVars, netVars, dropped, commands,
                   published>>

-----------------------------------------------------------------------------
(* handle_stream(), in the stream thread.                                  *)

Reading == handler = "reading" /\ stream > 0

\* One iteration of the loop over the responses.
PublishCommands ==
    /\ Reading
    /\ responses # <<>>
    /\ published' = published \o Head(responses)
    /\ responses' = Tail(responses)
    /\ UNCHANGED <<blockVars, threadVars, genVars, call, wire, netVars, lost,
                   dropped, commands>>

\* Mutant of StreamEnds: the loop ends with responses unread.
StreamEndsEarly ==
    /\ Reading
    /\ call[stream] \in {"ok", "closed"}
    /\ handler' = "done"
    /\ UNCHANGED <<blockVars, client, retries, stream, genVars, call, wire,
                   netVars, lost, dropped, cmdVars>>

\* The loop over the responses ends with the stream.
StreamEnds ==
    /\ Reading
    /\ responses = <<>>
    /\ call[stream] \in {"ok", "closed"}
    /\ handler' = "done"
    /\ UNCHANGED <<blockVars, client, retries, stream, genVars, call, wire,
                   netVars, lost, dropped, cmdVars>>

\* except grpc.RpcError: give up after stop or the last attempt.
GiveUp ==
    /\ Reading
    /\ responses = <<>>
    /\ call[stream] = "failed"
    /\ retries >= MAX_RETRY_ATTEMPTS \/ stopped
    /\ handler' = "done"
    /\ UNCHANGED <<blockVars, client, retries, stream, genVars, call, wire,
                   netVars, lost, dropped, cmdVars>>

\* Mutants of Retry: without a limit; sending again what the failed stream's
\* thread still holds.
RetryForever ==
    /\ Reading
    /\ responses = <<>>
    /\ call[stream] = "failed"
    /\ ~stopped
    /\ retries' = retries + 1
    /\ OpenStream
    /\ UNCHANGED <<blockVars, handler, held, taken, wire, netVars, lost,
                   dropped, cmdVars>>

RetryResends ==
    /\ Reading
    /\ responses = <<>>
    /\ call[stream] = "failed"
    /\ ~(retries >= MAX_RETRY_ATTEMPTS \/ stopped)
    /\ retries' = retries + 1
    /\ OpenStream
    /\ wire' = IF held[stream] = 0 THEN wire ELSE Append(wire, held[stream])
    /\ UNCHANGED <<blockVars, handler, held, taken, netVars, lost, dropped,
                   cmdVars>>

\* except grpc.RpcError: otherwise open another stream.  The generator of the
\* failed one is left where it is.
Retry ==
    /\ Reading
    /\ responses = <<>>
    /\ call[stream] = "failed"
    /\ ~(retries >= MAX_RETRY_ATTEMPTS \/ stopped)
    /\ retries' = retries + 1
    /\ OpenStream
    /\ UNCHANGED <<blockVars, handler, held, taken, wire, netVars, lost,
                   dropped, cmdVars>>

\* setup_api_client() raises inside the except clause (a file of the
\* credentials cannot be read any more), which ends the thread.
RetryRaises ==
    /\ Reading
    /\ responses = <<>>
    /\ call[stream] = "failed"
    /\ ~(retries >= MAX_RETRY_ATTEMPTS \/ stopped)
    /\ HasKey /\ HasCert
    /\ retries' = retries + 1
    /\ handler' = "raised"
    /\ UNCHANGED <<blockVars, client, stream, genVars, call, wire, netVars,
                   lost, dropped, cmdVars>>

\* Any other exception while a response is handled ends the thread; the
\* abandoned RPC is cancelled.
HandlerRaises ==
    /\ Reading
    /\ responses # <<>>
    /\ \E n \in 0..Len(Head(responses)) :
          published' = published \o Prefix(Head(responses), n)
    /\ handler' = "raised"
    /\ responses' = <<>>
    /\ IF call[stream] \in Live
          THEN EndCall("failed")
          ELSE UNCHANGED <<call, wire, lost>>
    /\ UNCHANGED <<blockVars, client, retries, stream, genVars, netVars,
                   dropped, commands>>

HandlerStep ==
    \/ PublishCommands
    \/ StreamEnds
    \/ GiveUp
    \/ Retry

-----------------------------------------------------------------------------
Next ==
    \/ start
    \/ StartRaises
    \/ msg_handler
    \/ stop
    \/ StopReturned
    \/ \E s \in Streams : GenStep(s)
    \/ StationReads
    \/ \E n \in 0..MaxCommands : StationSends(n)
    \/ StationCloses
    \/ CallFails
    \/ HandlerStep
    \/ RetryRaises
    \/ HandlerRaises

Spec == Init /\ [][Next]_vars

\* The threads run: Python schedules every thread that can run, a get with a
\* timeout times out, the network carries what is written to a stream that
\* does not fail, and the station answers the client's end of a stream by
\* ending the stream.  Nothing is assumed of the flowgraph (frames, stop) or
\* of failures.
FairSpec ==
    /\ Spec
    /\ \A s \in Streams : WF_vars(GenStep(s))
    /\ WF_vars(HandlerStep)
    /\ WF_vars(StopReturned)
    /\ WF_vars(StationReads)
    /\ WF_vars(StationCloses /\ call[stream] = "half" /\ wire = <<>>)

-----------------------------------------------------------------------------
\* A stream broke: an RPC failed, or the station ended it while the client
\* still had frames to send or had not ended its side.
Broken == \E s \in Streams : call[s] \in {"failed", "closed"}

\* Every frame taken off the queue is held by the thread of one stream, is
\* on the wire, has been read by the station or has been discarded: no path
\* through generate_request and handle_stream forgets one.
FramesAccounted ==
    1..taken = received \cup lost \cup Range(wire)
                 \cup {held[s] : s \in {q \in Streams : held[q] # 0}}

\* When no stream broke, the stream thread ends only after the station has
\* read every frame the flowgraph handed over, the ones still queued at
\* stop() included (the drain of generate_request).
CleanStreamDeliversAll ==
    handler = "done" /\ ~Broken => received = 1..put /\ lost = {}

\* The generator left behind by a stream that ended takes at most one more
\* frame: its thread ends with the first request it cannot write.
OneFramePerStream ==
    \A s \in Streams : \A i, j \in Frames :
        <<s, i>> \in dropped /\ <<s, j>> \in dropped => i = j

\* The blocking get of the drain, made after a test of empty(), finds the
\* queue empty only if another generator was reading it, that is, only after
\* a retry.
DrainBlocksOnlyAfterRetry ==
    \A s \in Streams : gen[s] = "drain" /\ taken = put => stream > 1

\* Commands are published in the order in which the station sent them, none
\* twice, and all of them unless a stream broke or an exception ended the
\* thread.
CommandsInOrder ==
    /\ \A i, j \in 1..Len(published) : i < j => published[i] < published[j]
    /\ handler = "done" /\ ~Broken => Len(published) = commands

Outbox == INSTANCE TelemetryOutbox
    WITH accepted <- put, delivered <- received

\* The block implements the telemetry outbox: across retries no frame is
\* delivered twice or behind a later one, and none is delivered after it was
\* discarded.
OutboxSpec == Outbox!Spec

\* stop() returns, unless there was a retry and the generator of the newest
\* stream waits for a frame that another generator took.
StopReturns ==
    (block = "joining") ~>
        \/ block = "stopped"
        \/ stream > 1 /\ gen[stream] = "drain" /\ taken = put

\* Every frame reaches the station unless a stream breaks.
FramesArrive ==
    \A i \in Frames : (put >= i) ~> (i \in received \/ Broken)

\* The comment on generate_request: the generator stops and closes the stream
\* once stop() has been called.
StopClosesStream ==
    \A s \in Streams : (stopped /\ call[s] = "live") ~> (call[s] # "live")
=============================================================================
