# Starcoder: a TLA+ verification project

Starcoder is a gRPC server that runs GNU Radio flowgraphs for its clients. A
client opens a bidirectional stream (`RunFlowgraph`), names a flowgraph, sends
commands to it and receives what its message sinks produce. The server is a Go
program with an embedded Python interpreter; the flowgraphs use C++ and Python
blocks of `gr-starcoder`. This directory holds TLA+ models of the parts whose
correctness depends on concurrency and on the order of events, TLC
configurations that check them, and TLAPS proofs of their main invariants.

## Inventory

| component | state it keeps | operations | what makes it correct |
|---|---|---|---|
| `cqueue/string_queue` | lock-free ring of strings, `closed_`, mutex, condition variable | `push`, `pop`, `blocking_pop`, `close`, `closed` | a bounded FIFO; no wake-up is lost; nobody blocks on a closed queue |
| stream server, `server/starcoder.go` | the registry's map of handlers, per handler a wait group, a stop channel, queues, the error and finished flags; `killAfterStream`; the compile cache | `RunFlowgraph`, `newStreamHandler`, `clientReceiveLoop`, `observableQueueLoop`, `performanceCounterCollectionLoop`, `finish`, `Close`, `closeAllStreams`, `Starcoder.Close` | a signalled handler ends; it is closed once; nothing is freed in use; all messages of a stopped flowgraph are delivered; results reported truthfully |
| signals, `cmd/serve.go` | none of its own | SIGHUP (`doRestart`), SIGINT/SIGTERM/SIGQUIT | the server closes all streams and stops |
| `enqueue_message_sink` | pointer to a registered queue | message handler | messages reach the queue in order |
| `command_source` | a queue, `finished_`, a thread | `start`, `stop`, `readloop` | commands are published once and in order; `stop` returns |
| PMT and protobuf conversion | none | two recursive conversions | round trips |
| AR2300 receiver | USB transfers in orbit, an event thread, `blocking_spsc_queue` | start, stop, transfer callbacks, read with time-out | stop returns; no callback after close; no gap in the data is read over |
| ground station API, `groundstation_api.py` | telemetry queue, stream thread, `stopped`, retry counter, one request generator per stream | start, stop, retry, request generator, message handler | a frame is sent at most once and in order, and exactly once if no stream breaks; stop returns |
| Doppler block, `groundstation_api_doppler.py` | the plan's coordinates, a thread, `stopped`, retry counter | start, stop, `processing_loop`, interpolation | corrections come at their times, none after a stop but one; stop returns |
| AX.25 codec | shift registers, frame buffer, decoder state | bit-wise decode, encode | decode inverts encode; buffer bounds |
| Golay decoder | none | syndrome decoding | corrects up to three errors |
| receiver evaluation (`gr-starcoder_utils`) | PRBS register and index, header counter, the files of a folder, the sink's counters | generate, number, frame, record, read, trim, verify, report | the report counts what was heard, whatever was lost, doubled or damaged |
| CW and Morse | symbol counters, tree position | work, message handler | every code decodes to its character |
| Meteor decoder | partial packets, frame counter, image rows | frame parsing, reassembly | packets across frames are reassembled, buffer bounds |
| NOAA APT, waterfall, `complex_to_msg` | sample buffers | work | signal processing |
| XML bindings of the documentation tools (`doxyxml/generated`) | 81 classes of objects with attributes, child fields and text | `build`, `export`, `exportLiteral` | what is read is what the document says; what is written can be read back |
| documentation generator (`swig_doc.py`, `doxyxml`) | lazily parsed members and caches | parse, look up, write | every documented item is written once |
| monitoring, sample client, protobuf API, flowgraph files, build files | – | – | interfaces and I/O |

How they interact. A gRPC goroutine runs `RunFlowgraph`: it starts the Python
flowgraph, creates one `string_queue` per observable block and hands its
address to the block's `enqueue_message_sink`; it takes the address of the
queue inside each `command_source`. `newStreamHandler` starts one goroutine
that receives client requests and pushes commands, one per observable queue
that pops and sends, and one that polls performance counters. The call then
sends its handler to the registry goroutine over a channel and waits on the
handler's wait group. Whoever sees an error or the end of the client's side
calls `finish`, whose goroutine sends the handler to the registry over a second
channel; the registry calls `Close`, which stops the flowgraph, closes the
queues and the stop channel and leaves the wait group. A signal makes another
goroutine ask the registry over a third channel to close all handlers; the
registry goroutine then ends.

Two blocks talk to a ground station on their own. `groundstation_api` puts what
it receives from the flowgraph on a queue; a thread opens a stream to the
station, gRPC pulls requests for it from a generator that reads the queue, and
the thread publishes the commands that come back, opening a new stream (with a
new generator on the same queue) when the old one fails.
`groundstation_api_doppler` lists a plan once and then publishes frequency
corrections at the times the plan gives. The receiver evaluation is two
flowgraphs run one after the other by hand, joined by a radio link and a folder
of files. The documentation tools run at build time.

The hard behaviours are the interleavings of these goroutines with each other,
with the flowgraph's threads and with signals; goroutines that outlive the
objects they use; a blocking pop against a close; partial failure of the start;
the restart of blocks and of the server; retries that leave parts of the failed
attempt running; time-outs and sleeps against a stop; and the arithmetic of
indices that wrap. `PROJECT.json` lists them one by
one at the line where they bite ("hazards"), with the properties that cover
them.

## Modules

| module | models | extends or instantiates |
|---|---|---|
| `QueueOps` | the ring buffer: push with a full buffer, pop of an empty one, the size limit; what it means that a queue holds the rest of what it accepted and that its consumer passed on the others | |
| `ClosableQueue` | what `string_queue` promises: every operation one atomic step | `QueueOps` |
| `StringQueue` | `string_queue.cc` at the level of lock, test, wait, unlock and notify | `QueueOps`, `ClosableQueue` |
| `CommandSource` | `command_source_impl.cc` on an atomic queue | `QueueOps` |
| `StreamServer` | `server/starcoder.go`, the signals of `cmd/serve.go`, `enqueue_message_sink_impl.cc`, on atomic queues | `QueueOps` |
| `Ar2300Receiver` | `driver.c`, `init.c`, `ar2300_receiver.cc`, `blocking_spsc_queue.cc` | |
| `TelemetryOutbox` | what `groundstation_api` promises: frames are delivered at most once and in order, or lost | |
| `GroundStationApi` | `groundstation_api.py`: generators, stream thread, retries, start and stop, against gRPC and a station | `TelemetryOutbox` |
| `DopplerSchedule` | `groundstation_api_doppler.py` against a clock | |
| `PrbsLink` | `prbs_generator.py`, `prbs_source_b.py`, `prbs_sink_pdu.py`, the PDU blocks between them, `folder_source_pdu_impl.cc`, `run_receiver_evaluation.py` | |
| `DoxySchema` | the classes of `compoundsuper.py`, `compound.py`, `indexsuper.py` as a table | |
| `DoxyBindings` | the methods those classes share | `DoxySchema` |
| `MC...` | model values and small sets for TLC | the module of the same name |
| `QueueOpsProofs` | lemmas about queues and what was taken from them | `QueueOps`, `TLAPS` |
| `StringQueueProofs`, `CommandSourceProofs`, `StreamServerProofs`, `Ar2300ReceiverProofs`, `GroundStationApiProofs`, `DopplerScheduleProofs`, `PrbsLinkProofs` | theorems | the module of the same name, `TLAPS`; `CommandSourceProofs` and `StreamServerProofs` also `QueueOpsProofs` |

`CommandSource` and `StreamServer` use a queue as one atomic step per
operation. That is what `StringQueue` justifies: it is shown to implement
`ClosableQueue`, by TLC with liveness and by TLAPS for its safety part.

### StringQueue

Three threads: a producer (`prod`), a closer (`closer`) and a consumer
(`cons`), with the mutex and the condition variable as state. `push` is lock,
insert and unlock, notify; the insert fails silently when the buffer is full
and then there is no notify. `blocking_pop` is call, lock, test, then wait
(which releases the mutex) or take. `pop` takes neither the mutex nor the
condition variable, as in the code. `notify_one` wakes the consumer only if it
waits at that moment; a spurious wake-up may happen whenever it waits. Strings
are abstract: the empty one is told apart because the pops return it for "no
item", strings in `Large` are over the limit of 10485760 bytes and come out as
the empty string.

### CommandSource

`start`, `stop` in its three steps (set `finished_`, close the queue, join) and
one reading thread per start, with its inner loop that ends at the empty
string and does not look at `finished_` before. The block can be started again
after a stop; the queue then is closed for good and `blocking_pop` no longer
blocks. Nothing bounds what the client sends: the histories `accepted` and
`published` are given up (`recorded`) with the command after the `MaxCommands`th,
and the block goes on without them.

### StreamServer

`rpc[s]` is where the call `s` is in `RunFlowgraph`: `recv`, `start` (compile
and start the instance), `queues` (register queues with the running flowgraph),
`register` (the send on `registerStreamHandler`), `registered` (about to call
`sh.Wait()`), `waiting` (blocked in it), `decref`, `delete`, `returned`, or
`rejected` when it returned early with an error. `client`, `obs` and `perf` are
the program counters of the handler's goroutines; `wg` is the counter of its wait
group, and `released` says that it reached zero while the call was blocked. That
releases the call once: it returns if the counter still is zero by the time it
runs, and panics if a late goroutine has joined in between (`WaitPanics`), which
ends the process. `finishing` counts the
goroutines `finish` started that still have to reach the registry; `loop`,
`target`, `todo` and `closingAll` say what the registry goroutine is doing.
Sends on unbuffered channels are rendezvous: `Register`, `Deregister`,
`CountFlowgraphs` and `CloseAllBegins` need the registry in its select. Three
calls need not return: `stream.Send`, when the client does not read (`Sending`),
the wait inside `stopFlowGraph` (`loop = "stop"`), and, since a flowgraph whose
stop failed goes on sending without bound, the drain of a queue that is filled
again and again. What such a flowgraph sends is not recorded: its histories are
given up when the stop has failed.

An access to something that has been freed (a deleted queue, a dropped
flowgraph instance, a finalized interpreter) is undefined behaviour. The thread
then goes to a state `undefined` (`decrefUndefined`, `startUndefined`) from
which it takes no more steps: nothing is claimed about it.

Abstractions: Python objects, request parameters and the compilation are a
success or a failure at the step where the code returns the error;
`killAfterStream` is set by the calls in `TcpStreams`; messages are model
values, with the empty string, strings over the limit and messages no response
can be built from told apart; the ten seconds of `time.Sleep` before `os.Exit`
and before the next count of `doRestart` are unbounded delays; performance
counters are only read, so a successful tick changes nothing.

### Ar2300Receiver

Three actors. `main` is the thread of the source block: it walks through
`start` (submit the isochronous transfers one by one, create the event thread,
send the start command in a bulk transfer), reads, and walks through `stop`
(send the stop command, cancel until `packets_in_orbit` is 0, end and join the
event thread, free). `evt` is the event thread, with `cur` the transfer whose
callback it runs; a callback writes the packets, one step each, and ends by
submitting the transfer again or counting it out, according to `iso_status`,
which `stop` may set between any two of these steps. libusb and the device,
which are external, complete what was submitted: well, in error, or cancelled.

A byte is the number of its arrival, so a gap in what `read` returns can be
seen. The error code is reduced to being set, which is all that `read` looks
at. Opening the device, firmware and buffers included, is part of `Start`; when
it fails there is no receiver. When a later step of `start` fails, `started` is
still false and the destructor frees nothing: `main` ends as `leaked`, and a
write to the destroyed queue takes the event thread to `undefined`. `pop` is
one step; its wait is left out since it evaluates the predicate again when the
time is up, and the model has no clock.

### GroundStationApi

`put` and `taken` count the frames put on and taken off the queue, so a frame is
the number of its arrival and the queue is `taken + 1 .. put`. `stream` is the
newest stream, `call[s]` the state of its RPC, `gen[s]` where its request
generator is in `generate_request`, `held[s]` the frame it has taken and not yet
handed over. gRPC runs every generator in a thread of its own, so the one of a
failed stream goes on until it tries to hand over its next request; `dropped`
records what it takes meanwhile. `wire` is what the newest stream has written
and the station has not read. `handler` is the stream thread: reading, and then
done, or opening the next stream. A `get` with a time-out that finds nothing is
a step (`GenTimeout`); the clock is left out. The station (external) reads,
sends responses with any number of commands, closes the stream when it likes;
the network may end a call at any time. What a request contains and how the
channel is secured are left out; that `setup_api_client` may raise, at the start
(`StartRaises`, after which there is no block) and in a retry (`RetryRaises`), is
not. Under Python 2 it always raises when there are a key and a certificate,
because of the mode of `open` (`groundstation_api.py:136`).

### DopplerSchedule

`now` is a clock in tenths of a second (`Second = 10`) that may not pass a
runnable thread except by `MaxDelay` ticks in total, which `delay` adds up: that
is the time for which the operating system does not run the thread. `pc` is
where `processing_loop` is, `wake` when its sleep ends. Shifts are integers
scaled by `SPEED_OF_LIGHT` and by `corrections_per_second`, so the interpolation
is exact where the code rounds.

### PrbsLink

A byte has `ByteBits` bits instead of 8; register, generator polynomial, seed,
slices and counters are the code's. Every block is a thread with a queue per
input port. The header is the code's `<u4`, four bytes whatever their width, and
`HeaderAssumption` says that the expected packets have numbers it can hold: the
sink keeps a counter of eight bytes per packet, so beyond 2^32 of them it would
need 32 GB before it read anything. The channel and the receiver record a frame as it is, or, within
`MaxFaults`, lose, double, damage or cut it; the decoder may leave a frame alone,
repair it, drop it or change its length. The operator ends either flowgraph at
any time; the messages then in queues are gone. The directory is read in any
order.

### DoxySchema and DoxyBindings

`generateDS.py` wrote a class per element type, with methods that differ only in
names. `DoxySchema` gives those names per class, as the methods of that class
have them (attributes and which are integers or required; the children that
`buildChildren` takes, those `exportChildren` writes; what becomes of text), and
`DoxyBindings` has each method once. A behaviour is one element of one class
read node by node, written, and read again. Text is a sequence of tokens that
tells apart what the methods treat differently: characters that must be
escaped, CDATA, nested elements. Child elements have text and no attributes, or
an element inside, which may have another inside, down to `MaxInside`: the
methods that call themselves on the objects in an object (`build`, `export`,
`hasContent_` by way of `exportLiteral`) are recursive operators. Not
modelled: indentation, and text outside ASCII, on which
`encode` raises. A row of the table stands for a whole class, and `PROJECT.json`
maps it to all lines of the class, but it translates the names in
`buildAttributes`, `buildChildren`, `exportAttributes`, `exportChildren`,
`hasContent_` and `exportLiteralChildren` only. The `get_`, `set_`, `add_` and
`insert_` methods and `exportLiteralAttributes` are not modelled, so those lines
are more than what is translated.
`gr-starcoder_utils` has identical copies of these files.

## Runs

| run | instance | shows |
|---|---|---|
| `StringQueue` | capacity 2, one ordinary string, the empty one, one over the limit | `TypeOK` (the buffer bound included), `NoLostWakeup`, and `AbstractSpec`: the queue implements `ClosableQueue` with its promise that a `blocking_pop` with something to return returns |
| `CommandSource` | capacity 2, any number of commands of which the first four accepted are recorded, two starts; an unparsable, an empty and an oversized command among five | `SingleConsumer`, `NothingLost`, `StopReturns`, `CommandsAreRead` |
| `StreamLoops` | one stream, one observable block with capacity 1 and two accepted messages of four kinds (any number once a stop has failed), performance counters on | `WaitGroupExact`, `FreedOnlyUnderLate`, `DrainComplete`, `SignalledHandlerEnds` |
| `StreamRegistry` | one stream, one SIGHUP, one termination signal | `CloseOnce`, `NilMeansFinished`, `EndedClosedAll`, `CloseEndsRegistry` |
| `Ar2300Receiver` | two transfers, queue of three bytes, packets of one or two bytes, six bytes in a receiver's life; receivers follow each other without bound | `TypeOK` (the count of transfers in orbit included), `FreedWhenQuiet`, `GapEndsReading`, `StopReturns` |
| `GroundStationApi` | one retry (two streams), three frames, two commands | `TypeOK` (the bound on retries included), `FramesAccounted`, `CleanStreamDeliversAll`, `OneFramePerStream`, `CommandsInOrder`, `OutboxSpec` (the refinement), `StopReturns`, `FramesArrive` |
| `DopplerSchedule` | three coordinates a second apart, two corrections a second, one retry, 3.5 s in ticks of 0.1 s, 0.2 s of delay | `Punctual`, `StopHeeded` (at most one correction after a stop, and the thread's end within 1.1 s), `ScheduleKept` (no correction out of order, none left out), `ShiftsInterpolate`, `StopReturns` |
| `PrbsLink` | bytes of 2 bits, packets of 3 bytes, sequence of 10 bits, 3 packets (or an endless source stopped after 4), one fault, with and without decoder | `PacketsMatchSequence`, `JudgedRightly` (only faults are blamed, only what was heard is counted), `ReportTruthful` (it adds up, and what was heard is in it), `EveryPacketSent` |
| `DoxyBindings` | all 81 classes, elements of up to two child nodes, with and without attributes; in the first of them up to two elements one inside the other | `BuildKeepsKnown`, `ExportFaithful`, `LiteralNeedsNoMixed` |
| `StreamFinishLost`, `StreamRestartHangs`, `GroundStationDrain` | the smallest instance that shows it | a disagreement between the code and its own words, below |

Bounds. The capacities are small because a queue tells apart only empty, partly
filled and full, and 2 has all three (in `StreamLoops` 1, which has no partly
filled queue, for the sake of liveness; `DrainComplete` is proved for every
capacity); a message that finds the queue full is
dropped without any step. The kinds of messages cover every branch of the
observable loop. Streams interact only through the registry, the flag
`killAfterStream` and the shutdown. Liveness with two streams is beyond five
minutes of TLC, so the runs have one; the safety properties of `StreamRegistry`
are proved for any number of streams. One SIGHUP and one termination signal give the two
concurrent calls of `Starcoder.Close`. Two starts of a command source are one
restart. Two transfers let one be in its callback while the other is flying or
comes back; a packet of two bytes against a queue of three can fit, fit in part
and not fit, and six bytes are enough to fill the queue, cut a packet, read and
write on behind the gap. One retry makes an abandoned generator and a live
one on the same queue; three frames let one be lost between two that are
delivered, and two commands have an order. With two retries, two frames and two
commands all properties hold too (779,013 states), in a time too close to five
minutes. A sequence of 10 bits and packets of 6 make packets wrap
at different places; one fault is enough since faults of different frames do not
meet (the counters are sums). Two child nodes are what order, repetition and
"the last one wins" need, and two elements below a child node make four levels of
objects, where a look at an object and its direct fields sees two. The proved theorems have no bounds.

The runs of `StreamServer`, `CommandSource`, `Ar2300Receiver`,
`GroundStationApi`, `DopplerSchedule` and `DoxyBindings` do not check for
deadlock: a block that was stopped and an element that was written have no next
step, a server with no client and no signal to come has nothing left to do, in the
bounded instances clients and messages run out, and a receiver whose start
failed is never used again. `SignalledHandlerEnds`,
`CloseEndsRegistry`, the `StopReturns`, `CommandsAreRead` and `FramesArrive` say
what may not stop. `StringQueue` is checked for deadlock (its producer can
always push), and so is `PrbsLink` (it stops only with its report).

Fairness. A goroutine or thread that can take its next step eventually does
(weak fairness), because the Go scheduler and the operating system are fair to
runnable threads. Where a goroutine waits in a `select` with several ready
cases, Go chooses at random, so a case that is ready again and again is taken
(strong fairness: registering, deregistering, the count and the close request
at the registry; the stop channel against the ticker in the performance loop).
A mutex that becomes free again and again is acquired in the end (strong
fairness of the consumer's lock). A client that half-closes has sent finitely
many commands before, so the receive loop gets to the end of file. libusb
completes what was submitted, since bulk transfers have a time-out and the
isochronous ones are cancelled in a loop, and it gets to every callback that is
due although others keep coming (strong fairness of each). A `get` with a
time-out times out, gRPC carries what is written to a stream that does not
fail, and a station answers the end of the client's side by ending the stream;
time passes, and `ListPlans` returns or fails. The evaluation's source is called
while there is room for its output.

Nothing is assumed of clients, neither that they read what is sent to them nor
that they stop sending; of flowgraphs, neither that they stop nor that they fall
silent; of signals, or of which way a step that may fail goes. Where the code
depends on them the properties say so, as alternatives that are named:
`StopReturns` of `CommandSource` holds unless the client goes on for ever
(`ClientGoesOn`) and the thread never finds its queue empty (`NeverRunsDry`);
`SignalledHandlerEnds` holds unless the stop of a flowgraph never returns
(`StopNeverReturns`), the client does not read (`NotRead`), or a flowgraph that
could not be stopped fills the queue for ever (`FedForEver`); `CloseEndsRegistry`
and the two violated claims about the server hold or fail with
`StopNeverReturns` set aside.

## Where the code and its words disagree

Each has a run that is expected to end in a violation, and a finding in
`PROJECT.json`.

- `StreamFinishLost`: a `finish` that reaches the registry before the handler
  is registered is ignored, and the stream then never ends (`starcoder.go:134`).
- `StreamRestartHangs`: a call that registers after the registry has ended
  blocks for ever, and the graceful stop with it (`serve.go:172`).
- `GroundStationDrain`: after a retry, the generator of the failed stream can take
  the frame the live one saw in `empty()`, which then blocks for ever in `get()`
  and never closes its stream (`groundstation_api.py:172`).

Other behaviour worth knowing is in the models without a run of its own:

- a client that goes on sending commands can keep the reading thread of a command
  source in its inner loop, which does not look at `finished_`
  (`command_source_impl.cc:64`): `stop()` then joins for ever, and with it wait the
  flowgraph's `wait`, the `Close` of the stream and the registry;
- a client that does not read keeps an observable loop in `stream.Send`
  (`starcoder.go:267`, `282`), and its `RunFlowgraph` in `sh.Wait()`, until its
  connection breaks;
- a flowgraph that could not be stopped goes on sending, and may keep the drain of
  its queues going for ever (`starcoder.go:277`);
- a goroutine that joins the wait group late, between the release of `sh.Wait()`
  and its return, makes it panic (`starcoder.go:255`, `WaitPanics`);
- the final drain of an observable queue stops at an empty string and leaves the
  messages behind it (`starcoder.go:276`; `DrainComplete` excludes it);
- the exit a TCP stream asks for comes when any stream ends (`starcoder.go:428`,
  `Exit`);
- a transfer that cannot be submitted again stays counted in `packets_in_orbit`,
  and the stop then waits for it for ever (`driver.c:116`; `StopReturns` of
  `Ar2300Receiver` excludes it);
- an error while queues are registered leaves the started flowgraph running
  (`starcoder.go:644`, `RegisterQueueFails`);
- when `start` of the AR2300 receiver fails after its first submission, `stop`
  does nothing, so the transfers and the event thread outlive the receiver
  (`ar2300_receiver.cc:108`, `DestroyFailed`);
- every failed stream of the ground station block may cost one frame that its
  abandoned generator takes (`groundstation_api.py:165`; `OneFramePerStream`
  bounds it), besides those that were on its wire, and the retries of `ListPlans` ignore a stop;
- coordinates that are not a second apart make the interpolated corrections
  overlap or leave gaps (`groundstation_api_doppler.py:193`; the properties of
  the schedule assume `OneSecondApart`);
- the XML bindings do not write back what they read for a compound's title, a
  missing required attribute, CDATA and what a paragraph holds besides text, and
  write text of mixed content unescaped (`ExportFaithful` says exactly when);
  `exportLiteral` raises for an object that holds mixed content at any depth, in
  fields that are written (`LiteralNeedsNoMixed`).

## Theorems

All proofs are checked by TLAPS, for every value of the constants that satisfies
the assumptions `QueueOps`, `CommandSource`, `StreamServer`, `Ar2300Receiver`,
`GroundStationApi`, `DopplerSchedule` and `PrbsLink` state about them
(`EmptyString` is a string, capacities and the lengths of packets, bytes and
sequences are positive, a second is a whole number of correction intervals;
`Streams`, `Blocks` and `Transfers` are finite, and the model values for "no
stream", "no transfer", "performance counter goroutine" and "handler" are
distinct from what they stand beside; the numbers of the packets the evaluator
expects fit the four bytes of a header).

`StringQueueProofs`. The inductive invariant `IInv` adds two facts to `TypeOK`
and `NoLostWakeup`: `MutexOwner` (who holds the mutex is who is between its lock
and its unlock) and `ActsOnTruth` (what the consumer concluded from the
predicate still holds when it acts on it). The step to sleep preserves
`NoLostWakeup` because of `ActsOnTruth`; push and close preserve `ActsOnTruth`
because they need the mutex. From it: `TypeCorrect`, `WakeupNotLost`,
`CloseUnblocks` and `ImplementsClosableQueue`, the refinement of the safety part
of `ClosableQueue` step by step.

`CommandSourceProofs`. `IInv` is `TypeOK` and `OneThread`: the threads of
earlier starts have ended, because `stop` joins before it returns and a start
follows a return, and those of later ones do not exist. From it: `OneConsumer`.
`LostInv` adds `HandIsCommand` (what a thread is about to parse is neither empty
nor too large, since those end its inner loop) and `NothingLost` itself, which
is then inductive as long as the histories are recorded; that only one thread can
have a command in hand is `OneThread` again. From it: `NothingIsLost`.

`QueueOpsProofs`. The lemmas both `NothingIsLost` and `DrainIsComplete` rest on.
`Taken` is how many of the accepted items have left a queue, `HoldsRest` says
that the queue holds the others, and `SelectedFrom(out, in, n, S)` that `out` is
the members of `S` among the first `n` items of `in`, in order, by a strictly
increasing choice of positions and not by `SelectSeq`, so that a push, a pop, a
delivery and a skip each preserve it by a lemma. `Settled` and `Holding` put
them together for a consumer with empty hands and for one that holds an item.

`StreamServerProofs`. The inductive invariant `IInv` adds to the properties
`HandlerStages` (a call without a handler has no goroutines, and a handler is
registered or closed only when its call has reached `sh.Wait()`),
`RegistryStages` (which handlers are closed at each point of the registry's
loop), `QuietAfterWait` (past `sh.Wait()` only late goroutines are inside) and
`SignalledBeforeClose` (`finish` was called for what is being closed, unless all
streams are). That the wait group is exact is an argument about cardinalities:
every step adds or removes at most one member and changes the counter by as much
(`WaitGroupStep`); the counter reaches zero only if nobody is left
(`NobodyLeft`), which is why what is freed after `sh.Wait()` is in nobody's
hands. From it: `ServerTypeCorrect`, `WaitGroupCounts`, `ClosedOnce`,
`NothingFreedInUse`, `SuccessIsFinish` and `NoHandlerLeftOpen`. `DrainComplete`
has an invariant of its own, `DrainInv`, one `LoopInv` per stream and block: a
loop that was not disturbed (`Clean`: it is not late, the connection is intact,
the stop of the flowgraph has not failed and no message was empty) has sent what left its queue (`Delivered`); it drains
only a closed queue; a queue is closed only after the stop of the flowgraph was
tried; and when such a loop is done and the flowgraph has stopped, the queue is
empty. A flowgraph that failed to stop may go on adding messages, which is why
the last part needs the stop. From it: `DrainIsComplete`.

`Ar2300ReceiverProofs`. `IInv` adds `OrbitCovers` (`packets_in_orbit` counts at
least what libusb or a callback holds, and with what is still to be submitted
never more than there are transfers), `CallbackOwns` (the transfer of a running
callback is in nobody else's hands), `BulkOwns`, `QuietStages` (nothing is out
from the end of the cancellation to the next start) and `NothingMissing` (until
an error is reported, the bytes read followed by the bytes queued are the bytes
received, but for the end of a packet just cut). A failed resubmission only
weakens the count to an upper bound, and an upper bound of zero is all that
freeing needs: hence `ReceiverFreesQuietly`. `GapIsTheEnd` holds because the
thread that cuts a packet reports it before it writes another one, and `read`
tests for the error before every `pop`. `ReceiverTypeCorrect` is the rest.

`GroundStationApiProofs`. `IInv` is `TypeOK`, `FramesAccounted` and four facts:
`StreamsInv` (every stream but the newest has failed, and streams not yet opened
are untouched), `GenInv` (what the place of a generator says of its frame, its
stream and the stop), `FramesInv` (a frame is in one place only, and what is on
the wire is in order and behind what was read) and `LossInv` (frames are
discarded only when a stream broke). That a stream that ended takes one frame at
most is in `GenInv`: a generator that discarded one is done. `FramesInv` needs
`StreamsInv`: only the newest stream has a wire, so a retry cannot put a frame
behind a later one. From it: `TypeCorrect`, `NoFrameForgotten`,
`CleanStreamComplete`, `EndedStreamTakesOne`, `DrainBlocks` (the blocking
`get()` of the drain finds its frame gone only after a retry) and
`ImplementsOutbox`, the refinement of `TelemetryOutbox` step by step, for any
number of retries, frames and commands. `CommandsInv` cuts the commands not yet
published at the borders of the responses in flight: they are consecutive slices
behind what was published, and reach to the last command sent unless their
stream failed. From it: `CommandOrder`.

`DopplerScheduleProofs`. `IInv` is a type invariant, `Punctual` and, conjunct by
conjunct, what the loop relies on: `OnTime` (while it waits for an entry the
entry's time has passed by no more than the delay, and no sleep goes beyond it),
`StopInTime` (a sleep begins at most 1.1 s before its end), `OneAfterStop`,
`FromPlan` (what was published belongs to an entry left behind) and
`InSchedule`. The nap of one second is safe because it is taken only when more
than 1.1 s are left. The interpolation is non-linear arithmetic with the divisor
`corrections_per_second`, done in lemmas: the entries are in order and an
interval apart, the entry at a coordinate's time is the coordinate, and one
between lies between. From it: `AlwaysPunctual`, `StopIsHeeded`, `KeepsSchedule`
and `ShiftsAreInterpolated`, for every plan and number of corrections a second.

`PrbsLinkProofs`. First what the recursive functions of the code's loops
compute. The provers have no induction over data, but the least element of a set
of natural numbers exists (`LeastNatural`, from `WFMin`), so a least
counterexample can be refuted: the recursion has a solution (`SequenceExists`,
`PackingExists`) or one is exhibited (the closed form `Cyclic`), every solution
is that one, and the `CHOOSE` behind the function is therefore determined. So
`generate_n_bits` and `bits_from`, the loops of the two generators, both give
the bits of the cyclic sequence (`GenerateIsCyclic`, `BitsFromIsCyclic`; one
round of either is `Round`), hence `SinkExpectsWhatIsSent`; `Byte` is injective
and unpacking packed bits gives them back (`UnpackPacked`). `GenInv` then says
that the generator stands where the packets sent end, that the header block has
numbered every packet that no longer waits for it, and what waits at each block;
`work` preserves it because its packets are the next ones of the cyclic
sequence, however many they are (`PacketsSent`). From it:
`PacketsCarrySequence`.

The evaluator's half of the module is about what arrives. What the blocks do to
bits and bytes can be undone: every value below `Radix` is packed by some bits
(`EveryByte`, by the same least-counterexample argument), so the header block's
bytes survive unpacking and packing (`PackedUnpacked`), four of them give the
number back (`HeaderRead`), and an intact packet is judged to be the one that was
sent (`IntactIsNumbered`). Conversely packing is injective on whole bytes
(`PackInjective`), so what is judged to be packet `i` carries its payload
(`NumberedHasPayload`), and frames of different expected packets differ
(`FrameInjective`). On this rests the inductive invariant `EvalInv`, which keeps
books in two directions, because the properties say nothing of messages that are
still in a queue:

- `CreditInv`, from the counters back to the files: for each verdict (erroneous;
  packet `i`; any), what was counted, and what waits at the sink and would be
  counted so, and what waits at the decoder and could still become so, is
  together no more than the files read that may yield that verdict (`Fits`: as
  recorded, as repaired, or as cut by the decoder). Counted and waiting packets of
  the wrong length are no more than the faults, and `correct` is first copies and
  duplicates (`OneMoreCollected`, about the recursive sum in
  `evaluate_statistics`). The counters alone are not inductive: handling a
  message moves a unit from a queue to a counter (`CountTail`), reading a file
  creates one (`CountAppend`).
- `LostInv`, from the files forward: an expected packet of which there is a file
  has been counted, or waits at the sink, or an intact file of it is unread or
  waits at the decoder, except for as many packets as there were faults. A fault takes at most one packet, since a frame is that of
  one packet (`LostBound`, from `FrameInjective`).

`EvalTypes` adds that a message at the decoder is the trimmed recording of a file
that was read, that nothing is counted before the evaluator starts (`Idle`) and
that the report is the one of the final counters. From it: `JudgesRightly` and
`ReportsTruly`. TLC has checked `GenInv`, `EvalInv` and `DrainInv` on small
instances too, before they were proved.

Only model-checked: everything about liveness (`AbstractSpec`'s fairness, the
`StopReturns` of `CommandSource`, `Ar2300Receiver`, `GroundStationApi` and
`DopplerSchedule`, `CommandsAreRead`, `SignalledHandlerEnds`,
`CloseEndsRegistry`, `FramesArrive`, `EveryPacketSent`), which is out of the
prover's reach. The invariants of `DoxyBindings` (`BuildKeepsKnown`,
`ExportFaithful`, `LiteralNeedsNoMixed`), which are about what `SelectSeq`,
`FlattenSeq` and folds compute on the children of an element, that is, about
induction over data, for 81 given classes. Every other invariant and action
property of the runs is proved.


## Not modelled, and the plan

Done: the queue, the command source, the stream server and its signals, the
AR2300 receiver, both ground station blocks, the receiver evaluation and the XML
bindings. Left, in order of what they would add:

1. Proofs: `BuildKeepsKnown` of `DoxyBindings` in a form without folds.
2. `MeteorPacket`: reassembly of packets over frames, against the
   concatenation of the frames' payloads.
3. `Ax25`: encoder and decoder as machines over bits, composed; reference: the
   decoder returns the frame the encoder was given.
4. `Ar2300Samples`: the alignment of samples in `encode_ar2300` over reads of
   any length, against the decoding of the aligned byte stream.
5. `Golay` and `Morse` as operators against reference definitions over bounded
   inputs; the compile cache; the PMT conversion; the caches of the documentation
   generator.

Not planned: the Viterbi, Reed-Solomon and DCT arithmetic of the Meteor
decoder, the signal processing of the NOAA sink and the waterfall plots
(floating point, out of reach of a model checker); the sample client, the
metrics exporter, the protobuf definitions, flowgraph files, firmware data and
build files (no logic of the system).
