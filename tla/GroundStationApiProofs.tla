------------------------ MODULE GroundStationApiProofs ------------------------
(***************************************************************************)
(* Proofs about GroundStationApi: types, where every frame is, what a      *)
(* stream that does not break delivers, what a broken one costs, and that  *)
(* the block implements TelemetryOutbox.                                   *)
(***************************************************************************)
EXTENDS GroundStationApi, TLAPS

Increasing(s) == \A i, j \in 1..Len(s) : i < j => s[i] < s[j]

\* The stream thread and the streams it has opened: all but the newest have
\* failed, and the ones it has not opened are untouched.
StreamsInv ==
    /\ stopped <=> block \in {"joining", "stopped"}
    /\ block \in {"new", "raised"} => stream = 0
    /\ handler = "none" <=> block \in {"new", "raised"}
    /\ block \notin {"new", "raised"} => stream > 0
    /\ stream <= retries + 1
    /\ \A s \in Streams : s > stream => gen[s] = "none" /\ call[s] = "none"
    /\ \A s \in Streams : s <= stream => gen[s] # "none" /\ call[s] # "none"
    /\ \A s \in Streams : s < stream => call[s] = "failed"
    /\ handler = "done" => call[stream] \in Ended

\* Where a generator is, and what that says of the queue and of its stream.
GenInv ==
    /\ \A s \in Streams : held[s] # 0 <=> gen[s] \in {"yield", "drainyield"}
    /\ \A s \in Streams :
          gen[s] \in {"testempty", "drain", "drainyield"} => stopped
    /\ \A s \in Streams :
          call[s] \in {"half", "ok"} => stopped /\ gen[s] = "done" /\ taken = put
    /\ \A s \in Streams : gen[s] = "drain" /\ stream = 1 => taken < put
    /\ \A s \in Streams : \A i \in Frames :
          <<s, i>> \in dropped => gen[s] = "done"

\* The places of frames are disjoint, and frames keep their order.
FramesInv ==
    /\ \A s \in Streams : held[s] <= taken
    /\ \A s \in Streams : held[s] # 0 => held[s] \notin received \cup lost \cup Range(wire)
    /\ \A s, t \in Streams : held[s] = held[t] /\ held[s] # 0 => s = t
    /\ received \cap lost = {}
    /\ \A i \in Range(wire) : i > newest /\ i <= taken /\ i \notin lost
    /\ \A i \in received : i <= newest
    /\ \A i \in lost : i <= taken
    /\ newest <= taken
    /\ Increasing(wire)
    /\ \A s \in Streams : s = stream /\ held[s] # 0 /\ call[s] \in Live =>
          held[s] > newest /\ \A i \in Range(wire) : i < held[s]
    /\ wire # <<>> => stream > 0 /\ call[stream] \in Live

\* Frames are discarded only when a stream broke.
LossInv == lost # {} => Broken

IInv == TypeOK /\ StreamsInv /\ GenInv /\ FramesInv /\ FramesAccounted /\ LossInv

-----------------------------------------------------------------------------
(* Sequences.                                                              *)

\* What Append does to the elements of a sequence.
LEMMA RangeAppend ==
    ASSUME NEW S, NEW s \in Seq(S), NEW x \in S
    PROVE  Range(Append(s, x)) = Range(s) \cup {x}
<1>1. Append(s, x) \in Seq(S) /\ Len(Append(s, x)) = Len(s) + 1
  OBVIOUS
<1>2. \A i \in 1..Len(s) : Append(s, x)[i] = s[i]
  OBVIOUS
<1>3. Append(s, x)[Len(s) + 1] = x
  OBVIOUS
<1>4. Len(s) \in Nat
  OBVIOUS
<1> QED BY <1>1, <1>2, <1>3, <1>4 DEF Range

\* The head and the elements of the tail of an increasing sequence.
LEMMA RangeTail ==
    ASSUME NEW s \in Seq(Nat), s # <<>>
    PROVE  /\ Range(s) = {Head(s)} \cup Range(Tail(s))
           /\ Increasing(s) => /\ Increasing(Tail(s))
                               /\ \A i \in Range(Tail(s)) : Head(s) < i
<1>1. Tail(s) \in Seq(Nat) /\ Len(Tail(s)) = Len(s) - 1 /\ Len(s) \in Nat /\ Len(s) > 0
  OBVIOUS
<1>2. \A i \in 1..Len(Tail(s)) : Tail(s)[i] = s[i + 1]
  OBVIOUS
<1>3. Head(s) = s[1]
  OBVIOUS
<1>4. \A i \in 2..Len(s) : i - 1 \in 1..Len(Tail(s)) /\ s[i] = Tail(s)[i - 1]
  <2> SUFFICES ASSUME NEW i \in 2..Len(s)
               PROVE  i - 1 \in 1..Len(Tail(s)) /\ s[i] = Tail(s)[i - 1]
    OBVIOUS
  <2>1. i - 1 \in 1..Len(Tail(s))
    BY <1>1
  <2>2. Tail(s)[i - 1] = s[(i - 1) + 1]
    BY <1>2, <2>1
  <2>3. (i - 1) + 1 = i
    BY <1>1
  <2> QED BY <2>1, <2>2, <2>3
<1>5. Range(s) = {Head(s)} \cup Range(Tail(s))
  <2>1. ASSUME NEW x \in Range(s) PROVE x \in {Head(s)} \cup Range(Tail(s))
    <3>1. PICK i \in 1..Len(s) : x = s[i]
      BY DEF Range
    <3>2. CASE i = 1
      BY <3>1, <3>2, <1>3
    <3>3. CASE i # 1
      <4>1. i \in 2..Len(s)
        BY <3>3, <1>1
      <4> QED BY <4>1, <3>1, <1>4 DEF Range
    <3> QED BY <3>2, <3>3
  <2>2. Head(s) \in Range(s)
    BY <1>1, <1>3 DEF Range
  <2>3. ASSUME NEW x \in Range(Tail(s)) PROVE x \in Range(s)
    <3>1. PICK i \in 1..Len(Tail(s)) : x = Tail(s)[i]
      BY DEF Range
    <3>2. i + 1 \in 1..Len(s)
      BY <1>1
    <3> QED BY <3>1, <3>2, <1>2 DEF Range
  <2> QED BY <2>1, <2>2, <2>3
<1>6. ASSUME Increasing(s)
      PROVE  Increasing(Tail(s)) /\ \A i \in Range(Tail(s)) : Head(s) < i
  <2>1. \A i \in 1..Len(Tail(s)) : i + 1 \in 1..Len(s) /\ 1 < i + 1 /\ 1 \in 1..Len(s)
    BY <1>1
  <2>2. Increasing(Tail(s))
    BY <1>6, <1>1, <1>2, <2>1 DEF Increasing
  <2>3. \A i \in 1..Len(Tail(s)) : s[1] < Tail(s)[i]
    BY <1>6, <1>2, <2>1 DEF Increasing
  <2> QED BY <2>2, <2>3, <1>3 DEF Range
<1> QED BY <1>5, <1>6

\* Appending something larger keeps a sequence increasing.
LEMMA IncreasingAppend ==
    ASSUME NEW s \in Seq(Nat), NEW x \in Nat, Increasing(s),
           \A i \in Range(s) : i < x
    PROVE  Increasing(Append(s, x))
<1>1. Len(Append(s, x)) = Len(s) + 1 /\ Len(s) \in Nat
  OBVIOUS
<1>2. \A i \in 1..Len(s) : Append(s, x)[i] = s[i] /\ s[i] < x
  BY DEF Range
<1>3. Append(s, x)[Len(s) + 1] = x
  OBVIOUS
<1> QED BY <1>1, <1>2, <1>3 DEF Increasing

\* A prefix of a sequence is a sequence.
LEMMA PrefixType ==
    ASSUME NEW S, NEW s \in Seq(S), NEW n \in 0..Len(s)
    PROVE  Prefix(s, n) \in Seq(S)
BY DEF Prefix

\* Elements of a sequence of a type have the type; the empty one has none.
LEMMA RangeType ==
    ASSUME NEW S, NEW s \in Seq(S)
    PROVE  Range(s) \subseteq S
BY DEF Range

\* The empty sequence has no elements.
LEMMA RangeEmpty == Range(<<>>) = {}
BY DEF Range

-----------------------------------------------------------------------------
\* Nothing has happened: every part of the invariant holds.
LEMMA InitIInv == Init => IInv
<1> SUFFICES ASSUME Init PROVE IInv
  OBVIOUS
<1> USE GroundStationAssumption
<1>1. TypeOK
  <2>1. /\ wire \in Seq(Frames)
        /\ responses \in Seq(Seq(1..MaxCommands))
        /\ published \in Seq(1..MaxCommands)
    BY DEF Init
  <2>2. /\ call \in [Streams -> {"none"} \cup Live \cup Ended]
        /\ gen \in [Streams -> {"none", "first", "test", "get", "yield",
                                 "testempty", "drain", "drainyield", "done"}]
    BY DEF Init
  <2>3. held \in [Streams -> 0..MaxFrames]
    BY DEF Init
  <2>4. /\ put \in 0..MaxFrames
        /\ taken \in 0..put
        /\ retries \in 0..MAX_RETRY_ATTEMPTS
        /\ stream \in 0..(MAX_RETRY_ATTEMPTS + 1)
        /\ newest \in 0..MaxFrames
        /\ commands \in 0..MaxCommands
    BY DEF Init
  <2>5. /\ stopped \in BOOLEAN
        /\ received \in SUBSET Frames
        /\ lost \in SUBSET Frames
        /\ dropped \in SUBSET (Streams \X Frames)
    BY DEF Init
  <2> QED BY <2>1, <2>2, <2>3, <2>4, <2>5 DEF Init, TypeOK
<1>2. StreamsInv
  BY DEF Init, StreamsInv, Streams
<1>3. GenInv
  BY DEF Init, GenInv
<1>4. Range(wire) = {}
  BY DEF Init, Range
<1>5. FramesInv
  BY <1>4 DEF Init, FramesInv, Increasing
<1>6. FramesAccounted
  BY <1>4 DEF Init, FramesAccounted
<1>7. LossInv
  BY DEF Init, LossInv
<1> QED BY <1>1, <1>2, <1>3, <1>5, <1>6, <1>7 DEF IInv

-----------------------------------------------------------------------------
(* Every step keeps the invariant, one lemma per action.                   *)

\* start() opens the first stream.
LEMMA start_Step ==
    ASSUME IInv, start
    PROVE  IInv'
<1> USE GroundStationAssumption
<1>0. /\ stream + 1 \in Streams
      /\ client' \in {"insecure", "secure"}
      /\ stream' = stream + 1
      /\ call' = [call EXCEPT ![stream + 1] = "live"]
      /\ gen' = [gen EXCEPT ![stream + 1] = "first"]
      /\ call[stream + 1] = "none" /\ gen[stream + 1] = "none"
      /\ retries' \in 0..MAX_RETRY_ATTEMPTS
      /\ handler' = "reading" /\ block' \notin {"new", "raised"}
      /\ wire = <<>>
      /\ UNCHANGED <<stopped, put, taken, held, wire, netVars, lost, dropped, cmdVars>>
  <2>1. stream + 1 \in Streams /\ retries' \in 0..MAX_RETRY_ATTEMPTS
    BY DEF IInv, TypeOK, StreamsInv, start, Streams
  <2>2. wire = <<>>
    BY DEF IInv, TypeOK, StreamsInv, FramesInv, start, Live
  <2>3. call[stream + 1] = "none" /\ gen[stream + 1] = "none"
    BY <2>1 DEF IInv, TypeOK, StreamsInv
  <2> QED BY <2>1, <2>2, <2>3
          DEF IInv, StreamsInv, start, OpenStream, setup_api_client, netVars, cmdVars
<1>1. TypeOK'
  <2>1. call' \in [Streams -> {"none"} \cup Live \cup Ended]
    BY <1>0 DEF IInv, TypeOK, Live
  <2>2. gen' \in [Streams -> {"none", "first", "test", "get", "yield",
                             "testempty", "drain", "drainyield", "done"}]
    BY <1>0 DEF IInv, TypeOK
  <2>3. block' \in {"new", "raised", "running", "joining", "stopped"}
    BY DEF IInv, TypeOK, start, OpenStream
  <2>4. stream' \in 0..(MAX_RETRY_ATTEMPTS + 1)
    BY <1>0 DEF Streams
  <2> QED BY <1>0, <2>1, <2>2, <2>3, <2>4 DEF IInv, TypeOK, netVars, cmdVars
<1>2. StreamsInv'
  BY DEF IInv, TypeOK, StreamsInv, Streams, Live, Ended, start, OpenStream, setup_api_client
<1>3. GenInv'
  BY <1>0 DEF IInv, TypeOK, StreamsInv, GenInv, Streams, Live, Ended
<1>4. FramesInv'
  <2>1. Range(wire) = {}
    BY <1>0, RangeEmpty
  <2>2. held[stream + 1] = 0
    BY <1>0 DEF IInv, GenInv
  <2>3. stream' > 0 /\ \A t \in Streams : t = stream' => held'[t] = 0
    BY <1>0, <2>2 DEF IInv, TypeOK
  <2> QED BY <1>0, <2>1, <2>3 DEF IInv, TypeOK, FramesInv, netVars, Increasing
<1>5. FramesAccounted'
  BY DEF IInv, TypeOK, FramesAccounted, start, OpenStream, setup_api_client
<1>6. LossInv'
  <2>1. Broken => Broken'
    BY <1>0 DEF IInv, TypeOK, Broken
  <2> QED BY <1>0, <2>1 DEF IInv, LossInv
<1> QED BY <1>1, <1>2, <1>3, <1>4, <1>5, <1>6 DEF IInv

\* start() raises, and nothing follows.
LEMMA StartRaises_Step ==
    ASSUME IInv, StartRaises
    PROVE  IInv'
<1> USE GroundStationAssumption
<1>1. TypeOK'
  BY DEF IInv, TypeOK, Streams, Frames, Live, Ended, StartRaises, blockVars, threadVars, genVars, netVars, cmdVars
<1>2. StreamsInv'
  BY DEF IInv, TypeOK, StreamsInv, Streams, Live, Ended, StartRaises, blockVars, threadVars, genVars, netVars, cmdVars
<1>3. GenInv'
  BY DEF IInv, TypeOK, StreamsInv, GenInv, Live, Ended, StartRaises, blockVars, threadVars, genVars, netVars, cmdVars
<1>4. FramesInv'
  BY DEF IInv, TypeOK, StreamsInv, GenInv, FramesInv, Live, StartRaises, blockVars, threadVars, genVars, netVars, cmdVars
<1>5. FramesAccounted'
  BY DEF IInv, TypeOK, FramesAccounted, StartRaises, blockVars, threadVars, genVars, netVars, cmdVars
<1>6. LossInv'
  BY DEF IInv, TypeOK, LossInv, Broken, StartRaises, blockVars, threadVars, genVars, netVars, cmdVars
<1> QED BY <1>1, <1>2, <1>3, <1>4, <1>5, <1>6 DEF IInv

\* A frame is put on the queue.
LEMMA msg_handler_Step ==
    ASSUME IInv, msg_handler
    PROVE  IInv'
<1> USE GroundStationAssumption
<1>1. TypeOK'
  BY DEF IInv, TypeOK, Streams, Frames, Live, Ended, msg_handler, blockVars, threadVars, genVars, netVars, cmdVars
<1>2. StreamsInv'
  BY DEF IInv, TypeOK, StreamsInv, Streams, Live, Ended, msg_handler, blockVars, threadVars, genVars, netVars, cmdVars
<1>3. GenInv'
  BY DEF IInv, TypeOK, StreamsInv, GenInv, Live, Ended, msg_handler, blockVars, threadVars, genVars, netVars, cmdVars
<1>4. FramesInv'
  BY DEF IInv, TypeOK, StreamsInv, GenInv, FramesInv, Live, msg_handler, blockVars, threadVars, genVars, netVars, cmdVars
<1>5. FramesAccounted'
  BY DEF IInv, TypeOK, FramesAccounted, msg_handler, blockVars, threadVars, genVars, netVars, cmdVars
<1>6. LossInv'
  BY DEF IInv, TypeOK, LossInv, Broken, msg_handler, blockVars, threadVars, genVars, netVars, cmdVars
<1> QED BY <1>1, <1>2, <1>3, <1>4, <1>5, <1>6 DEF IInv

\* stop() sets the flag.
LEMMA stop_Step ==
    ASSUME IInv, stop
    PROVE  IInv'
<1> USE GroundStationAssumption
<1>1. TypeOK'
  BY DEF IInv, TypeOK, Streams, Frames, Live, Ended, stop, blockVars, threadVars, genVars, netVars, cmdVars
<1>2. StreamsInv'
  BY DEF IInv, TypeOK, StreamsInv, Streams, Live, Ended, stop, blockVars, threadVars, genVars, netVars, cmdVars
<1>3. GenInv'
  BY DEF IInv, TypeOK, StreamsInv, GenInv, Live, Ended, stop, blockVars, threadVars, genVars, netVars, cmdVars
<1>4. FramesInv'
  BY DEF IInv, TypeOK, StreamsInv, GenInv, FramesInv, Live, stop, blockVars, threadVars, genVars, netVars, cmdVars
<1>5. FramesAccounted'
  BY DEF IInv, TypeOK, FramesAccounted, stop, blockVars, threadVars, genVars, netVars, cmdVars
<1>6. LossInv'
  BY DEF IInv, TypeOK, LossInv, Broken, stop, blockVars, threadVars, genVars, netVars, cmdVars
<1> QED BY <1>1, <1>2, <1>3, <1>4, <1>5, <1>6 DEF IInv

\* The stream thread is joined.
LEMMA StopReturned_Step ==
    ASSUME IInv, StopReturned
    PROVE  IInv'
<1> USE GroundStationAssumption
<1>1. TypeOK'
  BY DEF IInv, TypeOK, Streams, Frames, Live, Ended, StopReturned, blockVars, threadVars, genVars, netVars, cmdVars
<1>2. StreamsInv'
  BY DEF IInv, TypeOK, StreamsInv, Streams, Live, Ended, StopReturned, blockVars, threadVars, genVars, netVars, cmdVars
<1>3. GenInv'
  BY DEF IInv, TypeOK, StreamsInv, GenInv, Live, Ended, StopReturned, blockVars, threadVars, genVars, netVars, cmdVars
<1>4. FramesInv'
  BY DEF IInv, TypeOK, StreamsInv, GenInv, FramesInv, Live, StopReturned, blockVars, threadVars, genVars, netVars, cmdVars
<1>5. FramesAccounted'
  BY DEF IInv, TypeOK, FramesAccounted, StopReturned, blockVars, threadVars, genVars, netVars, cmdVars
<1>6. LossInv'
  BY DEF IInv, TypeOK, LossInv, Broken, StopReturned, blockVars, threadVars, genVars, netVars, cmdVars
<1> QED BY <1>1, <1>2, <1>3, <1>4, <1>5, <1>6 DEF IInv

\* The first request of a stream.
LEMMA GenFirst_Step ==
    ASSUME IInv, NEW s \in Streams, GenFirst(s)
    PROVE  IInv'
<1> USE GroundStationAssumption
<1>1. TypeOK'
  BY DEF IInv, TypeOK, Streams, Frames, Live, Ended, GenFirst, GenMoves, blockVars, threadVars, genVars, netVars, cmdVars
<1>2. StreamsInv'
  BY DEF IInv, TypeOK, StreamsInv, Streams, Live, Ended, GenFirst, GenMoves, blockVars, threadVars, genVars, netVars, cmdVars
<1>3. GenInv'
  BY DEF IInv, TypeOK, StreamsInv, GenInv, Live, Ended, GenFirst, GenMoves, blockVars, threadVars, genVars, netVars, cmdVars
<1>4. FramesInv'
  BY DEF IInv, TypeOK, StreamsInv, GenInv, FramesInv, Live, GenFirst, GenMoves, blockVars, threadVars, genVars, netVars, cmdVars
<1>5. FramesAccounted'
  BY DEF IInv, TypeOK, FramesAccounted, GenFirst, GenMoves, blockVars, threadVars, genVars, netVars, cmdVars
<1>6. LossInv'
  BY DEF IInv, TypeOK, LossInv, Broken, GenFirst, GenMoves, blockVars, threadVars, genVars, netVars, cmdVars
<1> QED BY <1>1, <1>2, <1>3, <1>4, <1>5, <1>6 DEF IInv

\* The test of the flag.
LEMMA GenTestStopped_Step ==
    ASSUME IInv, NEW s \in Streams, GenTestStopped(s)
    PROVE  IInv'
<1> USE GroundStationAssumption
<1>1. TypeOK'
  BY DEF IInv, TypeOK, Streams, Frames, Live, Ended, GenTestStopped, GenMoves, blockVars, threadVars, genVars, netVars, cmdVars
<1>2. StreamsInv'
  BY DEF IInv, TypeOK, StreamsInv, Streams, Live, Ended, GenTestStopped, GenMoves, blockVars, threadVars, genVars, netVars, cmdVars
<1>3. GenInv'
  BY DEF IInv, TypeOK, StreamsInv, GenInv, Live, Ended, GenTestStopped, GenMoves, blockVars, threadVars, genVars, netVars, cmdVars
<1>4. FramesInv'
  BY DEF IInv, TypeOK, StreamsInv, GenInv, FramesInv, Live, GenTestStopped, GenMoves, blockVars, threadVars, genVars, netVars, cmdVars
<1>5. FramesAccounted'
  BY DEF IInv, TypeOK, FramesAccounted, GenTestStopped, GenMoves, blockVars, threadVars, genVars, netVars, cmdVars
<1>6. LossInv'
  BY DEF IInv, TypeOK, LossInv, Broken, GenTestStopped, GenMoves, blockVars, threadVars, genVars, netVars, cmdVars
<1> QED BY <1>1, <1>2, <1>3, <1>4, <1>5, <1>6 DEF IInv

\* The get times out.
LEMMA GenTimeout_Step ==
    ASSUME IInv, NEW s \in Streams, GenTimeout(s)
    PROVE  IInv'
<1> USE GroundStationAssumption
<1>1. TypeOK'
  BY DEF IInv, TypeOK, Streams, Frames, Live, Ended, GenTimeout, GenMoves, blockVars, threadVars, genVars, netVars, cmdVars
<1>2. StreamsInv'
  BY DEF IInv, TypeOK, StreamsInv, Streams, Live, Ended, GenTimeout, GenMoves, blockVars, threadVars, genVars, netVars, cmdVars
<1>3. GenInv'
  BY DEF IInv, TypeOK, StreamsInv, GenInv, Live, Ended, GenTimeout, GenMoves, blockVars, threadVars, genVars, netVars, cmdVars
<1>4. FramesInv'
  BY DEF IInv, TypeOK, StreamsInv, GenInv, FramesInv, Live, GenTimeout, GenMoves, blockVars, threadVars, genVars, netVars, cmdVars
<1>5. FramesAccounted'
  BY DEF IInv, TypeOK, FramesAccounted, GenTimeout, GenMoves, blockVars, threadVars, genVars, netVars, cmdVars
<1>6. LossInv'
  BY DEF IInv, TypeOK, LossInv, Broken, GenTimeout, GenMoves, blockVars, threadVars, genVars, netVars, cmdVars
<1> QED BY <1>1, <1>2, <1>3, <1>4, <1>5, <1>6 DEF IInv

\* The test of the queue in the drain.
LEMMA GenTestEmpty_Step ==
    ASSUME IInv, NEW s \in Streams, GenTestEmpty(s)
    PROVE  IInv'
<1> USE GroundStationAssumption
<1>1. TypeOK'
  BY DEF IInv, TypeOK, Streams, Frames, Live, Ended, GenTestEmpty, GenMoves, blockVars, threadVars, genVars, netVars, cmdVars
<1>2. StreamsInv'
  BY DEF IInv, TypeOK, StreamsInv, Streams, Live, Ended, GenTestEmpty, GenMoves, blockVars, threadVars, genVars, netVars, cmdVars
<1>3. GenInv'
  BY DEF IInv, TypeOK, StreamsInv, GenInv, Live, Ended, GenTestEmpty, GenMoves, blockVars, threadVars, genVars, netVars, cmdVars
<1>4. FramesInv'
  BY DEF IInv, TypeOK, StreamsInv, GenInv, FramesInv, Live, GenTestEmpty, GenMoves, blockVars, threadVars, genVars, netVars, cmdVars
<1>5. FramesAccounted'
  BY DEF IInv, TypeOK, FramesAccounted, GenTestEmpty, GenMoves, blockVars, threadVars, genVars, netVars, cmdVars
<1>6. LossInv'
  BY DEF IInv, TypeOK, LossInv, Broken, GenTestEmpty, GenMoves, blockVars, threadVars, genVars, netVars, cmdVars
<1> QED BY <1>1, <1>2, <1>3, <1>4, <1>5, <1>6 DEF IInv

\* A response is handled.
LEMMA PublishCommands_Step ==
    ASSUME IInv, PublishCommands
    PROVE  IInv'
<1> USE GroundStationAssumption
<1>1. TypeOK'
  <2>1. Head(responses) \in Seq(1..MaxCommands) /\ Tail(responses) \in Seq(Seq(1..MaxCommands))
    BY DEF IInv, TypeOK, PublishCommands
  <2>2. published \o Head(responses) \in Seq(1..MaxCommands)
    BY <2>1 DEF IInv, TypeOK
  <2> QED BY <2>1, <2>2 DEF IInv, TypeOK, PublishCommands, blockVars, threadVars, genVars, netVars
<1>2. StreamsInv'
  BY DEF IInv, TypeOK, StreamsInv, Streams, Live, Ended, PublishCommands, blockVars, threadVars, genVars, netVars, cmdVars, Reading
<1>3. GenInv'
  BY DEF IInv, TypeOK, StreamsInv, GenInv, Live, Ended, PublishCommands, blockVars, threadVars, genVars, netVars, cmdVars, Reading
<1>4. FramesInv'
  BY DEF IInv, TypeOK, StreamsInv, GenInv, FramesInv, Live, PublishCommands, blockVars, threadVars, genVars, netVars, cmdVars, Reading
<1>5. FramesAccounted'
  BY DEF IInv, TypeOK, FramesAccounted, PublishCommands, blockVars, threadVars, genVars, netVars, cmdVars, Reading
<1>6. LossInv'
  BY DEF IInv, TypeOK, LossInv, Broken, PublishCommands, blockVars, threadVars, genVars, netVars, cmdVars, Reading
<1> QED BY <1>1, <1>2, <1>3, <1>4, <1>5, <1>6 DEF IInv

\* The stream thread ends with its stream.
LEMMA StreamEnds_Step ==
    ASSUME IInv, StreamEnds
    PROVE  IInv'
<1> USE GroundStationAssumption
<1>1. TypeOK'
  BY DEF IInv, TypeOK, Streams, Frames, Live, Ended, StreamEnds, blockVars, threadVars, genVars, netVars, cmdVars, Reading
<1>2. StreamsInv'
  BY DEF IInv, TypeOK, StreamsInv, Streams, Live, Ended, StreamEnds, blockVars, threadVars, genVars, netVars, cmdVars, Reading
<1>3. GenInv'
  BY DEF IInv, TypeOK, StreamsInv, GenInv, Live, Ended, StreamEnds, blockVars, threadVars, genVars, netVars, cmdVars, Reading
<1>4. FramesInv'
  BY DEF IInv, TypeOK, StreamsInv, GenInv, FramesInv, Live, StreamEnds, blockVars, threadVars, genVars, netVars, cmdVars, Reading
<1>5. FramesAccounted'
  BY DEF IInv, TypeOK, FramesAccounted, StreamEnds, blockVars, threadVars, genVars, netVars, cmdVars, Reading
<1>6. LossInv'
  BY DEF IInv, TypeOK, LossInv, Broken, StreamEnds, blockVars, threadVars, genVars, netVars, cmdVars, Reading
<1> QED BY <1>1, <1>2, <1>3, <1>4, <1>5, <1>6 DEF IInv

\* The stream thread gives up.
LEMMA GiveUp_Step ==
    ASSUME IInv, GiveUp
    PROVE  IInv'
<1> USE GroundStationAssumption
<1>1. TypeOK'
  BY DEF IInv, TypeOK, Streams, Frames, Live, Ended, GiveUp, blockVars, threadVars, genVars, netVars, cmdVars, Reading
<1>2. StreamsInv'
  BY DEF IInv, TypeOK, StreamsInv, Streams, Live, Ended, GiveUp, blockVars, threadVars, genVars, netVars, cmdVars, Reading
<1>3. GenInv'
  BY DEF IInv, TypeOK, StreamsInv, GenInv, Live, Ended, GiveUp, blockVars, threadVars, genVars, netVars, cmdVars, Reading
<1>4. FramesInv'
  BY DEF IInv, TypeOK, StreamsInv, GenInv, FramesInv, Live, GiveUp, blockVars, threadVars, genVars, netVars, cmdVars, Reading
<1>5. FramesAccounted'
  BY DEF IInv, TypeOK, FramesAccounted, GiveUp, blockVars, threadVars, genVars, netVars, cmdVars, Reading
<1>6. LossInv'
  BY DEF IInv, TypeOK, LossInv, Broken, GiveUp, blockVars, threadVars, genVars, netVars, cmdVars, Reading
<1> QED BY <1>1, <1>2, <1>3, <1>4, <1>5, <1>6 DEF IInv

\* The stream thread opens another stream.
LEMMA Retry_Step ==
    ASSUME IInv, Retry
    PROVE  IInv'
<1> USE GroundStationAssumption
<1>0. /\ stream + 1 \in Streams
      /\ client' \in {"insecure", "secure"}
      /\ stream' = stream + 1
      /\ call' = [call EXCEPT ![stream + 1] = "live"]
      /\ gen' = [gen EXCEPT ![stream + 1] = "first"]
      /\ call[stream + 1] = "none" /\ gen[stream + 1] = "none"
      /\ retries' \in 0..MAX_RETRY_ATTEMPTS
      /\ handler' = "reading" /\ block' \notin {"new", "raised"}
      /\ wire = <<>>
      /\ UNCHANGED <<stopped, put, taken, held, wire, netVars, lost, dropped, cmdVars>>
  <2>1. stream + 1 \in Streams /\ retries' \in 0..MAX_RETRY_ATTEMPTS
    BY DEF IInv, TypeOK, StreamsInv, Retry, blockVars, Reading, Streams
  <2>2. wire = <<>>
    BY DEF IInv, TypeOK, StreamsInv, FramesInv, Retry, blockVars, Reading, Live
  <2>3. call[stream + 1] = "none" /\ gen[stream + 1] = "none"
    BY <2>1 DEF IInv, TypeOK, StreamsInv
  <2> QED BY <2>1, <2>2, <2>3
          DEF IInv, StreamsInv, Retry, blockVars, Reading, OpenStream, setup_api_client, netVars, cmdVars
<1>1. TypeOK'
  <2>1. call' \in [Streams -> {"none"} \cup Live \cup Ended]
    BY <1>0 DEF IInv, TypeOK, Live
  <2>2. gen' \in [Streams -> {"none", "first", "test", "get", "yield",
                             "testempty", "drain", "drainyield", "done"}]
    BY <1>0 DEF IInv, TypeOK
  <2>3. block' \in {"new", "raised", "running", "joining", "stopped"}
    BY DEF IInv, TypeOK, Retry, blockVars, Reading, OpenStream
  <2>4. stream' \in 0..(MAX_RETRY_ATTEMPTS + 1)
    BY <1>0 DEF Streams
  <2> QED BY <1>0, <2>1, <2>2, <2>3, <2>4 DEF IInv, TypeOK, netVars, cmdVars
<1>2. StreamsInv'
  BY DEF IInv, TypeOK, StreamsInv, Streams, Live, Ended, Retry, blockVars, threadVars, genVars, netVars, cmdVars, Reading, OpenStream, setup_api_client
<1>3. GenInv'
  BY <1>0 DEF IInv, TypeOK, StreamsInv, GenInv, Streams, Live, Ended
<1>4. FramesInv'
  <2>1. Range(wire) = {}
    BY <1>0, RangeEmpty
  <2>2. held[stream + 1] = 0
    BY <1>0 DEF IInv, GenInv
  <2>3. stream' > 0 /\ \A t \in Streams : t = stream' => held'[t] = 0
    BY <1>0, <2>2 DEF IInv, TypeOK
  <2> QED BY <1>0, <2>1, <2>3 DEF IInv, TypeOK, FramesInv, netVars, Increasing
<1>5. FramesAccounted'
  BY DEF IInv, TypeOK, FramesAccounted, Retry, blockVars, threadVars, genVars, netVars, cmdVars, Reading, OpenStream, setup_api_client
<1>6. LossInv'
  <2>1. Broken => Broken'
    BY <1>0 DEF IInv, TypeOK, Broken
  <2> QED BY <1>0, <2>1 DEF IInv, LossInv
<1> QED BY <1>1, <1>2, <1>3, <1>4, <1>5, <1>6 DEF IInv

\* The stream thread dies while it sets up another stream.
LEMMA RetryRaises_Step ==
    ASSUME IInv, RetryRaises
    PROVE  IInv'
<1> USE GroundStationAssumption
<1>1. TypeOK'
  BY DEF IInv, TypeOK, Streams, Frames, Live, Ended, RetryRaises, blockVars, threadVars, genVars, netVars, cmdVars, Reading
<1>2. StreamsInv'
  BY DEF IInv, TypeOK, StreamsInv, Streams, Live, Ended, RetryRaises, blockVars, threadVars, genVars, netVars, cmdVars, Reading
<1>3. GenInv'
  BY DEF IInv, TypeOK, StreamsInv, GenInv, Live, Ended, RetryRaises, blockVars, threadVars, genVars, netVars, cmdVars, Reading
<1>4. FramesInv'
  BY DEF IInv, TypeOK, StreamsInv, GenInv, FramesInv, Live, RetryRaises, blockVars, threadVars, genVars, netVars, cmdVars, Reading
<1>5. FramesAccounted'
  BY DEF IInv, TypeOK, FramesAccounted, RetryRaises, blockVars, threadVars, genVars, netVars, cmdVars, Reading
<1>6. LossInv'
  BY DEF IInv, TypeOK, LossInv, Broken, RetryRaises, blockVars, threadVars, genVars, netVars, cmdVars, Reading
<1> QED BY <1>1, <1>2, <1>3, <1>4, <1>5, <1>6 DEF IInv

\* The station sends a response.
LEMMA StationSends_Step ==
    ASSUME IInv, NEW n \in 0..MaxCommands, StationSends(n)
    PROVE  IInv'
<1> USE GroundStationAssumption
<1>1. TypeOK'
  BY DEF IInv, TypeOK, Streams, Frames, Live, Ended, StationSends, blockVars, threadVars, genVars, netVars, cmdVars, Reading
<1>2. StreamsInv'
  BY DEF IInv, TypeOK, StreamsInv, Streams, Live, Ended, StationSends, blockVars, threadVars, genVars, netVars, cmdVars, Reading
<1>3. GenInv'
  BY DEF IInv, TypeOK, StreamsInv, GenInv, Live, Ended, StationSends, blockVars, threadVars, genVars, netVars, cmdVars, Reading
<1>4. FramesInv'
  BY DEF IInv, TypeOK, StreamsInv, GenInv, FramesInv, Live, StationSends, blockVars, threadVars, genVars, netVars, cmdVars, Reading
<1>5. FramesAccounted'
  BY DEF IInv, TypeOK, FramesAccounted, StationSends, blockVars, threadVars, genVars, netVars, cmdVars, Reading
<1>6. LossInv'
  BY DEF IInv, TypeOK, LossInv, Broken, StationSends, blockVars, threadVars, genVars, netVars, cmdVars, Reading
<1> QED BY <1>1, <1>2, <1>3, <1>4, <1>5, <1>6 DEF IInv

\* A generator takes the oldest frame: it is newer than any other taken.
LEMMA Take_Step ==
    ASSUME IInv, NEW s \in Streams, NEW from, NEW to, Take(s, from, to),
           from \in {"get", "drain"},
           to = IF from = "get" THEN "yield" ELSE "drainyield"
    PROVE  IInv'
<1> USE GroundStationAssumption
<1>0. /\ taken < put /\ gen[s] = from
      /\ gen' = [gen EXCEPT ![s] = to]
      /\ taken' = taken + 1
      /\ held' = [held EXCEPT ![s] = taken + 1]
      /\ UNCHANGED <<block, stopped, put, client, handler, retries, stream, call,
                     wire, newest, received, lost, dropped, responses, commands,
                     published>>
  BY DEF Take, GenMoves, blockVars, threadVars, netVars, cmdVars
<1>00. taken \in Nat /\ put \in Nat /\ taken + 1 \in Frames
  BY <1>0 DEF IInv, TypeOK, Frames
<1>1. TypeOK'
  <2>1. held' \in [Streams -> 0..MaxFrames] /\ taken' \in 0..put'
    BY <1>0, <1>00 DEF IInv, TypeOK, Frames
  <2>2. gen' \in [Streams -> {"none", "first", "test", "get", "yield",
                               "testempty", "drain", "drainyield", "done"}]
    BY <1>0 DEF IInv, TypeOK
  <2> QED BY <1>0, <2>1, <2>2 DEF IInv, TypeOK
<1>2. StreamsInv'
  BY <1>0 DEF IInv, TypeOK, StreamsInv
<1>3. GenInv'
  <2>1. \A t \in Streams : held'[t] # 0 <=> gen'[t] \in {"yield", "drainyield"}
    BY <1>0, <1>00 DEF IInv, TypeOK, GenInv
  <2>2. \A t \in Streams :
          gen'[t] \in {"testempty", "drain", "drainyield"} => stopped'
    BY <1>0 DEF IInv, TypeOK, GenInv
  <2>3. \A t \in Streams : call'[t] \notin {"half", "ok"}
    BY <1>0, <1>00 DEF IInv, TypeOK, GenInv
  <2>4. \A t \in Streams : gen'[t] = "drain" /\ stream' = 1 => taken' < put'
    <3> SUFFICES ASSUME NEW t \in Streams, gen'[t] = "drain", stream = 1 PROVE FALSE
      BY <1>0
    <3>1. t # s /\ gen[t] = "drain"
      BY <1>0 DEF IInv, TypeOK
    <3>2. s <= 1 /\ t <= 1 /\ s \in Nat \ {0} /\ t \in Nat \ {0}
      BY <1>0, <3>1 DEF IInv, StreamsInv, Streams
    <3> QED BY <3>1, <3>2
  <2>5. \A t \in Streams : \A i \in Frames : <<t, i>> \in dropped' => gen'[t] = "done"
    BY <1>0 DEF IInv, TypeOK, GenInv
  <2> QED BY <2>1, <2>2, <2>3, <2>4, <2>5 DEF GenInv
<1>4. FramesInv'
  <2>0. held[s] = 0
    BY <1>0 DEF IInv, GenInv
  <2>1. \A i \in received \cup lost \cup Range(wire) : i < taken + 1
    BY <1>00, RangeType DEF IInv, TypeOK, FramesInv, Frames
  <2>2. \A t \in Streams : held[t] < taken + 1
    BY <1>00 DEF IInv, TypeOK, FramesInv
  <2>3. \A t \in Streams : held'[t] = IF t = s THEN taken + 1 ELSE held[t]
    BY <1>0 DEF IInv, TypeOK
  <2>4. newest \in Nat /\ newest < taken + 1
    BY <1>00 DEF IInv, TypeOK, FramesInv
  <2>5. /\ \A t \in Streams : held'[t] <= taken'
        /\ \A t \in Streams : held'[t] # 0 =>
               held'[t] \notin received' \cup lost' \cup Range(wire)'
    BY <1>0, <1>00, <2>1, <2>2, <2>3 DEF IInv, TypeOK, FramesInv
  <2>6. \A t, u \in Streams : held'[t] = held'[u] /\ held'[t] # 0 => t = u
    BY <1>0, <2>2, <2>3, <1>00 DEF IInv, TypeOK, FramesInv
  <2>7. \A t \in Streams : t = stream' /\ held'[t] # 0 /\ call'[t] \in Live =>
          held'[t] > newest' /\ \A i \in Range(wire)' : i < held'[t]
    BY <1>0, <1>00, <2>1, <2>3, <2>4 DEF IInv, FramesInv
  <2>8. \A i \in Range(wire)' : i > newest' /\ i <= taken' /\ i \notin lost'
    BY <1>0, <1>00, <2>1, RangeType DEF IInv, TypeOK, FramesInv, Frames
  <2>9. /\ received' \cap lost' = {}
        /\ \A i \in received' : i <= newest'
        /\ Increasing(wire)'
        /\ wire' # <<>> => stream' > 0 /\ call'[stream'] \in Live
    BY <1>0 DEF IInv, FramesInv
  <2>10. (\A i \in lost' : i <= taken') /\ newest' <= taken'
    BY <1>0, <1>00, <2>1, <2>4 DEF IInv, TypeOK, Frames, FramesInv
  <2> QED BY <2>5, <2>6, <2>7, <2>8, <2>9, <2>10 DEF FramesInv
<1>5. FramesAccounted'
  <2>0. held[s] = 0
    BY <1>0 DEF IInv, GenInv
  <2>1. \A t \in Streams : held'[t] = IF t = s THEN taken + 1 ELSE held[t]
    BY <1>0 DEF IInv, TypeOK
  <2>2. 1..taken' = (1..taken) \cup {taken + 1}
    BY <1>0, <1>00
  <2>3. {held'[t] : t \in {q \in Streams : held'[q] # 0}}
          = {held[t] : t \in {q \in Streams : held[q] # 0}} \cup {taken + 1}
    BY <2>0, <2>1, <1>00
  <2> QED BY <1>0, <2>2, <2>3 DEF IInv, FramesAccounted
<1>6. LossInv'
  BY <1>0 DEF IInv, LossInv, Broken
<1> QED BY <1>1, <1>2, <1>3, <1>4, <1>5, <1>6 DEF IInv

\* A frame is written, or discarded by a thread whose stream has ended.
LEMMA HandOver_Step ==
    ASSUME IInv, NEW s \in Streams, NEW from, NEW to, HandOver(s, from, to),
           from \in {"yield", "drainyield"},
           to = IF from = "yield" THEN "test" ELSE "testempty"
    PROVE  IInv'
<1> USE GroundStationAssumption
<1>0. /\ gen[s] = from
      /\ held' = [held EXCEPT ![s] = 0]
      /\ UNCHANGED <<block, stopped, put, taken, client, handler, retries, stream,
                     call, newest, received, responses, commands, published>>
  BY DEF HandOver, GenMoves, blockVars, threadVars, netVars, cmdVars
<1>00. held[s] \in Frames /\ held[s] # 0
  BY <1>0 DEF IInv, TypeOK, GenInv, Frames
<1>000. \A t \in Streams : held'[t] = IF t = s THEN 0 ELSE held[t]
  BY <1>0 DEF IInv, TypeOK
<1>h. {held[t] : t \in {q \in Streams : held[q] # 0}}
        = {held'[t] : t \in {q \in Streams : held'[q] # 0}} \cup {held[s]}
  BY <1>000, <1>00
<1>w. /\ wire \in Seq(Frames) /\ Range(wire) \subseteq Frames
      /\ taken \in Nat /\ newest \in Nat
  BY RangeType DEF IInv, TypeOK
<1>a. CASE call[s] \in Live
  <2>0. /\ gen' = [gen EXCEPT ![s] = to]
        /\ wire' = Append(wire, held[s])
        /\ UNCHANGED <<lost, dropped>>
    BY <1>a DEF HandOver, GenMoves
  <2>s. s = stream /\ stream > 0
    BY <1>a DEF IInv, TypeOK, StreamsInv, Streams, Live
  <2>r. Range(wire') = Range(wire) \cup {held[s]}
    BY <1>w, <1>00, <2>0, RangeAppend
  <2>1. TypeOK'
    <3>1. wire' \in Seq(Frames)
      BY <2>0, <1>w, <1>00
    <3>2. held' \in [Streams -> 0..MaxFrames]
      BY <1>0 DEF IInv, TypeOK
    <3>3. gen' \in [Streams -> {"none", "first", "test", "get", "yield",
                                 "testempty", "drain", "drainyield", "done"}]
      BY <2>0 DEF IInv, TypeOK
    <3> QED BY <1>0, <2>0, <3>1, <3>2, <3>3 DEF IInv, TypeOK
  <2>2. StreamsInv'
    BY <1>0, <2>0 DEF IInv, TypeOK, StreamsInv
  <2>3. GenInv'
    BY <1>0, <1>000, <1>a, <2>0 DEF IInv, TypeOK, GenInv, Live
  <2>4. FramesInv'
    <3>1. \A i \in Range(wire) : i < held[s]
      BY <1>00, <1>a, <2>s DEF IInv, FramesInv
    <3>2. Increasing(wire')
      <4>1. wire \in Seq(Nat) /\ held[s] \in Nat
        BY <1>w, <1>00 DEF Frames
      <4>2. Increasing(wire)
        BY DEF IInv, FramesInv
      <4> QED BY <2>0, <3>1, <4>1, <4>2, IncreasingAppend
    <3>3. /\ held[s] > newest /\ held[s] <= taken
          /\ held[s] \notin received \cup lost \cup Range(wire)
      BY <1>00, <1>a, <2>s DEF IInv, FramesInv
    <3>4. \A t \in Streams : held'[t] # 0 => t # s /\ held'[t] = held[t] /\ held[t] # held[s]
      BY <1>000, <1>00 DEF IInv, FramesInv
    <3>5. /\ \A t \in Streams : held'[t] <= taken'
          /\ \A t \in Streams : held'[t] # 0 =>
                 held'[t] \notin received' \cup lost' \cup Range(wire')
          /\ \A t, u \in Streams : held'[t] = held'[u] /\ held'[t] # 0 => t = u
      BY <1>0, <1>000, <1>w, <2>0, <2>r, <3>4 DEF IInv, FramesInv
    <3>6. \A i \in Range(wire') : i > newest' /\ i <= taken' /\ i \notin lost'
      BY <1>0, <2>0, <2>r, <3>3 DEF IInv, FramesInv
    <3>7. \A t \in Streams : t = stream' => held'[t] = 0
      BY <1>0, <1>000, <2>s
    <3>8. stream' > 0 /\ call'[stream'] \in Live
      BY <1>0, <1>a, <2>s
    <3> QED BY <1>0, <2>0, <3>2, <3>5, <3>6, <3>7, <3>8 DEF IInv, FramesInv
  <2>5. FramesAccounted'
    BY <1>0, <1>h, <2>0, <2>r DEF IInv, FramesAccounted
  <2>6. LossInv'
    BY <1>0, <2>0 DEF IInv, LossInv, Broken
  <2> QED BY <2>1, <2>2, <2>3, <2>4, <2>5, <2>6 DEF IInv
<1>b. CASE call[s] \notin Live
  <2>0. /\ gen' = [gen EXCEPT ![s] = "done"]
        /\ lost' = lost \cup {held[s]}
        /\ dropped' = dropped \cup {<<s, held[s]>>}
        /\ wire' = wire
    BY <1>b DEF HandOver, GenMoves
  <2>1. TypeOK'
    <3>1. lost' \in SUBSET Frames /\ dropped' \in SUBSET (Streams \X Frames)
      BY <1>00, <2>0 DEF IInv, TypeOK
    <3>2. held' \in [Streams -> 0..MaxFrames]
      BY <1>0 DEF IInv, TypeOK
    <3>3. gen' \in [Streams -> {"none", "first", "test", "get", "yield",
                                 "testempty", "drain", "drainyield", "done"}]
      BY <2>0 DEF IInv, TypeOK
    <3> QED BY <1>0, <2>0, <3>1, <3>2, <3>3 DEF IInv, TypeOK
  <2>2. StreamsInv'
    BY <1>0, <2>0 DEF IInv, TypeOK, StreamsInv
  <2>3. GenInv'
    <3>1. \A t \in Streams : gen'[t] = IF t = s THEN "done" ELSE gen[t]
      BY <2>0 DEF IInv, TypeOK
    <3>2. \A t \in Streams : \A i \in Frames :
            <<t, i>> \in dropped' => gen'[t] = "done"
      BY <2>0, <3>1 DEF IInv, GenInv
    <3> QED BY <1>0, <1>000, <2>0, <3>1, <3>2 DEF IInv, TypeOK, GenInv
  <2>4. FramesInv'
    <3>1. held[s] <= taken /\ held[s] \notin received \cup lost \cup Range(wire)
      BY <1>00 DEF IInv, FramesInv
    <3>2. \A t \in Streams : held'[t] # 0 => t # s /\ held'[t] = held[t] /\ held[t] # held[s]
      BY <1>000, <1>00 DEF IInv, FramesInv
    <3>3. /\ \A t \in Streams : held'[t] <= taken'
          /\ \A t \in Streams : held'[t] # 0 =>
                 held'[t] \notin received' \cup lost' \cup Range(wire')
          /\ \A t, u \in Streams : held'[t] = held'[u] /\ held'[t] # 0 => t = u
      BY <1>0, <1>000, <1>w, <2>0, <3>2 DEF IInv, FramesInv
    <3>4. \A t \in Streams : t = stream' /\ held'[t] # 0 /\ call'[t] \in Live =>
            held'[t] > newest' /\ \A i \in Range(wire)' : i < held'[t]
      BY <1>0, <2>0, <3>2 DEF IInv, FramesInv
    <3> QED BY <1>0, <2>0, <3>1, <3>3, <3>4 DEF IInv, FramesInv
  <2>5. FramesAccounted'
    BY <1>0, <1>h, <2>0 DEF IInv, FramesAccounted
  <2>6. LossInv'
    <3>1. call[s] \in {"failed", "closed"}
      BY <1>0, <1>b DEF IInv, TypeOK, StreamsInv, GenInv, Live, Ended, Streams
    <3> QED BY <1>0, <3>1 DEF LossInv, Broken
  <2> QED BY <2>1, <2>2, <2>3, <2>4, <2>5, <2>6 DEF IInv
<1> QED BY <1>a, <1>b

\* The newest stream's RPC ends: what is on the wire is lost with it.
LEMMA EndCall_Keeps ==
    ASSUME IInv, stream > 0, call[stream] \in Live,
           NEW state \in Ended, EndCall(state),
           state = "ok" => call[stream] = "half" /\ wire = <<>>,
           handler' = handler \/ (handler # "none" /\ handler' = "raised"),
           UNCHANGED <<block, stopped, put, taken, client, retries, stream, gen,
                       held, newest, received, dropped>>,
           /\ responses' \in Seq(Seq(1..MaxCommands))
           /\ commands' \in 0..MaxCommands
           /\ published' \in Seq(1..MaxCommands)
    PROVE  IInv'
<1> USE GroundStationAssumption
<1>0. /\ stream \in Streams
      /\ call' = [call EXCEPT ![stream] = state]
      /\ lost' = lost \cup Range(wire)
      /\ wire' = <<>>
      /\ Range(wire') = {}
  BY RangeEmpty DEF IInv, TypeOK, EndCall, Streams
<1>00. \A t \in Streams : call'[t] = IF t = stream THEN state ELSE call[t]
  BY <1>0 DEF IInv, TypeOK
<1>w. Range(wire) \subseteq Frames
  BY RangeType DEF IInv, TypeOK
<1>1. TypeOK'
  <2>1. call' \in [Streams -> {"none"} \cup Live \cup Ended]
    BY <1>0 DEF IInv, TypeOK
  <2>2. lost' \in SUBSET Frames /\ wire' \in Seq(Frames)
    BY <1>0, <1>w DEF IInv, TypeOK
  <2>3. handler' \in {"none", "reading", "done", "raised"}
    BY DEF IInv, TypeOK
  <2> QED BY <2>1, <2>2, <2>3 DEF IInv, TypeOK
<1>2. StreamsInv'
  <2>1. state # "none"
    BY DEF Ended
  <2>2. \A t \in Streams : t > stream => call'[t] = "none"
    BY <1>00 DEF IInv, TypeOK, StreamsInv
  <2>3. \A t \in Streams : t <= stream => call'[t] # "none"
    BY <1>00, <2>1 DEF IInv, TypeOK, StreamsInv
  <2>4. \A t \in Streams : t < stream => call'[t] = "failed"
    BY <1>0, <1>00 DEF IInv, TypeOK, StreamsInv, Streams
  <2>5. call'[stream] \in Ended
    BY <1>0, <1>00
  <2>6. handler' = "none" <=> block' \in {"new", "raised"}
    BY DEF IInv, StreamsInv
  <2> QED BY <2>2, <2>3, <2>4, <2>5, <2>6 DEF IInv, StreamsInv
<1>3. GenInv'
  <2>1. \A t \in Streams :
          call'[t] \in {"half", "ok"} => stopped' /\ gen'[t] = "done" /\ taken' = put'
    BY <1>0, <1>00 DEF IInv, GenInv, Ended
  <2> QED BY <2>1 DEF IInv, GenInv
<1>4. FramesInv'
  <2>1. \A t \in Streams : held'[t] # 0 =>
          held'[t] \notin received' \cup lost' \cup Range(wire')
    BY <1>0 DEF IInv, FramesInv
  <2>2. received' \cap lost' = {}
    <3>1. newest \in Nat /\ \A i \in Range(wire) : i \in Nat
      BY <1>w DEF IInv, TypeOK, Frames
    <3>2. received \subseteq Nat
      BY DEF IInv, TypeOK, Frames
    <3> QED BY <1>0, <3>1, <3>2 DEF IInv, FramesInv
  <2>3. \A i \in lost' : i <= taken'
    BY <1>0 DEF IInv, FramesInv
  <2>4. Increasing(wire')
    BY <1>0 DEF Increasing
  <2>5. \A t \in Streams : t = stream' => call'[t] \notin Live
    BY <1>0, <1>00 DEF Ended, Live
  <2> QED BY <1>0, <2>1, <2>2, <2>3, <2>4, <2>5 DEF IInv, FramesInv
<1>5. FramesAccounted'
  BY <1>0 DEF IInv, FramesAccounted
<1>6. LossInv'
  <2>1. CASE state = "ok"
    <3>1. lost' = lost
      BY <1>0, <2>1, RangeEmpty
    <3>2. Broken => Broken'
      BY <1>00 DEF Broken, Live, Ended
    <3> QED BY <3>1, <3>2 DEF IInv, LossInv
  <2>2. CASE state # "ok"
    BY <2>2, <1>0, <1>00 DEF LossInv, Broken, Ended
  <2> QED BY <2>1, <2>2
<1> QED BY <1>1, <1>2, <1>3, <1>4, <1>5, <1>6 DEF IInv

\* The station ends the stream.
LEMMA StationCloses_Step ==
    ASSUME IInv, StationCloses
    PROVE  IInv'
<1> DEFINE state == IF call[stream] = "half" /\ wire = <<>> THEN "ok" ELSE "closed"
<1>1. EndCall(state) /\ stream > 0 /\ call[stream] \in Live
  BY DEF StationCloses
<1>2. state \in Ended /\ (state = "ok" => call[stream] = "half" /\ wire = <<>>)
  BY DEF Ended
<1>3. UNCHANGED <<block, stopped, put, taken, client, handler, retries, stream, gen,
                  held, newest, received, dropped, responses, commands, published>>
  BY DEF StationCloses, blockVars, threadVars, genVars, netVars, cmdVars
<1>4. /\ responses' \in Seq(Seq(1..MaxCommands))
      /\ commands' \in 0..MaxCommands
      /\ published' \in Seq(1..MaxCommands)
  BY <1>3 DEF IInv, TypeOK
<1> HIDE DEF state
<1> QED BY <1>1, <1>2, <1>3, <1>4, EndCall_Keeps

\* The RPC fails.
LEMMA CallFails_Step ==
    ASSUME IInv, CallFails
    PROVE  IInv'
<1>1. EndCall("failed") /\ stream > 0 /\ call[stream] \in Live /\ "failed" \in Ended
  BY DEF CallFails, Ended
<1>2. UNCHANGED <<block, stopped, put, taken, client, handler, retries, stream, gen,
                  held, newest, received, dropped, commands, published>>
  BY DEF CallFails, blockVars, threadVars, genVars, netVars
<1>3. responses' \in Seq(Seq(1..MaxCommands))
  <2>1. PICK n \in 0..Len(responses) : responses' = Prefix(responses, n)
    BY DEF CallFails
  <2>2. responses \in Seq(Seq(1..MaxCommands))
    BY DEF IInv, TypeOK
  <2> QED BY <2>1, <2>2, PrefixType
<1>4. commands' \in 0..MaxCommands /\ published' \in Seq(1..MaxCommands)
  BY <1>2 DEF IInv, TypeOK
<1> QED BY <1>1, <1>2, <1>3, <1>4, EndCall_Keeps

\* An exception ends the stream thread while it handles a response.
LEMMA HandlerRaises_Step ==
    ASSUME IInv, HandlerRaises
    PROVE  IInv'
<1> USE GroundStationAssumption
<1>1. /\ stream > 0 /\ handler = "reading" /\ handler' = "raised"
      /\ UNCHANGED <<block, stopped, put, taken, client, retries, stream, gen,
                     held, newest, received, dropped, commands>>
      /\ responses # <<>> /\ responses' = <<>>
  BY DEF HandlerRaises, Reading, blockVars, genVars, netVars
<1>2. published' \in Seq(1..MaxCommands)
  <2>1. responses \in Seq(Seq(1..MaxCommands)) /\ published \in Seq(1..MaxCommands)
    BY DEF IInv, TypeOK
  <2>2. Head(responses) \in Seq(1..MaxCommands)
    BY <1>1, <2>1
  <2>3. PICK n \in 0..Len(Head(responses)) :
          published' = published \o Prefix(Head(responses), n)
    BY DEF HandlerRaises
  <2>4. Prefix(Head(responses), n) \in Seq(1..MaxCommands)
    BY <2>2, PrefixType
  <2> QED BY <2>1, <2>3, <2>4
<1>3. responses' \in Seq(Seq(1..MaxCommands)) /\ commands' \in 0..MaxCommands
  BY <1>1 DEF IInv, TypeOK
<1>4. CASE call[stream] \in Live
  <2>1. EndCall("failed") /\ "failed" \in Ended
    BY <1>4 DEF HandlerRaises, Ended
  <2> QED BY <1>1, <1>2, <1>3, <1>4, <2>1, EndCall_Keeps
<1>5. CASE call[stream] \notin Live
  <2>0. UNCHANGED <<call, wire, lost>>
    BY <1>5 DEF HandlerRaises
  <2>1. TypeOK'
    BY <1>1, <1>2, <1>3, <2>0 DEF IInv, TypeOK
  <2>2. StreamsInv'
    BY <1>1, <2>0 DEF IInv, StreamsInv
  <2>3. GenInv' /\ FramesAccounted' /\ LossInv'
    BY <1>1, <2>0 DEF IInv, GenInv, FramesAccounted, LossInv, Broken
  <2>4. FramesInv'
    BY <1>1, <2>0 DEF IInv, FramesInv
  <2> QED BY <2>1, <2>2, <2>3, <2>4 DEF IInv
<1> QED BY <1>4, <1>5

\* The station reads the oldest frame on the wire.
LEMMA StationReads_Step ==
    ASSUME IInv, StationReads
    PROVE  IInv'
<1> USE GroundStationAssumption
<1>0. /\ stream > 0 /\ call[stream] \in Live /\ wire # <<>>
      /\ received' = received \cup {Head(wire)}
      /\ newest' = Head(wire)
      /\ wire' = Tail(wire)
      /\ UNCHANGED <<block, stopped, put, taken, client, handler, retries, stream,
                     call, gen, held, lost, dropped, responses, commands, published>>
  BY DEF StationReads, blockVars, threadVars, genVars, cmdVars
<1>w. wire \in Seq(Frames) /\ wire \in Seq(Nat) /\ Increasing(wire)
  BY DEF IInv, TypeOK, FramesInv, Frames
<1>r. /\ Range(wire) = {Head(wire)} \cup Range(wire')
      /\ Increasing(wire')
      /\ \A i \in Range(wire') : Head(wire) < i
  BY <1>0, <1>w, RangeTail
<1>t. Head(wire) \in Frames /\ wire' \in Seq(Frames)
  BY <1>0, <1>w
<1>1. TypeOK'
  <2>1. received' \in SUBSET Frames
    BY <1>0, <1>t DEF IInv, TypeOK
  <2>2. newest' \in 0..MaxFrames
    BY <1>0, <1>t DEF Frames
  <2> QED BY <1>0, <1>t, <2>1, <2>2 DEF IInv, TypeOK
<1>2. StreamsInv'
  BY <1>0 DEF IInv, StreamsInv
<1>3. GenInv'
  BY <1>0 DEF IInv, GenInv
<1>4. FramesInv'
  <2>1. /\ Head(wire) > newest /\ Head(wire) <= taken /\ Head(wire) \notin lost
    BY <1>r DEF IInv, FramesInv
  <2>2. received' \cap lost' = {}
    BY <1>0, <2>1 DEF IInv, FramesInv
  <2>3. \A i \in received' : i <= newest'
    <3>1. received \subseteq Nat /\ newest \in Nat /\ Head(wire) \in Nat
      BY <1>t DEF IInv, TypeOK, Frames
    <3> QED BY <1>0, <2>1, <3>1 DEF IInv, FramesInv
  <2>4. \A s \in Streams : held'[s] # 0 =>
          held'[s] \notin received' \cup lost' \cup Range(wire')
    BY <1>0, <1>r DEF IInv, FramesInv
  <2>5. \A i \in Range(wire') : i > newest' /\ i <= taken' /\ i \notin lost'
    BY <1>0, <1>r, <1>t DEF IInv, FramesInv, Frames
  <2>6. \A s \in Streams : s = stream' /\ held'[s] # 0 /\ call'[s] \in Live =>
          held'[s] > newest' /\ \A i \in Range(wire') : i < held'[s]
    BY <1>0, <1>r DEF IInv, FramesInv
  <2> QED BY <1>0, <1>r, <2>1, <2>2, <2>3, <2>4, <2>5, <2>6 DEF IInv, FramesInv
<1>5. FramesAccounted'
  BY <1>0, <1>r DEF IInv, FramesAccounted
<1>6. LossInv'
  BY <1>0 DEF IInv, LossInv, Broken
<1> QED BY <1>1, <1>2, <1>3, <1>4, <1>5, <1>6 DEF IInv

\* Every step of the specification keeps the invariant.
LEMMA NextIInv == IInv /\ [Next]_vars => IInv'
<1> SUFFICES ASSUME IInv, [Next]_vars PROVE IInv'
  OBVIOUS
<1>1. CASE start
  BY <1>1, start_Step
<1>2. CASE msg_handler \/ StartRaises
  BY <1>2, msg_handler_Step, StartRaises_Step
<1>3. CASE stop
  BY <1>3, stop_Step
<1>4. CASE StopReturned
  BY <1>4, StopReturned_Step
<1>5. ASSUME NEW s \in Streams, GenStep(s) PROVE IInv'
  <2>1. CASE GenFirst(s)
    BY <2>1, GenFirst_Step
  <2>2. CASE GenTestStopped(s)
    BY <2>2, GenTestStopped_Step
  <2>3. CASE GenTimeout(s)
    BY <2>3, GenTimeout_Step
  <2>4. CASE GenGet(s)
    BY <2>4, Take_Step DEF GenGet
  <2>5. CASE GenYield(s)
    BY <2>5, HandOver_Step DEF GenYield
  <2>6. CASE GenTestEmpty(s)
    BY <2>6, GenTestEmpty_Step
  <2>7. CASE GenDrainGet(s)
    BY <2>7, Take_Step DEF GenDrainGet
  <2>8. CASE GenDrainYield(s)
    BY <2>8, HandOver_Step DEF GenDrainYield
  <2> QED BY <1>5, <2>1, <2>2, <2>3, <2>4, <2>5, <2>6, <2>7, <2>8 DEF GenStep
<1>6. CASE StationReads
  BY <1>6, StationReads_Step
<1>7. ASSUME NEW n \in 0..MaxCommands, StationSends(n) PROVE IInv'
  BY <1>7, StationSends_Step
<1>8. CASE StationCloses
  BY <1>8, StationCloses_Step
<1>9. CASE CallFails
  BY <1>9, CallFails_Step
<1>10. CASE HandlerStep
  BY <1>10, PublishCommands_Step, StreamEnds_Step, GiveUp_Step, Retry_Step
     DEF HandlerStep
<1>11. CASE RetryRaises
  BY <1>11, RetryRaises_Step
<1>12. CASE HandlerRaises
  BY <1>12, HandlerRaises_Step
<1>13. CASE UNCHANGED vars
  <2>1. TypeOK' /\ StreamsInv'
    BY <1>13 DEF IInv, TypeOK, StreamsInv, vars
  <2>2. GenInv' /\ FramesAccounted' /\ LossInv'
    BY <1>13 DEF IInv, GenInv, FramesAccounted, LossInv, Broken, vars
  <2>3. FramesInv'
    BY <1>13 DEF IInv, FramesInv, vars
  <2> QED BY <2>1, <2>2, <2>3 DEF IInv
<1> QED BY <1>1, <1>2, <1>3, <1>4, <1>5, <1>6, <1>7, <1>8, <1>9, <1>10, <1>11,
           <1>12, <1>13 DEF Next

\* The inductive invariant holds in every reachable state.
THEOREM Invariance == Spec => []IInv
<1>1. IInv /\ [Next]_vars => IInv'
  BY NextIInv
<1> QED BY <1>1, InitIInv, PTL DEF Spec

-----------------------------------------------------------------------------
(* The theorems.                                                           *)

\* Types; the streams opened never exceed MAX_RETRY_ATTEMPTS + 1.
THEOREM TypeCorrect == Spec => []TypeOK
<1>1. IInv => TypeOK
  BY DEF IInv
<1> QED BY <1>1, Invariance, PTL

\* No frame taken off the queue is forgotten, however streams fail and
\* generators of several streams interleave.
THEOREM NoFrameForgotten == Spec => []FramesAccounted
<1>1. IInv => FramesAccounted
  BY DEF IInv
<1> QED BY <1>1, Invariance, PTL

\* A stream that does not break delivers every frame, the drained ones too,
\* before the stream thread ends.
THEOREM CleanStreamComplete == Spec => []CleanStreamDeliversAll
<1>1. IInv => CleanStreamDeliversAll
  <2> SUFFICES ASSUME IInv, handler = "done", ~Broken
               PROVE  received = 1..put /\ lost = {}
    BY DEF CleanStreamDeliversAll
  <2> USE GroundStationAssumption
  <2>1. stream \in Streams /\ call[stream] \in Ended
    BY DEF IInv, TypeOK, StreamsInv, Streams
  <2>2. call[stream] = "ok"
    BY <2>1 DEF Broken, Ended
  <2>3. stream = 1
    <3>1. CASE stream > 1
      <4>1. 1 \in Streams /\ 1 < stream
        BY <2>1, <3>1 DEF Streams
      <4>2. call[1] = "failed"
        BY <4>1 DEF IInv, StreamsInv
      <4> QED BY <4>1, <4>2 DEF Broken
    <3> QED BY <2>1, <3>1 DEF Streams
  <2>4. gen[stream] = "done" /\ taken = put
    BY <2>1, <2>2 DEF IInv, GenInv
  <2>5. \A s \in Streams : held[s] = 0
    <3> SUFFICES ASSUME NEW s \in Streams PROVE held[s] = 0
      OBVIOUS
    <3>1. s = stream \/ s > stream
      BY <2>3 DEF Streams
    <3>2. gen[s] \notin {"yield", "drainyield"}
      BY <3>1, <2>4 DEF IInv, StreamsInv
    <3> QED BY <3>2 DEF IInv, GenInv
  <2>6. Range(wire) = {}
    <3>1. wire = <<>>
      BY <2>2 DEF IInv, FramesInv, Live
    <3> QED BY <3>1, RangeEmpty
  <2>7. lost = {}
    BY DEF IInv, LossInv
  <2>8. {held[s] : s \in {q \in Streams : held[q] # 0}} = {}
    BY <2>5
  <2> QED BY <2>4, <2>6, <2>7, <2>8 DEF IInv, FramesAccounted
<1> QED BY <1>1, Invariance, PTL

\* A stream that ended costs at most one more frame of the queue.
THEOREM EndedStreamTakesOne == Spec => []OneFramePerStream
<1> DEFINE Once == \A s \in Streams : \A i, j \in Frames :
                     <<s, i>> \in dropped /\ <<s, j>> \in dropped => i = j
<1>1. Init => Once
  BY DEF Init
<1>2. ASSUME IInv, Once, [Next]_vars PROVE Once'
  <2>1. CASE UNCHANGED dropped
    BY <1>2, <2>1
  <2>2. ASSUME NEW s \in Streams, NEW from \in {"yield", "drainyield"}, NEW to,
               HandOver(s, from, to)
        PROVE  Once'
    <3>1. gen[s] = from
      BY <2>2 DEF HandOver, GenMoves
    <3>2. \A i \in Frames : <<s, i>> \notin dropped
      BY <1>2, <3>1 DEF IInv, GenInv
    <3>3. dropped' = dropped \/ dropped' = dropped \cup {<<s, held[s]>>}
      BY <2>2 DEF HandOver
    <3> QED BY <1>2, <3>2, <3>3
  <2>3. ASSUME NEW s \in Streams, GenStep(s), ~GenYield(s), ~GenDrainYield(s)
        PROVE  UNCHANGED dropped
    BY <2>3 DEF GenStep, GenFirst, GenTestStopped, GenTimeout, GenGet, GenDrainGet,
                Take, GenTestEmpty
  <2>4. ASSUME NEW s \in Streams, GenStep(s) PROVE Once'
    <3>1. CASE GenYield(s)
      BY <3>1, <2>2 DEF GenYield
    <3>2. CASE GenDrainYield(s)
      BY <3>2, <2>2 DEF GenDrainYield
    <3> QED BY <2>1, <2>3, <2>4, <3>1, <3>2
  <2>5. \/ \E s \in Streams : GenStep(s)
        \/ UNCHANGED dropped
    BY <1>2 DEF Next, vars, start, StartRaises, msg_handler, stop, StopReturned, StationReads,
       StationSends, StationCloses, CallFails, HandlerStep, PublishCommands,
       StreamEnds, GiveUp, Retry, RetryRaises, HandlerRaises
  <2> QED BY <2>1, <2>4, <2>5
<1>3. Once => OneFramePerStream
  BY DEF OneFramePerStream
<1> HIDE DEF Once
<1>4. IInv /\ Once /\ [Next]_vars => Once'
  BY <1>2
<1> QED BY <1>1, <1>3, <1>4, Invariance, PTL DEF Spec

\* With a single stream the drain never blocks.
THEOREM DrainBlocks == Spec => []DrainBlocksOnlyAfterRetry
<1>1. IInv => DrainBlocksOnlyAfterRetry
  <2> SUFFICES ASSUME IInv, NEW s \in Streams, gen[s] = "drain", taken = put
               PROVE  stream > 1
    BY DEF DrainBlocksOnlyAfterRetry
  <2>1. stream # 1
    BY DEF IInv, TypeOK, GenInv
  <2>2. s <= stream
    BY DEF IInv, TypeOK, StreamsInv, Streams
  <2> QED BY <2>1, <2>2, GroundStationAssumption DEF IInv, TypeOK, Streams
<1> QED BY <1>1, Invariance, PTL

\* The block implements the outbox: initial states.
LEMMA OutboxInit == Init => Outbox!Init
BY DEF Init, Outbox!Init

\* Frames that are held or on the wire are pending in the outbox.
LEMMA PendingFrames ==
    ASSUME IInv
    PROVE  /\ \A s \in Streams : held[s] # 0 => held[s] \in Outbox!Pending
           /\ Range(wire) \subseteq Outbox!Pending
           /\ \A i \in Range(wire) : i > newest
<1> USE GroundStationAssumption
<1>1. taken \in Nat /\ put \in Nat /\ taken <= put /\ newest \in Nat
  BY DEF IInv, TypeOK
<1>2. Range(wire) \subseteq Frames /\ received \subseteq Frames
  BY RangeType DEF IInv, TypeOK
<1>3. \A s \in Streams : held[s] # 0 => held[s] \in 1..put
  BY <1>1 DEF IInv, TypeOK, FramesInv
<1>4. \A i \in Range(wire) : i \in 1..put /\ i > newest /\ i \notin received /\ i \notin lost
  BY <1>1, <1>2 DEF IInv, FramesInv, Frames
<1> QED BY <1>3, <1>4 DEF IInv, FramesInv, Outbox!Pending

\* Every step of the block is a step of the outbox or leaves it unchanged.
LEMMA OutboxStep == IInv /\ [Next]_vars => [Outbox!Next]_(Outbox!vars)
<1> SUFFICES ASSUME IInv, [Next]_vars PROVE [Outbox!Next]_(Outbox!vars)
  OBVIOUS
<1> DEFINE Same == UNCHANGED <<put, newest, received, lost>>
<1>s. Same => [Outbox!Next]_(Outbox!vars)
  BY DEF Outbox!vars
<1>e. ASSUME NEW state, EndCall(state), UNCHANGED <<put, newest, received>>
      PROVE  Outbox!Next
  <2>1. Outbox!Lose(Range(wire))
    BY <1>e, PendingFrames DEF EndCall, Outbox!Lose
  <2> QED BY <2>1, PendingFrames DEF Outbox!Next
<1>h. ASSUME NEW s \in Streams, NEW from \in {"yield", "drainyield"}, NEW to,
             HandOver(s, from, to)
      PROVE  [Outbox!Next]_(Outbox!vars)
  <2>1. UNCHANGED <<put, newest, received>> /\ gen[s] = from
    BY <1>h DEF HandOver, GenMoves, blockVars, netVars
  <2>2. held[s] \in Outbox!Pending
    BY <2>1, PendingFrames DEF IInv, GenInv
  <2>3. lost' = lost \/ lost' = lost \cup {held[s]}
    BY <1>h DEF HandOver
  <2>4. CASE lost' = lost
    BY <2>1, <2>4, <1>s
  <2>5. CASE lost' = lost \cup {held[s]}
    <3>1. Outbox!Lose({held[s]})
      BY <2>1, <2>2, <2>5 DEF Outbox!Lose
    <3>2. {held[s]} \in SUBSET Outbox!Pending
      BY <2>2
    <3> QED BY <3>1, <3>2 DEF Outbox!Next
  <2> QED BY <2>3, <2>4, <2>5
<1>1. CASE msg_handler
  BY <1>1 DEF msg_handler, netVars, Outbox!Next, Outbox!Accept
<1>2. ASSUME NEW s \in Streams, GenStep(s) PROVE [Outbox!Next]_(Outbox!vars)
  <2>1. CASE GenYield(s)
    BY <2>1, <1>h DEF GenYield
  <2>2. CASE GenDrainYield(s)
    BY <2>2, <1>h DEF GenDrainYield
  <2>3. CASE ~GenYield(s) /\ ~GenDrainYield(s)
    <3>1. Same
      BY <1>2, <2>3 DEF GenStep, GenFirst, GenTestStopped, GenTimeout, GenGet,
         GenDrainGet, Take, GenTestEmpty, GenMoves, blockVars, netVars
    <3> QED BY <3>1, <1>s
  <2> QED BY <2>1, <2>2, <2>3
<1>3. CASE StationReads
  <2>1. wire \in Seq(Frames) /\ wire # <<>> /\ Len(wire) > 0
    BY <1>3 DEF StationReads, IInv, TypeOK
  <2>2. Head(wire) \in Range(wire)
    BY <2>1 DEF Range
  <2>3. Outbox!Deliver(Head(wire))
    BY <1>3, <2>2, PendingFrames DEF StationReads, blockVars, Outbox!Deliver
  <2> QED BY <2>2, <2>3, PendingFrames DEF Outbox!Next
<1>4. CASE StationCloses
  BY <1>4, <1>e DEF StationCloses, blockVars, netVars
<1>5. CASE CallFails
  BY <1>5, <1>e DEF CallFails, blockVars, netVars
<1>6. CASE HandlerRaises
  <2>1. UNCHANGED <<put, newest, received>>
    BY <1>6 DEF HandlerRaises, blockVars, netVars
  <2>2. CASE call[stream] \in Live
    BY <1>6, <1>e, <2>1, <2>2 DEF HandlerRaises
  <2>3. CASE call[stream] \notin Live
    BY <1>6, <1>s, <2>1, <2>3 DEF HandlerRaises
  <2> QED BY <2>2, <2>3
<1>7. \/ msg_handler \/ StationReads \/ StationCloses \/ CallFails \/ HandlerRaises
      \/ \E s \in Streams : GenStep(s)
      \/ Same
  BY DEF Next, vars, start, StartRaises, stop, StopReturned, StationSends, HandlerStep,
     PublishCommands, StreamEnds, GiveUp, Retry, RetryRaises, blockVars, netVars
<1> QED BY <1>s, <1>1, <1>2, <1>3, <1>4, <1>5, <1>6, <1>7

\* Telemetry is delivered at most once and in order, whatever fails.
THEOREM ImplementsOutbox == Spec => OutboxSpec
<1>1. IInv /\ [Next]_vars => [Outbox!Next]_(Outbox!vars)
  BY OutboxStep
<1> QED BY <1>1, OutboxInit, Invariance, PTL DEF Spec, OutboxSpec, Outbox!Spec

-----------------------------------------------------------------------------
(* Commands.                                                               *)

\* The responses rs carry consecutive commands: c[k] is the last command sent
\* before response k, and none is beyond top.
Slices(c, rs, top) ==
    /\ c \in [1..(Len(rs) + 1) -> 0..top]
    /\ \A k \in 1..Len(rs) :
          /\ c[k + 1] = c[k] + Len(rs[k])
          /\ \A i \in 1..Len(rs[k]) : rs[k][i] = c[k] + i

\* The responses in flight follow what was published; they reach to the last
\* command sent unless their stream failed, and begin with the first command
\* not published unless some stream broke or an exception ended the thread.
CommandsInv ==
    /\ Increasing(published)
    /\ handler = "done" => responses = <<>>
    /\ \E c \in [1..(Len(responses) + 1) -> 0..commands] :
          /\ Slices(c, responses, commands)
          /\ \A p \in 1..Len(published) : published[p] <= c[1]
          /\ stream = 0 \/ call[stream] # "failed" =>
                c[Len(responses) + 1] = commands
          /\ ~Broken /\ handler # "raised" => Len(published) = c[1]
\* What a sequence holds is in the set it is a sequence of.
LEMMA ElementType ==
    ASSUME NEW S, NEW s \in Seq(S), NEW i \in 1..Len(s)
    PROVE  s[i] \in S
OBVIOUS

\* Nothing in flight.
LEMMA SlicesEmpty ==
    ASSUME NEW top \in Nat, NEW x \in 0..top
    PROVE  LET c == [k \in 1..1 |-> x]
           IN Slices(c, <<>>, top) /\ c \in [1..(Len(<<>>) + 1) -> 0..top]
<1> DEFINE c == [k \in 1..1 |-> x]
<1>1. Len(<<>>) = 0
  OBVIOUS
<1>2. c \in [1..1 -> 0..top]
  OBVIOUS
<1> HIDE DEF c
<1>3. Slices(c, <<>>, top) /\ c \in [1..(Len(<<>>) + 1) -> 0..top]
  BY <1>1, <1>2 DEF Slices
<1> QED BY <1>3 DEF c

\* A response with the n commands after the last one.
LEMMA SlicesAppend ==
    ASSUME NEW S, NEW rs \in Seq(Seq(S)), NEW top \in Nat, NEW n \in Nat, NEW c,
           Slices(c, rs, top), c[Len(rs) + 1] = top,
           NEW r \in Seq(S), Len(r) = n, \A i \in 1..n : r[i] = top + i
    PROVE  \E d \in [1..(Len(Append(rs, r)) + 1) -> 0..(top + n)] :
              /\ Slices(d, Append(rs, r), top + n)
              /\ d[1] = c[1] /\ d[Len(Append(rs, r)) + 1] = top + n
<1> DEFINE rt == Append(rs, r)
           d == [k \in 1..(Len(rt) + 1) |-> IF k = Len(rs) + 2 THEN top + n ELSE c[k]]
<1>3. /\ Len(rs) \in Nat /\ Len(rt) = Len(rs) + 1 /\ rt[Len(rs) + 1] = r
      /\ \A k \in 1..Len(rs) : rt[k] = rs[k]
  OBVIOUS
<1> HIDE DEF rt
<1>4. /\ \A k \in 1..(Len(rs) + 1) : d[k] = c[k] /\ c[k] \in 0..top
      /\ d[Len(rs) + 2] = top + n
  <2>1. \A k \in 1..(Len(rs) + 1) : k # Len(rs) + 2 /\ k \in 1..(Len(rt) + 1)
    BY <1>3
  <2>2. Len(rs) + 2 \in 1..(Len(rt) + 1)
    BY <1>3
  <2>3. \A k \in 1..(Len(rs) + 1) : c[k] \in 0..top
    BY DEF Slices
  <2>4. \A k \in 1..(Len(rs) + 1) : d[k] = c[k]
    BY <2>1
  <2>5. d[Len(rs) + 2] = top + n
    BY <2>2
  <2> QED BY <2>3, <2>4, <2>5
<1>5. d \in [1..(Len(rt) + 1) -> 0..(top + n)]
  <2>1. ASSUME NEW k \in 1..(Len(rt) + 1)
        PROVE  (IF k = Len(rs) + 2 THEN top + n ELSE c[k]) \in 0..(top + n)
    <3>1. CASE k = Len(rs) + 2
      BY <3>1
    <3>2. CASE k # Len(rs) + 2
      <4>1. k \in 1..(Len(rs) + 1)
        BY <1>3, <3>2
      <4>2. c[k] \in 0..top
        BY <1>4, <4>1
      <4> QED BY <3>2, <4>2
    <3> QED BY <3>1, <3>2
  <2> QED BY <2>1
<1> HIDE DEF d
<1>6. ASSUME NEW k \in 1..Len(rt)
      PROVE  /\ d[k + 1] = d[k] + Len(rt[k])
             /\ \A i \in 1..Len(rt[k]) : rt[k][i] = d[k] + i
  <2>1. CASE k \in 1..Len(rs)
    <3>1. rt[k] = rs[k] /\ d[k] = c[k] /\ d[k + 1] = c[k + 1]
      BY <1>3, <1>4, <2>1
    <3>2. /\ c[k + 1] = c[k] + Len(rs[k])
          /\ \A i \in 1..Len(rs[k]) : rs[k][i] = c[k] + i
      BY <2>1 DEF Slices
    <3> QED BY <3>1, <3>2
  <2>2. CASE k = Len(rs) + 1
    <3>1. Len(rs) + 1 \in 1..(Len(rs) + 1) /\ (Len(rs) + 1) + 1 = Len(rs) + 2
      BY <1>3
    <3>2. d[Len(rs) + 1] = top
      BY <1>4, <3>1
    <3>3. rt[k] = r /\ d[k] = top /\ d[k + 1] = top + n
      BY <1>3, <1>4, <2>2, <3>1, <3>2
    <3> QED BY <3>3
  <2> QED BY <1>3, <2>1, <2>2
<1>7. Slices(d, rt, top + n)
  BY <1>5, <1>6 DEF Slices
<1>8. d[1] = c[1] /\ d[Len(rt) + 1] = top + n
  BY <1>3, <1>4
<1> QED BY <1>5, <1>7, <1>8 DEF rt

\* The responses after the first.
LEMMA SlicesTail ==
    ASSUME NEW S, NEW rs \in Seq(Seq(S)), rs # <<>>, NEW top \in Nat, NEW c,
           Slices(c, rs, top)
    PROVE  LET rt == Tail(rs)
               d == [k \in 1..(Len(rt) + 1) |-> c[k + 1]]
           IN /\ Slices(d, rt, top)
              /\ d[1] = c[2] /\ d[Len(rt) + 1] = c[Len(rs) + 1]
<1> DEFINE rt == Tail(rs)
           d == [k \in 1..(Len(rt) + 1) |-> c[k + 1]]
<1>1. /\ Len(rs) \in Nat /\ Len(rs) > 0 /\ Len(rt) = Len(rs) - 1
      /\ \A k \in 1..Len(rt) : rt[k] = rs[k + 1]
  OBVIOUS
<1> HIDE DEF rt
<1>2. \A k \in 1..(Len(rt) + 1) : k + 1 \in 1..(Len(rs) + 1) /\ d[k] = c[k + 1]
  BY <1>1
<1>3. d \in [1..(Len(rt) + 1) -> 0..top]
  BY <1>1, <1>2 DEF Slices
<1> HIDE DEF d
<1>4. ASSUME NEW k \in 1..Len(rt)
      PROVE  /\ d[k + 1] = d[k] + Len(rt[k])
             /\ \A i \in 1..Len(rt[k]) : rt[k][i] = d[k] + i
  <2>1. k + 1 \in 1..Len(rs) /\ k \in 1..(Len(rt) + 1) /\ k + 1 \in 1..(Len(rt) + 1)
    BY <1>1
  <2>2. rt[k] = rs[k + 1] /\ d[k] = c[k + 1] /\ d[k + 1] = c[(k + 1) + 1]
    BY <1>1, <1>2, <2>1
  <2>3. /\ c[(k + 1) + 1] = c[k + 1] + Len(rs[k + 1])
        /\ \A i \in 1..Len(rs[k + 1]) : rs[k + 1][i] = c[k + 1] + i
    BY <2>1 DEF Slices
  <2> QED BY <2>2, <2>3
<1>5. Slices(d, rt, top)
  BY <1>3, <1>4 DEF Slices
<1>6. d[1] = c[2] /\ d[Len(rt) + 1] = c[Len(rs) + 1]
  <2>1. 1 \in 1..(Len(rt) + 1) /\ Len(rt) + 1 \in 1..(Len(rt) + 1)
        /\ (Len(rt) + 1) + 1 = Len(rs) + 1
    BY <1>1
  <2> QED BY <1>2, <2>1
<1> QED BY <1>5, <1>6 DEF d, rt

\* The first n responses.
LEMMA SlicesPrefix ==
    ASSUME NEW S, NEW rs \in Seq(Seq(S)), NEW n \in 0..Len(rs), NEW top \in Nat, NEW c,
           Slices(c, rs, top)
    PROVE  LET rt == Prefix(rs, n)
               d == [k \in 1..(Len(rt) + 1) |-> c[k]]
           IN Slices(d, rt, top) /\ d[1] = c[1]
<1> DEFINE rt == Prefix(rs, n)
           d == [k \in 1..(Len(rt) + 1) |-> c[k]]
<1>1. Len(rs) \in Nat /\ Len(rt) = n /\ \A k \in 1..Len(rt) : rt[k] = rs[k]
  BY DEF Prefix
<1> HIDE DEF rt
<1>2. \A k \in 1..(Len(rt) + 1) : k \in 1..(Len(rs) + 1) /\ d[k] = c[k]
  BY <1>1
<1>3. d \in [1..(Len(rt) + 1) -> 0..top]
  BY <1>1, <1>2 DEF Slices
<1> HIDE DEF d
<1>4. ASSUME NEW k \in 1..Len(rt)
      PROVE  /\ d[k + 1] = d[k] + Len(rt[k])
             /\ \A i \in 1..Len(rt[k]) : rt[k][i] = d[k] + i
  <2>1. k \in 1..Len(rs) /\ k \in 1..(Len(rt) + 1) /\ k + 1 \in 1..(Len(rt) + 1)
    BY <1>1
  <2>2. rt[k] = rs[k] /\ d[k] = c[k] /\ d[k + 1] = c[k + 1]
    BY <1>1, <1>2, <2>1
  <2>3. /\ c[k + 1] = c[k] + Len(rs[k])
        /\ \A i \in 1..Len(rs[k]) : rs[k][i] = c[k] + i
    BY <2>1 DEF Slices
  <2> QED BY <2>2, <2>3
<1>5. Slices(d, rt, top) /\ d[1] = c[1]
  BY <1>1, <1>2, <1>3, <1>4 DEF Slices
<1> QED BY <1>5 DEF d, rt

\* Publishing the first n commands that follow those already published.
LEMMA IncreasingConcat ==
    ASSUME NEW S, S \subseteq Nat, NEW s \in Seq(S), NEW t \in Seq(S), NEW n \in 0..Len(t),
           NEW x \in Nat, Increasing(s), \A i \in 1..Len(s) : s[i] <= x,
           \A i \in 1..Len(t) : t[i] = x + i
    PROVE  LET u == s \o Prefix(t, n)
           IN /\ Increasing(u) /\ Len(u) = Len(s) + n
              /\ \A i \in 1..Len(u) : u[i] <= x + n
<1> DEFINE u == s \o Prefix(t, n)
<1>0. Len(s) \in Nat /\ Len(t) \in Nat /\ n \in Nat
  OBVIOUS
<1>1. /\ Prefix(t, n) \in Seq(S) /\ Len(Prefix(t, n)) = n
      /\ \A i \in 1..n : Prefix(t, n)[i] = x + i
  BY DEF Prefix
<1>2. /\ Len(u) = Len(s) + n
      /\ \A i \in 1..Len(s) : u[i] = s[i]
      /\ \A i \in (Len(s) + 1)..Len(u) : u[i] = x + (i - Len(s))
  <2> DEFINE p == Prefix(t, n)
  <2> HIDE DEF p
  <2>1. p \in Seq(S) /\ Len(p) = n /\ \A i \in 1..n : p[i] = x + i
    BY <1>1 DEF p
  <2>2. Len(s \o p) = Len(s) + n
    <3>1. p \in Seq(S)
      BY <2>1
    <3>2. Len(s \o p) = Len(s) + Len(p)
      BY <3>1
    <3> QED BY <2>1, <3>2
  <2>3. \A i \in 1..Len(s) : (s \o p)[i] = s[i]
    BY <2>1, <1>0
  <2>4. \A i \in (Len(s) + 1)..(Len(s) + n) : (s \o p)[i] = p[i - Len(s)]
    BY <2>1, <1>0
  <2>5. \A i \in (Len(s) + 1)..(Len(s) + n) : i - Len(s) \in 1..n
    BY <1>0
  <2> QED BY <2>1, <2>2, <2>3, <2>4, <2>5 DEF p
<1> HIDE DEF u
<1>3. \A i \in 1..Len(s) : s[i] \in Nat
  <2>1. \A i \in 1..Len(s) : s[i] \in S
    OBVIOUS
  <2> QED BY <2>1
<1>4. ASSUME NEW i \in 1..Len(u), NEW j \in 1..Len(u), i < j PROVE u[i] < u[j]
  <2>1. CASE j \in 1..Len(s)
    <3>1. i \in 1..Len(s)
      BY <1>0, <1>4, <2>1
    <3>2. s[i] < s[j]
      BY <1>4, <2>1, <3>1 DEF Increasing
    <3> QED BY <1>2, <2>1, <3>1, <3>2
  <2>2. CASE i \in 1..Len(s) /\ j \in (Len(s) + 1)..Len(u)
    <3>1. u[i] \in Nat /\ u[i] <= x /\ u[j] = x + (j - Len(s))
      BY <1>2, <1>3, <2>2
    <3> QED BY <1>0, <2>2, <3>1
  <2>3. CASE i \in (Len(s) + 1)..Len(u) /\ j \in (Len(s) + 1)..Len(u)
    <3>1. u[i] = x + (i - Len(s)) /\ u[j] = x + (j - Len(s))
      BY <1>2, <2>3
    <3> QED BY <1>0, <1>4, <3>1
  <2> QED BY <1>0, <1>2, <1>4, <2>1, <2>2, <2>3
<1>5. ASSUME NEW i \in 1..Len(u) PROVE u[i] <= x + n
  <2>1. CASE i \in 1..Len(s)
    BY <1>0, <1>2, <1>3, <2>1
  <2>2. CASE i \in (Len(s) + 1)..Len(u)
    BY <1>0, <1>2, <2>2
  <2> QED BY <1>0, <1>2, <2>1, <2>2
<1>6. Increasing(u)
  BY <1>4 DEF Increasing
<1> QED BY <1>2, <1>5, <1>6 DEF u

\* CommandsInv and what it says of the responses in flight, with its witness.
Follows(c) ==
    /\ Slices(c, responses, commands)
    /\ \A p \in 1..Len(published) : published[p] <= c[1]
    /\ stream = 0 \/ call[stream] # "failed" => c[Len(responses) + 1] = commands
    /\ ~Broken /\ handler # "raised" => Len(published) = c[1]

\* A step that moves neither responses nor commands, and mends no stream.
LEMMA CommandsKept ==
    ASSUME CommandsInv, UNCHANGED <<responses, commands, published>>,
           stream' = 0 \/ call'[stream'] # "failed" => stream = 0 \/ call[stream] # "failed",
           ~Broken' /\ handler' # "raised" => ~Broken /\ handler # "raised",
           handler' = "done" => handler = "done" \/ responses = <<>>
    PROVE  CommandsInv'
<1>1. PICK c \in [1..(Len(responses) + 1) -> 0..commands] : Follows(c)
  BY DEF CommandsInv, Follows
<1>2. /\ Slices(c, responses', commands')
      /\ \A p \in 1..Len(published') : published'[p] <= c[1]
      /\ stream' = 0 \/ call'[stream'] # "failed" => c[Len(responses') + 1] = commands'
      /\ ~Broken' /\ handler' # "raised" => Len(published') = c[1]
  BY <1>1 DEF Follows
<1>3. c \in [1..(Len(responses') + 1) -> 0..commands']
  OBVIOUS
<1>4. Increasing(published') /\ (handler' = "done" => responses' = <<>>)
  BY DEF CommandsInv
<1> QED BY <1>2, <1>3, <1>4 DEF CommandsInv, Slices, Increasing

\* The ways to leave nothing in flight behind a stream that failed, or after
\* the thread has ended.
LEMMA CommandsCleared ==
    ASSUME commands' \in Nat, responses' = <<>>, Increasing(published'),
           \A p \in 1..Len(published') : published'[p] <= commands',
           Broken' \/ handler' = "raised"
    PROVE  CommandsInv'
<1> DEFINE c == [k \in 1..1 |-> commands']
<1>1. commands' \in 0..commands'
  OBVIOUS
<1>2. Slices(c, <<>>, commands') /\ c \in [1..(Len(<<>>) + 1) -> 0..commands']
  BY <1>1, SlicesEmpty
<1>3. c[1] = commands' /\ Len(responses') + 1 = 1
  OBVIOUS
<1> HIDE DEF c
<1>4. /\ Slices(c, responses', commands')
      /\ c \in [1..(Len(responses') + 1) -> 0..commands']
      /\ \A p \in 1..Len(published') : published'[p] <= c[1]
      /\ c[Len(responses') + 1] = commands'
      /\ ~Broken' /\ handler' # "raised" => Len(published') = c[1]
  BY <1>2, <1>3
<1> QED BY <1>4 DEF CommandsInv, Slices, Increasing

\* The types the steps use.
LEMMA CommandTypes ==
    ASSUME IInv
    PROVE  /\ commands \in Nat
           /\ responses \in Seq(Seq(1..MaxCommands)) /\ published \in Seq(1..MaxCommands)
BY GroundStationAssumption DEF IInv, TypeOK

\* The station sends the next n commands on a stream that has not failed.
LEMMA StationSends_Commands ==
    ASSUME IInv, CommandsInv, NEW n \in 0..MaxCommands, StationSends(n)
    PROVE  CommandsInv'
<1> USE GroundStationAssumption
<1>0. /\ responses \in Seq(Seq(1..MaxCommands)) /\ commands \in Nat
      /\ call[stream] # "failed" /\ handler # "done" /\ n \in Nat
      /\ commands' = commands + n
      /\ UNCHANGED <<published, stream, call, handler>>
  BY CommandTypes DEF StationSends, Live, Ended, IInv, StreamsInv, threadVars
<1> DEFINE r == [i \in 1..n |-> commands + i]
<1>1. /\ responses' = Append(responses, r)
      /\ r \in Seq(1..MaxCommands) /\ Len(r) = n
      /\ \A i \in 1..n : r[i] = commands + i
  <2>1. \A i \in 1..n : commands + i \in 1..MaxCommands
    BY <1>0 DEF StationSends
  <2>2. r \in Seq(1..MaxCommands) /\ Len(r) = n
    BY <1>0, <2>1
  <2> QED BY <2>2 DEF StationSends
<1> HIDE DEF r
<1>2. PICK c \in [1..(Len(responses) + 1) -> 0..commands] : Follows(c)
  BY DEF CommandsInv, Follows
<1>3. c[Len(responses) + 1] = commands /\ Slices(c, responses, commands)
  BY <1>0, <1>2 DEF Follows
<1> DEFINE rt == Append(responses, r)
<1>4. PICK d \in [1..(Len(rt) + 1) -> 0..(commands + n)] :
         /\ Slices(d, rt, commands + n)
         /\ d[1] = c[1] /\ d[Len(rt) + 1] = commands + n
  <2> DEFINE S == 1..MaxCommands
  <2>1. responses \in Seq(Seq(S)) /\ r \in Seq(S)
    BY <1>0, <1>1
  <2>2. commands \in Nat /\ n \in Nat /\ Len(r) = n /\ \A i \in 1..n : r[i] = commands + i
    BY <1>0, <1>1
  <2> HIDE DEF S
  <2> QED BY <1>3, <2>1, <2>2, SlicesAppend
<1>5. rt = responses'
  BY <1>1
<1> HIDE DEF rt
<1>6. /\ Slices(d, responses', commands')
      /\ d \in [1..(Len(responses') + 1) -> 0..commands']
      /\ d[1] = c[1] /\ d[Len(responses') + 1] = commands'
  BY <1>0, <1>4, <1>5 DEF Slices
<1>7. Broken' <=> Broken
  BY <1>0 DEF Broken
<1>8. /\ \A p \in 1..Len(published') : published'[p] <= d[1]
      /\ stream' = 0 \/ call'[stream'] # "failed" => d[Len(responses') + 1] = commands'
      /\ ~Broken' /\ handler' # "raised" => Len(published') = d[1]
  BY <1>0, <1>2, <1>6, <1>7 DEF Follows
<1>9. Increasing(published') /\ handler' # "done"
  BY <1>0 DEF CommandsInv
<1> QED BY <1>6, <1>8, <1>9 DEF CommandsInv, Slices, Increasing

\* The RPC fails with the last responses.
LEMMA CallFails_Commands ==
    ASSUME IInv, CommandsInv, CallFails
    PROVE  CommandsInv'
<1> USE GroundStationAssumption
<1>0. /\ responses \in Seq(Seq(1..MaxCommands)) /\ commands \in Nat
      /\ stream \in Streams /\ call'[stream] = "failed" /\ handler # "done"
      /\ UNCHANGED <<published, stream, commands, handler>>
  BY CommandTypes DEF CallFails, EndCall, Live, Ended, IInv, TypeOK, StreamsInv,
     Streams, threadVars
<1>1. PICK n \in 0..Len(responses) : responses' = Prefix(responses, n)
  BY DEF CallFails
<1>2. PICK c \in [1..(Len(responses) + 1) -> 0..commands] : Follows(c)
  BY DEF CommandsInv, Follows
<1> DEFINE d == [k \in 1..(Len(Prefix(responses, n)) + 1) |-> c[k]]
<1>3. Slices(d, Prefix(responses, n), commands) /\ d[1] = c[1]
  <2>1. Slices(c, responses, commands)
    BY <1>2 DEF Follows
  <2> QED BY <1>0, <2>1, SlicesPrefix
<1> HIDE DEF d
<1>4. /\ Slices(d, responses', commands')
      /\ d \in [1..(Len(responses') + 1) -> 0..commands']
  BY <1>0, <1>1, <1>3 DEF Slices
<1>5. Broken' /\ call'[stream'] = "failed" /\ stream' # 0
  BY <1>0 DEF Broken, Streams
<1>6. /\ \A p \in 1..Len(published') : published'[p] <= d[1]
      /\ stream' = 0 \/ call'[stream'] # "failed" => d[Len(responses') + 1] = commands'
      /\ ~Broken' /\ handler' # "raised" => Len(published') = d[1]
  BY <1>0, <1>2, <1>3, <1>5 DEF Follows
<1>7. Increasing(published') /\ handler' # "done"
  BY <1>0 DEF CommandsInv
<1> QED BY <1>4, <1>6, <1>7 DEF CommandsInv, Slices, Increasing

\* The first response in flight, against what was published.
LEMMA HeadFollows ==
    ASSUME IInv, responses # <<>>, NEW c, Follows(c), Increasing(published),
           NEW n \in 0..Len(Head(responses))
    PROVE  LET u == published \o Prefix(Head(responses), n)
           IN /\ Increasing(u) /\ Len(u) = Len(published) + n
              /\ \A p \in 1..Len(u) : u[p] <= c[1] + n
              /\ c[1] \in 0..commands /\ c[2] \in 0..commands
              /\ c[2] = c[1] + Len(Head(responses)) /\ Len(Head(responses)) \in Nat
<1> DEFINE S == 1..MaxCommands
<1>1. S \subseteq Nat /\ responses \in Seq(Seq(S)) /\ published \in Seq(S)
  BY CommandTypes
<1>2. Head(responses) = responses[1] /\ 1 \in 1..Len(responses) /\ Len(responses) \in Nat
      /\ Head(responses) \in Seq(S)
  BY <1>1
<1>3. /\ c[1] \in 0..commands /\ c[2] \in 0..commands
      /\ c[1 + 1] = c[1] + Len(responses[1])
      /\ \A i \in 1..Len(responses[1]) : responses[1][i] = c[1] + i
  <2>1. c \in [1..(Len(responses) + 1) -> 0..commands]
    BY DEF Follows, Slices
  <2>2. c[1] \in 0..commands /\ c[2] \in 0..commands
    BY <1>2, <2>1
  <2>3. /\ c[1 + 1] = c[1] + Len(responses[1])
        /\ \A i \in 1..Len(responses[1]) : responses[1][i] = c[1] + i
    BY <1>2 DEF Follows, Slices
  <2> QED BY <2>2, <2>3
<1>4. c[1] \in Nat /\ commands \in Nat
  BY <1>3, CommandTypes
<1>5. \A i \in 1..Len(published) : published[i] <= c[1]
  BY DEF Follows
<1>6. \A i \in 1..Len(Head(responses)) : Head(responses)[i] = c[1] + i
  BY <1>2, <1>3
<1> HIDE DEF S
<1>7. /\ Increasing(published \o Prefix(Head(responses), n))
      /\ Len(published \o Prefix(Head(responses), n)) = Len(published) + n
      /\ \A p \in 1..Len(published \o Prefix(Head(responses), n)) :
            (published \o Prefix(Head(responses), n))[p] <= c[1] + n
  BY <1>1, <1>2, <1>4, <1>5, <1>6, IncreasingConcat
<1>8. c[2] = c[1] + Len(Head(responses)) /\ Len(Head(responses)) \in Nat
  BY <1>2, <1>3
<1> QED BY <1>3, <1>7, <1>8

\* The thread publishes the first response.
LEMMA PublishCommands_Commands ==
    ASSUME IInv, CommandsInv, PublishCommands
    PROVE  CommandsInv'
<1>0. /\ responses # <<>> /\ handler = "reading"
      /\ published' = published \o Head(responses)
      /\ responses' = Tail(responses)
      /\ UNCHANGED <<commands, stream, call, handler>>
  BY DEF PublishCommands, Reading, threadVars
<1>1. PICK c \in [1..(Len(responses) + 1) -> 0..commands] : Follows(c)
  BY DEF CommandsInv, Follows
<1> DEFINE n == Len(Head(responses))
<1>2. /\ n \in 0..Len(Head(responses)) /\ Prefix(Head(responses), n) = Head(responses)
      /\ responses \in Seq(Seq(1..MaxCommands)) /\ commands \in Nat
      /\ Len(published) \in Nat
  <2>1. responses \in Seq(Seq(1..MaxCommands)) /\ published \in Seq(1..MaxCommands)
        /\ commands \in Nat
    BY CommandTypes
  <2>2. Head(responses) \in Seq(1..MaxCommands)
    BY <1>0, <2>1
  <2>3. Prefix(Head(responses), Len(Head(responses))) = Head(responses)
    BY <2>2 DEF Prefix
  <2> QED BY <2>1, <2>2, <2>3
<1>3. /\ Increasing(published') /\ Len(published') = Len(published) + n
      /\ \A p \in 1..Len(published') : published'[p] <= c[1] + n
      /\ c[1] \in 0..commands /\ c[2] = c[1] + n /\ n \in Nat
  <2>1. Increasing(published)
    BY DEF CommandsInv
  <2> QED BY <1>0, <1>1, <1>2, <2>1, HeadFollows DEF Increasing
<1> DEFINE d == [k \in 1..(Len(Tail(responses)) + 1) |-> c[k + 1]]
<1>4. /\ Slices(d, Tail(responses), commands)
      /\ d[1] = c[2] /\ d[Len(Tail(responses)) + 1] = c[Len(responses) + 1]
  <2>1. Slices(c, responses, commands)
    BY <1>1 DEF Follows
  <2> QED BY <1>0, <1>2, <2>1, SlicesTail
<1> HIDE DEF d, n
<1>5. /\ Slices(d, responses', commands')
      /\ d \in [1..(Len(responses') + 1) -> 0..commands']
      /\ d[1] = c[2] /\ d[Len(responses') + 1] = c[Len(responses) + 1]
  BY <1>0, <1>4 DEF Slices
<1>6. Broken' <=> Broken
  BY <1>0 DEF Broken
<1>7. \A p \in 1..Len(published') : published'[p] <= d[1]
  BY <1>3, <1>5
<1>8. stream' = 0 \/ call'[stream'] # "failed" => d[Len(responses') + 1] = commands'
  BY <1>0, <1>1, <1>5 DEF Follows
<1>9. ~Broken' /\ handler' # "raised" => Len(published') = d[1]
  <2>1. ~Broken /\ handler # "raised" => Len(published) = c[1]
    BY <1>1 DEF Follows
  <2> QED BY <1>0, <1>3, <1>5, <1>6, <2>1
<1>10. Increasing(published') /\ handler' # "done"
  BY <1>0, <1>3
<1> QED BY <1>5, <1>7, <1>8, <1>9, <1>10 DEF CommandsInv, Slices, Increasing

\* An exception in the midst of the first response.
LEMMA HandlerRaises_Commands ==
    ASSUME IInv, CommandsInv, HandlerRaises
    PROVE  CommandsInv'
<1>0. /\ responses # <<>> /\ handler' = "raised" /\ responses' = <<>>
      /\ commands' = commands /\ commands \in Nat
  BY CommandTypes DEF HandlerRaises
<1>1. PICK c \in [1..(Len(responses) + 1) -> 0..commands] : Follows(c)
  BY DEF CommandsInv, Follows
<1>2. PICK n \in 0..Len(Head(responses)) :
        published' = published \o Prefix(Head(responses), n)
  BY DEF HandlerRaises
<1>3. /\ Increasing(published')
      /\ \A p \in 1..Len(published') : published'[p] <= c[1] + n
      /\ c[1] \in 0..commands /\ c[2] \in 0..commands
      /\ c[2] = c[1] + Len(Head(responses)) /\ Len(Head(responses)) \in Nat
  <2>1. Increasing(published)
    BY DEF CommandsInv
  <2> QED BY <1>0, <1>1, <1>2, <2>1, HeadFollows DEF Increasing
<1>4. published' \in Seq(1..MaxCommands)
  BY HandlerRaises_Step DEF IInv, TypeOK
<1>5. ASSUME NEW p \in 1..Len(published') PROVE published'[p] <= commands'
  <2>1. published'[p] \in 1..MaxCommands
    BY <1>4, ElementType
  <2>2. published'[p] <= c[1] + n
    BY <1>3
  <2> QED BY <1>0, <1>3, <2>1, <2>2, GroundStationAssumption
<1> QED BY <1>0, <1>3, <1>5, CommandsCleared

\* Another stream is opened when nothing is left of the failed one.
LEMMA Retry_Commands ==
    ASSUME IInv, CommandsInv, Retry
    PROVE  CommandsInv'
<1> USE GroundStationAssumption
<1>0. /\ responses = <<>> /\ responses' = <<>> /\ commands' = commands
      /\ commands \in Nat /\ published' = published /\ call[stream] = "failed"
      /\ stream \in Streams /\ call' = [call EXCEPT ![stream + 1] = "live"]
      /\ published \in Seq(1..MaxCommands)
  BY CommandTypes DEF Retry, Reading, OpenStream, cmdVars, IInv, TypeOK, Streams
<1>1. Broken'
  <2>1. call'[stream] = "failed"
    BY <1>0 DEF IInv, TypeOK, Streams
  <2> QED BY <1>0, <2>1 DEF Broken
<1>2. PICK c \in [1..(Len(responses) + 1) -> 0..commands] : Follows(c)
  BY DEF CommandsInv, Follows
<1>3. c[1] \in 0..commands /\ \A p \in 1..Len(published) : published[p] <= c[1]
  BY <1>0, <1>2 DEF Follows
<1>4. ASSUME NEW p \in 1..Len(published') PROVE published'[p] <= commands'
  <2>1. published'[p] \in Nat /\ published'[p] <= c[1]
    BY <1>0, <1>3
  <2> QED BY <1>0, <1>3, <2>1
<1>5. Increasing(published')
  BY <1>0 DEF CommandsInv, Increasing
<1> QED BY <1>0, <1>1, <1>4, <1>5, CommandsCleared

\* A step keeps CommandsInv.
LEMMA NextCommandsInv ==
    ASSUME IInv, CommandsInv, [Next]_vars
    PROVE  CommandsInv'
<1> USE GroundStationAssumption
<1> DEFINE Quiet ==
        /\ UNCHANGED <<responses, commands, published>>
        /\ stream' = 0 \/ call'[stream'] # "failed" =>
              stream = 0 \/ call[stream] # "failed"
        /\ ~Broken' /\ handler' # "raised" => ~Broken /\ handler # "raised"
        /\ handler' = "done" => handler = "done" \/ responses = <<>>
<1>q. Quiet => CommandsInv'
  BY CommandsKept
<1>1. CASE start
  <2>1. /\ stream = 0 /\ handler = "none" /\ handler' = "reading"
        /\ UNCHANGED <<responses, commands, published>>
        /\ call' = [call EXCEPT ![1] = "live"] /\ call[1] = "none"
    BY <1>1 DEF start, OpenStream, IInv, StreamsInv, Streams
  <2>2. ~Broken' => ~Broken
    BY <2>1 DEF Broken, IInv, TypeOK
  <2> QED BY <1>q, <2>1, <2>2
<1>2. CASE StartRaises \/ msg_handler \/ stop \/ StopReturned
  BY <1>2, <1>q DEF StartRaises, msg_handler, stop, StopReturned, threadVars, cmdVars, Broken
<1>3. ASSUME NEW s \in Streams, GenStep(s) PROVE CommandsInv'
  <2>1. UNCHANGED <<responses, commands, published, stream, handler>>
    BY <1>3 DEF GenStep, GenFirst, GenTestStopped, GenTimeout, GenGet, GenDrainGet,
       Take, GenTestEmpty, GenYield, GenDrainYield, HandOver, GenMoves, threadVars,
       cmdVars
  <2>2. call' = call \/ (call[s] = "live" /\ call' = [call EXCEPT ![s] = "half"])
    BY <1>3 DEF GenStep, GenFirst, GenTestStopped, GenTimeout, GenGet, GenDrainGet,
       Take, GenTestEmpty, GenYield, GenDrainYield, HandOver
  <2>3. \A t \in Streams : call'[t] \in {"failed", "closed"} <=> call[t] \in {"failed", "closed"}
    BY <2>2 DEF IInv, TypeOK
  <2>4. stream > 0 => (call'[stream] = "failed" <=> call[stream] = "failed")
    BY <2>2 DEF IInv, TypeOK, Streams
  <2>5. stream \in Nat
    BY DEF IInv, TypeOK
  <2> QED BY <1>q, <2>1, <2>3, <2>4, <2>5 DEF Broken
<1>4. CASE StationReads
  BY <1>4, <1>q DEF StationReads, threadVars, cmdVars, Broken
<1>5. ASSUME NEW n \in 0..MaxCommands, StationSends(n) PROVE CommandsInv'
  BY <1>5, StationSends_Commands
<1>6. CASE StationCloses
  <2> DEFINE v == IF call[stream] = "half" /\ wire = <<>> THEN "ok" ELSE "closed"
  <2>1. /\ UNCHANGED <<responses, commands, published, stream, handler>>
        /\ stream \in Streams /\ call[stream] \in Live
        /\ call' = [call EXCEPT ![stream] = v] /\ v \in {"ok", "closed"}
    BY <1>6 DEF StationCloses, EndCall, threadVars, cmdVars, IInv, TypeOK, Streams
  <2> HIDE DEF v
  <2>2. /\ call[stream] # "failed"
        /\ \A t \in Streams : call[t] \in {"failed", "closed"} => call'[t] = call[t]
    BY <2>1 DEF IInv, TypeOK, Live
  <2> QED BY <1>q, <2>1, <2>2 DEF Broken
<1>7. CASE CallFails
  BY <1>7, CallFails_Commands
<1>8. CASE PublishCommands
  BY <1>8, PublishCommands_Commands
<1>9. CASE StreamEnds \/ GiveUp
  BY <1>9, <1>q DEF StreamEnds, GiveUp, Reading, cmdVars, Broken
<1>10. CASE Retry
  BY <1>10, Retry_Commands
<1>11. CASE RetryRaises
  BY <1>11, <1>q DEF RetryRaises, cmdVars
<1>12. CASE HandlerRaises
  BY <1>12, HandlerRaises_Commands
<1>13. CASE UNCHANGED vars
  BY <1>13, <1>q DEF vars, Broken
<1> QED BY <1>1, <1>2, <1>3, <1>4, <1>5, <1>6, <1>7, <1>8, <1>9, <1>10, <1>11,
           <1>12, <1>13 DEF Next, HandlerStep

\* No command is in flight at first.
LEMMA InitCommandsInv == Init => CommandsInv
<1> SUFFICES ASSUME Init PROVE CommandsInv
  OBVIOUS
<1> DEFINE c == [k \in 1..1 |-> 0]
<1>0. 0 \in 0..0 /\ 0 \in Nat
  OBVIOUS
<1>1. Slices(c, <<>>, 0) /\ c \in [1..(Len(<<>>) + 1) -> 0..0]
  BY <1>0, SlicesEmpty
<1>2. c[1] = 0 /\ Len(responses) = 0 /\ Len(published) = 0
  BY DEF Init
<1> HIDE DEF c
<1>3. /\ responses = <<>> /\ published = <<>> /\ commands = 0 /\ handler = "none"
  BY DEF Init
<1>4. /\ Slices(c, responses, commands)
      /\ c \in [1..(Len(responses) + 1) -> 0..commands]
      /\ \A p \in 1..Len(published) : published[p] <= c[1]
      /\ c[Len(responses) + 1] = commands
      /\ Len(published) = c[1]
  BY <1>1, <1>2, <1>3
<1>5. Increasing(published) /\ handler # "done"
  BY <1>2, <1>3 DEF Increasing
<1> QED BY <1>4, <1>5 DEF CommandsInv

\* handle_stream publishes the commands in the order in which the station sent
\* them, across retries, and all of them on streams that do not break.
THEOREM CommandOrder == Spec => []CommandsInOrder
<1>1. IInv /\ CommandsInv => CommandsInOrder
  <2> SUFFICES ASSUME IInv, CommandsInv PROVE CommandsInOrder
    OBVIOUS
  <2>1. ASSUME handler = "done", ~Broken PROVE Len(published) = commands
    <3>1. responses = <<>> /\ Len(responses) + 1 = 1
      BY <2>1 DEF CommandsInv
    <3>2. PICK c \in [1..(Len(responses) + 1) -> 0..commands] : Follows(c)
      BY DEF CommandsInv, Follows
    <3>3. stream \in Streams /\ call[stream] # "failed"
      <4>1. stream \in Streams
        BY <2>1, GroundStationAssumption DEF IInv, TypeOK, StreamsInv, Streams
      <4> QED BY <2>1, <4>1 DEF Broken
    <3>4. c[1] = commands /\ Len(published) = c[1]
      BY <2>1, <3>1, <3>2, <3>3 DEF Follows
    <3> QED BY <3>4
  <2> QED BY <2>1 DEF CommandsInOrder, CommandsInv, Increasing
<1>2. IInv /\ CommandsInv /\ [Next]_vars => CommandsInv'
  BY NextCommandsInv
<1> QED BY <1>1, <1>2, InitCommandsInv, Invariance, PTL DEF Spec

=============================================================================
