------------------------------ MODULE PrbsLink ------------------------------
(***************************************************************************)
(* The receiver evaluation tool (gr-starcoder_utils): a generator flowgraph*)
(* sends numbered packets of a pseudorandom sequence, a receiver records   *)
(* what it hears as files of a folder, and an evaluator flowgraph reads    *)
(* the folder and counts the packets that arrived.                         *)
(*                                                                         *)
(*   prbs_source_b -> (framing) -> add_incrementing_header_pdu             *)
(*     -> message_router -> add_sync_pdu -> modulator                      *)
(*     ~~ channel, receiver ~~> files of the folder                        *)
(*   folder_source_pdu -> pdu_trim_uvector -> message_router               *)
(*     -> (decoder) -> prbs_sink_pdu                                       *)
(*                                                                         *)
(* A block is a thread with queues of messages for its input ports, so the *)
(* handlers of different blocks interleave; an operator ends each of the   *)
(* two flowgraphs by pressing Enter, at any time.  A byte has ByteBits     *)
(* bits (8 in the code): everything else follows the code's arithmetic.    *)
(***************************************************************************)
EXTENDS Integers, Sequences, FiniteSets, FiniteSetsExt

CONSTANTS
    ByteBits,       \* bits of a byte
    PacketBytes,    \* packet_payload_length_bytes
    reset_len,      \* bits after which the pseudorandom sequence starts over
    num_packets,    \* packets the sink expects
    MaxSent,        \* bound: packets an endless source sends
    MaxFaults,      \* bound: faults of the channel and of the decoder
    FlipAt          \* bound: the positions of a frame the channel may damage

ASSUME LinkAssumption ==
    /\ {ByteBits, PacketBytes, reset_len, num_packets} \subseteq Nat \ {0}
    /\ {MaxSent, MaxFaults} \subseteq Nat
    /\ FlipAt \subseteq Nat \ {0}

\* The number of values of a byte.
Radix ==
    LET power[k \in 0 .. ByteBits] == IF k = 0 THEN 1 ELSE 2 * power[k - 1]
    IN  power[ByteBits]

HeaderBytes == 4
packet_len == PacketBytes * ByteBits

\* A packet's number fits the header, a `<u4` of four bytes: the evaluator keeps a
\* counter of eight bytes for every packet it expects (np.zeros(num_packets)).
ASSUME HeaderAssumption == num_packets <= Radix * Radix * Radix * Radix

VARIABLES
    phase,          \* what run_receiver_evaluation.py is doing
    output_index,   \* output_index of the routers: 0 no decoder, 1 decoder
    source,         \* prbs_source_b: num_packets, packets_sent, generator's idx
    incrementing_header,
    pdus, framed,   \* messages waiting at the header block, at the sync block
    air,            \* frames sent and not yet received
    folder,         \* the files: the frame sent and the bits recorded
    unread,         \* the files folder_source_pdu has not come to
    faults,
    decoding,       \* messages waiting at the decoder
    corrected,      \* messages waiting at the sink's port "corrected"
    all,            \* messages waiting at the sink's port "all"
    sink,           \* the counters of prbs_sink_pdu
    statistics      \* its report, None until it is evaluated

generatorVars == <<source, incrementing_header, pdus, framed>>
linkVars == <<air, folder, faults>>
evaluatorVars == <<unread, decoding, corrected, all, sink, statistics>>
vars == <<phase, output_index, generatorVars, linkVars, evaluatorVars>>

None == [num |-> -1]

-----------------------------------------------------------------------------
(* PRBSGenerator: the sequence, the stateful generator of the source and   *)
(* the stateless one of the sink.                                          *)

modes == [PRBS7 |-> <<0, 6, 7>>, PRBS15 |-> <<0, 14, 15>>,
          PRBS23 |-> <<0, 18, 23>>, PRBS31 |-> <<0, 28, 31>>]
gen_poly == modes["PRBS31"]

\* The seed: every fourth entry of the register is 0.
init_reg(j) == IF j % 4 = 0 THEN 0 ELSE 1

\* Bit k of the sequence: the exclusive or of the tapped entries of the
\* register, which by then has been shifted k times.
generate_n_bits_and_store[k \in 0 .. reset_len - 1] ==
    LET reg(j) == IF j < k THEN generate_n_bits_and_store[k - 1 - j]
                  ELSE init_reg(j - k)
    IN  (reg(gen_poly[2]) + reg(gen_poly[3])) % 2

pre == [k \in 1 .. reset_len |-> generate_n_bits_and_store[k - 1]]

\* Mutant: at the end of the sequence the generator goes back to 0 and forgets
\* the bits it has already taken of the next round.
GenerateForgetsRest(idx, n) ==
    [bits |-> [k \in 1 .. n |-> pre[((idx + k - 1) % reset_len) + 1]],
     idx  |-> IF idx + n >= reset_len THEN 0 ELSE idx + n]

\* The next n bits of a generator at idx, and where they leave it: the loop takes
\* what is left of the sequence, or what is left to take, and starts over.
generate_n_bits(idx, n) ==
    LET loop[left \in 0 .. n] == [i \in 0 .. reset_len - 1 |->
            IF left = 0 THEN [bits |-> <<>>, idx |-> i]
            ELSE LET nout == Min({left, reset_len - i})
                     rest == loop[left - nout][IF i + nout = reset_len THEN 0 ELSE i + nout]
                 IN  [bits |-> SubSeq(pre, i + 1, i + nout) \o rest.bits,
                      idx  |-> rest.idx]]
    IN  loop[n][idx]

\* The n bits after the first x.  The slice asks for all that is left to take, not
\* for nout bits, and relies on being cut off at the end of pre.
bits_from(idx, n) ==
    LET loop[left \in 0 .. n] == [i \in 0 .. reset_len - 1 |->
            IF left = 0 THEN <<>>
            ELSE LET nout == Min({left, reset_len - i})
                 IN  SubSeq(pre, i + 1, Min({i + left, reset_len}))
                       \o loop[left - nout][IF i + nout = reset_len THEN 0 ELSE i + nout]]
    IN  loop[n][idx]

generate_n_bits_after_x(n, x) == bits_from(x % reset_len, n)

-----------------------------------------------------------------------------
(* Bytes and bits.                                                         *)

\* Most significant bit first.
Byte(bits) ==
    LET packed_byte[k \in 0 .. Len(bits)] ==
            IF k = 0 THEN 0 ELSE 2 * packed_byte[k - 1] + bits[k]
    IN  packed_byte[Len(bits)]

pack_bits(arr) ==
    [i \in 1 .. Len(arr) \div ByteBits |->
        Byte(SubSeq(arr, (i - 1) * ByteBits + 1, i * ByteBits))]

\* repack_bits of GNU Radio: every byte becomes the bits that it packs.
Bits(byte) == CHOOSE bits \in [1 .. ByteBits -> {0, 1}] : Byte(bits) = byte

Unpack(bytes) ==
    [i \in 1 .. Len(bytes) * ByteBits |->
        Bits(bytes[((i - 1) \div ByteBits) + 1])[((i - 1) % ByteBits) + 1]]

header_arr(n) ==
    <<n % Radix, (n \div Radix) % Radix, (n \div (Radix * Radix)) % Radix,
      (n \div (Radix * Radix * Radix)) % Radix>>

read_little_endian_header(arr) ==
    arr[4] * (Radix * Radix * Radix) + arr[3] * (Radix * Radix) + arr[2] * Radix + arr[1]

\* The sync word, here of one byte, most significant bit first.
sync_word == Radix - 2
sync_array == Bits(sync_word)

\* arr[start:-end or len(arr)], for the end trim of 0 the evaluator uses.
start_trim_length == ByteBits
end_trim_length == 0

\* Mutant: arr[start:-end], which is empty when end is 0.
TrimToMinusZero(arr) ==
    SubSeq(arr, start_trim_length + 1,
           IF end_trim_length = 0 THEN 0 ELSE Len(arr) - end_trim_length)

pdu_trim_uvector(arr) ==
    SubSeq(arr, start_trim_length + 1,
           Len(arr) - (IF end_trim_length = 0 THEN 0 ELSE end_trim_length))

\* What the flowgraph sends for packet i, when all goes well.
Payload(i) == [k \in 1 .. packet_len |-> pre[((i * packet_len + k - 1) % reset_len) + 1]]
Frame(i) == sync_array \o Unpack(header_arr(i)) \o Payload(i)
FrameLength == Len(Frame(0))

-----------------------------------------------------------------------------
Init ==
    /\ phase = "generating"
    /\ output_index \in {0, 1}
    /\ source \in [num : {0, num_packets}, packets_sent : {0}, idx : {0}, done : {FALSE}]
    /\ incrementing_header = 0
    /\ pdus = <<>> /\ framed = <<>> /\ air = <<>> /\ folder = <<>>
    /\ unread = {}
    /\ faults = 0
    /\ decoding = <<>> /\ corrected = <<>> /\ all = <<>>
    /\ sink = [all |-> 0, wrong_length |-> 0, erroneous |-> 0, correct |-> 0,
               collected |-> [i \in 0 .. num_packets - 1 |-> 0]]
    /\ statistics = None

-----------------------------------------------------------------------------
(* The generator flowgraph.                                                *)

\* The stream cut into packets, each packed into a PDU (stream_to_tagged_stream,
\* repack_bits, tagged_stream_to_pdu).
Packets(bits) ==
    [p \in 1 .. Len(bits) \div packet_len |->
        pack_bits(SubSeq(bits, (p - 1) * packet_len + 1, p * packet_len))]

\* Mutant: an off-by-one in the packets left to send.
LeaveLastOne(requested) ==
    IF source.num = 0 THEN requested
    ELSE Min({requested, source.num - source.packets_sent - 1})

\* How many packets of the room for `requested` of them the source fills.
packets_to_send_now(requested) ==
    IF source.num = 0 THEN requested
    ELSE Min({requested, source.num - source.packets_sent})

\* prbs_source_b.work with room for `requested` packets: set_output_multiple
\* makes the room a multiple of packet_len.  packets_sent is the code's counter
\* when source.num > 0; for an endless source it only bounds the model.
work(requested) ==
    /\ phase = "generating" /\ ~source.done
    /\ source.num = 0 => source.packets_sent + requested <= MaxSent
    /\ source.num > 0 => source.packets_sent # source.num
    /\ LET n   == packets_to_send_now(requested)
           gen == generate_n_bits(source.idx, n * packet_len)
       IN  /\ source' = [source EXCEPT !.packets_sent = @ + n, !.idx = gen.idx]
           /\ pdus' = pdus \o Packets(gen.bits)
    /\ UNCHANGED <<phase, output_index, incrementing_header, framed, linkVars,
                   evaluatorVars>>

\* work returns -1: the source has no more data.
SourceDone ==
    /\ phase = "generating" /\ ~source.done
    /\ source.num > 0 /\ source.packets_sent = source.num
    /\ source' = [source EXCEPT !.done = TRUE]
    /\ UNCHANGED <<phase, output_index, incrementing_header, pdus, framed,
                   linkVars, evaluatorVars>>

\* add_incrementing_header_pdu.msg_handler.  The frame then passes the routers
\* and is unpacked for the sync block.
add_header ==
    /\ phase = "generating" /\ pdus # <<>>
    /\ framed' = Append(framed, Unpack(header_arr(incrementing_header) \o Head(pdus)))
    /\ incrementing_header' = incrementing_header + 1
    /\ pdus' = Tail(pdus)
    /\ UNCHANGED <<phase, output_index, source, linkVars, evaluatorVars>>

\* add_sync_pdu.msg_handler.
add_sync ==
    /\ phase = "generating" /\ framed # <<>>
    /\ air' = Append(air, sync_array \o Head(framed))
    /\ framed' = Tail(framed)
    /\ UNCHANGED <<phase, output_index, source, incrementing_header, pdus,
                   folder, faults, evaluatorVars>>

\* The operator ends the generator: what is still in a queue is not sent.
StopGenerator ==
    /\ phase = "generating"
    /\ phase' = "generated"
    /\ pdus' = <<>> /\ framed' = <<>>
    /\ UNCHANGED <<output_index, source, incrementing_header, linkVars, evaluatorVars>>

-----------------------------------------------------------------------------
(* The channel and the receiver (external).                                *)

\* One bit of the frame is damaged.
Flip(bits, k) == [bits EXCEPT ![k] = 1 - @]

\* The files a frame becomes: one with its bits; or, with a fault, none, two,
\* a damaged one, one of another size.
Recordings(bits) ==
    {<<bits>>, <<>>, <<bits, bits>>, <<SubSeq(bits, 1, Len(bits) - ByteBits)>>}
        \cup {<<Flip(bits, k)>> : k \in FlipAt \cap 1 .. Len(bits)}

Receive ==
    /\ phase \in {"generating", "generated"} /\ air # <<>>
    /\ \E files \in Recordings(Head(air)) :
          LET fault == IF files = <<Head(air)>> THEN 0 ELSE 1
          IN  /\ faults + fault <= MaxFaults
              /\ faults' = faults + fault
              /\ folder' = folder \o [f \in DOMAIN files |->
                                        [sent |-> Head(air), bits |-> files[f]]]
    /\ air' = Tail(air)
    /\ UNCHANGED <<phase, output_index, generatorVars, evaluatorVars>>

-----------------------------------------------------------------------------
(* The evaluator flowgraph.                                                *)

StartEvaluator ==
    /\ phase = "generated" /\ air = <<>>
    /\ phase' = "evaluating"
    /\ unread' = DOMAIN folder
    /\ UNCHANGED <<output_index, generatorVars, linkVars, decoding, corrected,
                   all, sink, statistics>>

\* The trimmed frame goes to the sink, packed, or to the decoder.
message_router(f) ==
    LET trimmed == pdu_trim_uvector(folder[f].bits)
    IN  IF output_index = 0
        THEN corrected' = Append(corrected, pack_bits(trimmed)) /\ UNCHANGED decoding
        ELSE decoding' = Append(decoding, [file |-> f, bits |-> trimmed])
               /\ UNCHANGED corrected

\* folder_source_pdu comes to a file, in the order of the directory: a file of
\* the expected size is published to the sink's port "all" and to the trimmer.
ReadFile ==
    /\ phase = "evaluating"
    /\ \E f \in unread :
          /\ unread' = unread \ {f}
          /\ \/ /\ Len(folder[f].bits) = FrameLength
                /\ all' = Append(all, f)
                /\ message_router(f)
             \/ /\ Len(folder[f].bits) # FrameLength
                /\ UNCHANGED <<all, decoding, corrected>>
    /\ UNCHANGED <<phase, output_index, generatorVars, linkVars, sink, statistics>>

\* The decoder (external) repairs the frame or leaves it alone; with a fault it
\* drops it or publishes one of another length.
Decode ==
    /\ phase = "evaluating" /\ decoding # <<>>
    /\ LET frame == Head(decoding)
       IN  \/ /\ \E bits \in {frame.bits, pdu_trim_uvector(folder[frame.file].sent)} :
                    corrected' = Append(corrected, pack_bits(bits))
              /\ UNCHANGED faults
           \/ /\ faults < MaxFaults /\ faults' = faults + 1
              /\ \/ UNCHANGED corrected
                 \/ corrected' = Append(corrected,
                        pack_bits(SubSeq(frame.bits, 1, Len(frame.bits) - ByteBits)))
    /\ decoding' = Tail(decoding)
    /\ UNCHANGED <<phase, output_index, generatorVars, air, folder, unread, all,
                   sink, statistics>>

all_handler ==
    /\ phase = "evaluating" /\ all # <<>>
    /\ all' = Tail(all)
    /\ sink' = [sink EXCEPT !.all = @ + 1]
    /\ UNCHANGED <<phase, output_index, generatorVars, linkVars, unread, decoding,
                   corrected, statistics>>

\* Mutant: the payload is not compared.
VerifyHeaderOnly(arr) == read_little_endian_header(arr)

verify_packet_and_return_idx(arr) ==
    LET packet_idx == read_little_endian_header(arr)
        expected   == generate_n_bits_after_x(packet_len, packet_len * packet_idx)
    IN  IF pack_bits(expected) = SubSeq(arr, HeaderBytes + 1, Len(arr))
        THEN packet_idx ELSE -1

\* What a packet does to the counters.
Count(arr) ==
    IF Len(arr) # packet_len \div ByteBits + HeaderBytes
    THEN [sink EXCEPT !.wrong_length = @ + 1]
    ELSE LET packet_idx == verify_packet_and_return_idx(arr)
         IN  IF packet_idx = -1 \/ packet_idx > num_packets - 1
             THEN [sink EXCEPT !.erroneous = @ + 1]
             ELSE [sink EXCEPT !.correct = @ + 1, !.collected[packet_idx] = @ + 1]

corrected_handler ==
    /\ phase = "evaluating" /\ corrected # <<>>
    /\ corrected' = Tail(corrected)
    /\ sink' = Count(Head(corrected))
    /\ UNCHANGED <<phase, output_index, generatorVars, linkVars, unread, decoding,
                   all, statistics>>

\* The copies of the packets collected more than once, without their first ones.
Duplicates ==
    LET sum[n \in 0 .. num_packets] ==
            IF n = 0 THEN 0
            ELSE sum[n - 1] + (IF sink.collected[n - 1] > 1
                               THEN sink.collected[n - 1] - 1 ELSE 0)
    IN  sum[num_packets]

evaluate_statistics ==
    [num        |-> num_packets,
     received   |-> sink.all,
     correct    |-> sink.correct,
     wrong      |-> sink.wrong_length,
     erroneous  |-> sink.erroneous,
     unique     |-> Cardinality({i \in DOMAIN sink.collected : sink.collected[i] # 0}),
     duplicates |-> Duplicates]

\* The operator ends the evaluator: the blocks stop, the sink reports, and the
\* messages still in a queue are lost.
StopEvaluator ==
    /\ phase = "evaluating"
    /\ phase' = "reported"
    /\ statistics' = evaluate_statistics
    /\ UNCHANGED <<output_index, generatorVars, linkVars, unread, decoding,
                   corrected, all, sink>>

Done == phase = "reported" /\ UNCHANGED vars

Next ==
    \/ \E requested \in 1 .. MaxSent : work(requested)
    \/ SourceDone \/ add_header \/ add_sync \/ StopGenerator
    \/ Receive
    \/ StartEvaluator \/ ReadFile \/ Decode \/ all_handler \/ corrected_handler
    \/ StopEvaluator
    \/ Done

Spec == Init /\ [][Next]_vars

\* The blocks are threads that run while they have input; the operator presses
\* Enter in the end.
Fairness ==
    /\ WF_vars(\E requested \in 1 .. MaxSent : work(requested))
    /\ WF_vars(SourceDone) /\ WF_vars(add_header) /\ WF_vars(add_sync)
    /\ WF_vars(Receive)

FairSpec == Spec /\ Fairness

-----------------------------------------------------------------------------
(* Properties.                                                             *)

\* The packet numbered i carries bits i*packet_len onwards of the sequence that
\* starts over every reset_len bits, however the scheduler cut the source's
\* output into calls of work, and the number the header block gives it is i.
PacketsMatchSequence ==
    /\ \A k \in DOMAIN pdus : pdus[k] = pack_bits(Payload(incrementing_header + k - 1))
    /\ \A k \in DOMAIN air : \E i \in 0 .. incrementing_header - 1 : air[k] = Frame(i)

\* The files the source folder has published.
Read == DOMAIN folder \ unread

\* The sink blames only what deserves it and credits only what it heard: a file
\* counts as erroneous only if the channel damaged it or its packet is beyond the
\* expected number; only a fault gives a packet the wrong length; and a packet
\* counts as received only if a file with its payload was read.  (Payloads repeat
\* once the sequence has come round a whole number of packets: a damaged number may
\* then name another packet with the same payload, and the sink counts that one.)
JudgedRightly ==
    /\ sink.wrong_length <= faults
    /\ sink.erroneous <=
         Cardinality({f \in Read : \/ folder[f].bits # folder[f].sent
                                   \/ \A i \in 0 .. num_packets - 1 : folder[f].sent # Frame(i)})
    /\ \A i \in 0 .. num_packets - 1 :
         sink.collected[i] <=
            Cardinality({f \in Read : \E bits \in {folder[f].bits, folder[f].sent} :
                            SubSeq(bits, FrameLength - packet_len + 1, Len(bits)) = Payload(i)})

\* The report is true.  It adds up: every correct packet is a first copy or a
\* duplicate, and no more packets were judged than files were read.  And once the
\* evaluator has gone through the folder, the packets that were heard and are
\* missing from it are no more than the faults; in particular a fault free run
\* whose generator was not ended early reports a frame error rate of zero.
\* Nothing is said of `received`, which counts what the sink is sent on another
\* port, with a queue of its own, before error correction.
ReportTruthful ==
    statistics # None =>
        /\ statistics.correct = statistics.unique + statistics.duplicates
        /\ statistics.correct + statistics.wrong + statistics.erroneous <= Cardinality(Read)
        /\ unread = {} /\ decoding = <<>> /\ corrected = <<>> =>
              LET heard == {i \in 0 .. num_packets - 1 :
                              \E f \in DOMAIN folder : folder[f].sent = Frame(i)}
              IN  Cardinality(heard) - statistics.unique <= faults

\* Unless the operator ends the generator early, a source with a number of
\* packets to send ends, and every packet is numbered and sent.
EveryPacketSent ==
    source.num > 0 ~>
        \/ phase # "generating"
        \/ source.done /\ incrementing_header = source.num /\ framed = <<>>

=============================================================================
