SPECIFICATION FairSpec
CONSTANTS
    ByteBits = 2
    PacketBytes = 3
    reset_len = 10
    num_packets = 3
    MaxSent = 4
    MaxFaults = 1
    FlipAt = {2, 4, 6, 12}
INVARIANTS
    PacketsMatchSequence
    JudgedRightly
    ReportTruthful
PROPERTY
    EveryPacketSent
