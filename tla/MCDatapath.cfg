SPECIFICATION FairSpec
CONSTANTS
    client = client
    client2 = client2
    stranger = stranger
    Buf = {b1, b2, b3, b4}
    NoBuf = NoBuf
    Frames <- MCFrames
    Local = Local
    Server = Server
    Zero = Zero
    KnownHosts <- MCHosts
    BURST_SIZE = 2
    RX_RING_SIZE = 2
    TX_RING_SIZE = 1
    MaxMessages = 1
    MaxCopies = 1
    MaxKept = 2
    Orderly = TRUE
INVARIANTS
    TypeOK
    NoUseAfterFree
    MacIsKnown
PROPERTIES
    OnlyIgnoredFramesLeak
    EveryPacketHandled
