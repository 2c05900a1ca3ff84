SPECIFICATION Spec
CONSTANTS
    k1 = k1
    k2 = k2
    k3 = k3
    Key <- TwoKeys
    KeyLen <- MCKeyLen
    MAX_REQ_ID = 2
    MIN_OUTSTANDING_REQ = 1
    MAX_PAYLOAD_LEN = 9
    GETS_LEN = 4
    UINT16 = 8
    MaxSeq = 1
    Sig <- MCSig
    NoSig = NoSig
    Buf = {b1, b2, b3, b4}
    MAP_ENTRIES = 3
    MaxDatagrams = 2
    MaxChain = 4
    ClientRequests <- OverTwoKeys
    Stored <- TwoKeys
    NoKey = NoKey
    NoValue = NoValue
    MaxRequests = 3
    Lost = {"only", "next"}
    Interleaved = FALSE
SYMMETRY Symmetry
INVARIANTS
    TypeOK
    Steered
    NotAnsweredTwice
    ChainsAreLive
    NoPacketLeaks
    LRUCoversMap
    RoomForNext
PROPERTIES
    BatchSpec
    ClientMapSpec
CHECK_DEADLOCK FALSE
