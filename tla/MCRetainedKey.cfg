SPECIFICATION FairSpec
CONSTANTS
    k1 = k1
    k2 = k2
    k3 = k3
    Key <- TwoKeys
    KeyLen <- MCKeyLen
    MAX_REQ_ID = 4
    MIN_OUTSTANDING_REQ = 1
    MAX_PAYLOAD_LEN = 9
    GETS_LEN = 4
    UINT16 = 8
    MaxSeq = 1
    Sig <- MCSig
    NoSig = NoSig
    Buf = {b1, b2, b3, b4}
    MAP_ENTRIES = 4
    MaxDatagrams = 1
    MaxChain = 4
    ClientRequests <- OverTwoKeys
    Stored <- TwoKeys
    NoKey = NoKey
    NoValue = NoValue
    MaxRequests = 2
    Lost = {}
    Interleaved = FALSE
PROPERTIES
    EveryKeyAnswered
CHECK_DEADLOCK FALSE
