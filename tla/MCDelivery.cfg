SPECIFICATION FairSpec
CONSTANTS
    k1 = k1
    k2 = k2
    k3 = k3
    Key <- TwoKeys
    KeyLen <- MCKeyLen
    MAX_REQ_ID = 4
    MIN_OUTSTANDING_REQ = 1
    MAX_PAYLOAD_LEN = 20
    GETS_LEN = 4
    UINT16 = 8
    MaxSeq = 1
    Sig <- MCSig
    NoSig = NoSig
    Buf = {b1, b2, b3}
    MAP_ENTRIES = 6
    MaxDatagrams = 2
    MaxChain = 4
    ClientRequests <- SharedKey
    Stored <- TwoKeys
    NoKey = NoKey
    NoValue = NoValue
    MaxRequests = 3
    Lost = {}
    Interleaved = FALSE
INVARIANTS
    EntriesAreAwaited
PROPERTIES
    EveryKeyAnswered
CHECK_DEADLOCK FALSE
