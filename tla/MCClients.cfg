SPECIFICATION ClientsSpec
CONSTANTS
    k1 = k1
    k2 = k2
    k3 = k3
    k4 = k4
    k5 = k5
    burst = burst
    rand = rand
    Key <- TwoKeys
    KeyLen <- MCKeyLen
    MAX_REQ_ID = 6
    MIN_OUTSTANDING_REQ = 1
    MAX_PAYLOAD_LEN = 20
    GETS_LEN = 4
    UINT16 = 8
    MaxSeq = 0
    Sig <- MCSig
    NoSig = NoSig
    Buf = {b1, b2, b3, b4, b5, b6}
    MAP_ENTRIES = 12
    MaxDatagrams = 1
    MaxChain = 6
    ClientRequests <- MCRequests
    Stored <- TwoKeys
    NoKey = NoKey
    NoValue = NoValue
    MaxRequests = 5
    Lost = {}
    Interleaved = FALSE
    BurstClient = {burst}
    RandClient = {rand}
    BurstMessage <- MCMessage
    KeyList <- OneKey
    BURST_SIZE <- MCBurstSize
    BURST_NUMBER <- MCBurstNumber
    NUM_KEYS_PER_PACKET = 2
    REPLIES_PER_REQUEST = 2
INVARIANTS
    BurstIsAnswered
PROPERTIES
    ClientsFinish
CHECK_DEADLOCK FALSE
