SPECIFICATION ClientsSpec
CONSTANTS
    k1 = k1
    k2 = k2
    k3 = k3
    k4 = k4
    k5 = k5
    burst = burst
    rand = rand
    Key <- FiveKeys
    KeyLen <- MCKeyLen
    MAX_REQ_ID = 6
    MIN_OUTSTANDING_REQ = 1
    MAX_PAYLOAD_LEN = 20
    GETS_LEN = 4
    UINT16 = 8
    MaxSeq = 0
    Sig <- MCSig
    NoSig = NoSig
    Buf = {b1, b2, b3, b4, b5, b6, b7, b8, b9, b10}
    MAP_ENTRIES = 12
    MaxDatagrams = 1
    MaxChain = 10
    ClientRequests <- LongRequests
    Stored <- FiveKeys
    NoKey = NoKey
    NoValue = NoValue
    MaxRequests = 2
    Lost = {}
    Interleaved = FALSE
    BurstClient = {burst}
    RandClient = {}
    BurstMessage <- LongMessage
    KeyList <- OneKey
    BURST_SIZE <- OneClient
    BURST_NUMBER <- TwoBursts
    NUM_KEYS_PER_PACKET = 1
    REPLIES_PER_REQUEST = 4
INVARIANTS
    RequestedIsDisplayed
CHECK_DEADLOCK FALSE
