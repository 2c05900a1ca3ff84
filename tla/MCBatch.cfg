SPECIFICATION FairBatchSpec
CONSTANTS
    key1 = key1
    key2 = key2
    key3 = key3
    Key <- MCKey
    KeyLen <- MCKeyLen
    MAX_REQ_ID = 2
    MIN_OUTSTANDING_REQ = 2
    MAX_PAYLOAD_LEN = 12
    GETS_LEN = 4
    UINT16 = 5
    MaxSeq = 1
INVARIANTS
    BatchTypeOK
    NoDuplicateKeys
    MessageFits
    WorkConserving
PROPERTIES
    CoveredUntilOverflow
    SendOpensItsRequest
    AskedKeyWaits
    QueueSpec
    BacklogIsSent
