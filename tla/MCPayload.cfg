SPECIFICATION Spec
CONSTANTS
    x = x
    y = y
    Blank = Blank
    Gets = Gets
    Value = Value
    MaxRequest = 6
    DatagramSize = 6
    Letter <- MCLetter
    Requests <- MCRequests
    Data <- MCData
    Uninitialised <- MCUninitialised
INVARIANTS
    TypeOK
    KeysAreWords
    MessageAsksTheSame
PROPERTIES
    LookedUpByItsKey
CHECK_DEADLOCK FALSE
