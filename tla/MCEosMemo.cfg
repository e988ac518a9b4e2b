CONSTANTS
    alice = alice
    bob = bob
    carol = carol
    nobody = nobody
    Payers = {alice}
    Payees = {bob, carol}
    Amounts = {0, 12345}
    Messages <- MCMessages
    Times <- MCTimes
    Durations = {9, 12}
    BlockNums = {20}
    BlockRefs <- MCBlocks
    NoAccount = nobody
    Offset = 1
    Junk = {50}
    LastTime = 1
    ChainId = 1
    LongBits = 14
    WordBits = 6
    HalfBits = 4
    HashBits = 4
    BufferSize = 307
    OperationHead = 77
    OperationTail = 2
    FrameHead = 20
    FrameTail = 10
SPECIFICATION Spec
INVARIANTS DataLengthIsWritten
