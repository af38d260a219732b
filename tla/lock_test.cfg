\* Two children print a line each, of two messages, on a UART with room for
\* one character and a queue of one; or two tasks read characters.
SPECIFICATION TestSpec
CONSTANTS
    Main = main
    Client = {main, c1, c2}
    Lock = {lock}
    Child = {c1, c2}
    Reader = {r1, r2}
    TheLock = lock
    Rounds = 1
    Chunks = 1
    Task = {main, c1, c2, r1, r2, txn, rxn}
    Server = {tx, rx}
    Fd = {3, 4}
    Nobody = nobody
    TxServer = tx
    RxServer = rx
    TxNotifier = txn
    RxNotifier = rxn
    TX_BUF_MAX = 1
    RX_BUF_MAX = 1
    RX_TIDS_MAX = 2
    FIFO_MAX = 1
    THR_LEVEL = 0
    MaxKeys = 2
INVARIANTS
    TestTypeOK
    MutualExclusion
    SideMatches
    InputContiguous
    LinesWhole
PROPERTIES
    ImplementsLock
    WriteReported
    TestEnds
CHECK_DEADLOCK FALSE
