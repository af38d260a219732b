\* Three clients sleep or ask the time; the server has a descriptor for each
\* of them and none for the notifier then, so the kernel may panic.
SPECIFICATION Spec
CONSTANTS
    Client = {c1, c2, c3}
    Notifier = notifier
    Task = {c1, c2, c3, notifier}
    Clock = clock
    Server = {clock}
    Fd = {3, 4, 5}
    Nobody = nobody
    DELAYS = 4
    IntMax = 3
    Askers = {c3}
    Msecs = {1, 2, 3}
    MaxNow = 1
INVARIANTS
    TypeOK
    SleepersInHeap
    NoneOverdue
PROPERTIES
    NotEarly
    Wakes
CHECK_DEADLOCK FALSE
