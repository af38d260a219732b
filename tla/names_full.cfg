\* The same instance: a name is refused although an item of the table is free.
SPECIFICATION Spec
CONSTANTS
    Client = {c1, c2}
    c1 = c1
    c2 = c2
    p = p
    q = q
    r = r
    Path = {p, q, r}
    HASH_MAX = 3
    Uses <- UsesOfTwo
    PathHash <- HashOfNames
    Fd = {5, 6, 7}
    ClientFds = 2
    Chan = {ch1, ch2, ch3}
    NoChan = nochan
    NoItem = noitem
INVARIANTS
    InactiveFound
CHECK_DEADLOCK FALSE
