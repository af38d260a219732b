\* Two clients, three names of which two collide, in a table with room for
\* two; the server has descriptors for two channels and a reply.
SPECIFICATION Spec
CONSTANTS
    Client = {c1, c2}
    c1 = c1
    c2 = c2
    p = p
    q = q
    r = r
    Path = {p, q, r}
    HASH_MAX = 3
    Uses <- UsesOfTwo
    PathHash <- HashOfNames
    Fd = {5, 6, 7}
    ClientFds = 2
    Chan = {ch1, ch2, ch3}
    NoChan = nochan
    NoItem = noitem
INVARIANTS
    TypeOK
    DescriptorsKept
PROPERTIES
    ImplementsDirectory
CHECK_DEADLOCK FALSE
