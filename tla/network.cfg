\* One program, a gateway and a host on the net.
SPECIFICATION Spec
CONSTANTS
    Ethrx = ethrx
    Arp = arp
    Icmp = icmp
    Udprx = udprx
    ConTx = contx
    ConRx = conrx
    EthNotifier = ethnotifier
    ConNotifier = connotifier
    Genesis = genesis
    app1 = app1
    app2 = app2
    App = {app1, app2}
    Server = {ethrx, arp, icmp, udprx, contx, conrx}
    Task = {ethrx, contx, ethnotifier, connotifier, genesis, app1, app2}
    Nobody = nobody
    Fd = {3, 4, 5, 6}
    ConPort = conport
    GenesisPort = genesisport
    p1 = p1
    p2 = p2
    p3 = p3
    Port = {conport, genesisport, p1, p2, p3}
    gw = gw
    host = host
    far = far
    Ip = {gw, host, far}
    Gateway = gw
    OnNet = {gw, host}
    IpHash <- HashOfIps
    PortHash <- HashOfPorts
    ARP_MAX = 1
    ADDRMAP_MAX = 2
    PORTMAP_MAX = 4
    UDP_BUF_MAX = 4
    RX_BUF_MAX = 1
    RX_TIDS_MAX = 1
    TIMEOUT = 1
    NETSRR_PORT = p1
    NETSRR_RUNS = 1
    NoItem = noitem
    NoPkt = nopkt
    Frame <- Frames
    Traffic <- FramesInOrder
    Programs <- ProgramsOfTwo
INVARIANTS
    TypeOK
    ClientsNamedOnce
    RecordsInOrder
    MacsAnnounced
PROPERTIES
    SendsEnd
    FramesServed
CHECK_DEADLOCK FALSE
