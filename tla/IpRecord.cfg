SPECIFICATION IpSpec
CONSTANTS
    Links = {"rfc894", "802.3", "vlan"}
    Types = {2048, 2054}
    Versions = {4, 6}
    IpOptions = {0, 3}
    TcpOptions = {0, 3}
    Offsets = {8192, 185}
    Protocols = {1, 6, 17}
    MachineNames = {0, 5}
    Verifiers = {0, 6}
    Groups = {0, 2}
    Programs = {100003, 100000}
    Bodies = {0, 1, 500}
    Cuts = {0, 1, 9}
INVARIANTS
    SameFrames
    RecordedIffNfs
    HeadersExact
CHECK_DEADLOCK FALSE
