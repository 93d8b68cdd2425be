SPECIFICATION NetworkSpec
CONSTANTS
    Addresses = {1, 2, 3, 4}
    Ports = {7, 8}
    STUN_ADDRS = 4
    Byte = 256
    Recent = 1
    Header = 3
    Entry = 2
    Buffer = 7
    MaxTime = 2
    Wifi = {"wlan0", "p2p0"}
    Other = {"rmnet0"}
    Addrs = {1, 2}
    MaxChanges = 3
    Bits = 5
    Hosts = 8
INVARIANTS
    InterfacesRight TableRight
PROPERTIES
    RepliesRight InRange WalkProbes
CHECK_DEADLOCK FALSE
