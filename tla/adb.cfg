SPECIFICATION Spec
CONSTANTS
    MaxPackets = 4
    MaxSockets = 2
    Size = 3
    MaxWritten = 6
    MaxPlugs = 1
    MaxTransfers = 3
    MaxFd = 2
    MaxCalls = 4
    Vms = {1, 2}
    Pid <- MCPid
    MaxOut = 1
    MaxFds = 2
    MaxTracks = 1
    Transports = {1, 2}
    UsbTransports = {1}
    Ports = {1}
    MaxReconnect = 1
    MaxForwards = 2
    Version = 26
    Old = 25
    MaxServers = 9
INVARIANTS
    TransfersRight
    ThreadsSafe
    RegistryTrue
PROPERTIES
    AdbSettles
CHECK_DEADLOCK FALSE
