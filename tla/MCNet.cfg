SPECIFICATION NetSpec
CONSTANTS
    Parts = {"selftx", "registers", "dump", "capture"}
    HdrBytes = 1
    Payload = 2
    HdrLimit = 2
    SendLimit = 2
    BackoffLimit = 2
    EchoLens = {1, 2}
    Readers = {"fpga_id", "ddr3", "blackbox", "dump"}
    Builds <- MCBuilds
    Depth = 5
    CHUNK = 2
    PrevGens = {0, 1}
    Retries = 2
    Late = TRUE
    MaxEvents = 1
    MaxGen = 2
    Tools = {"recv", "endurance", "recvmmsg", "grab"}
    NumMod = 8
    First = 6
    P = 3
    RingSize = 8
    MaxWrite = 6
    SockMax = 2
    WriteErrors = TRUE
    MaxPackets = 3
INVARIANTS
    FramesRight
    ReadoutRight
    CaptureRight
PROPERTIES
    NetEnds
CHECK_DEADLOCK FALSE
