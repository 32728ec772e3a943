SPECIFICATION Spec
CONSTANTS
    Parts = {"etm", "deframe", "width", "time", "bench", "coalesce"}
    Addresses <- MCAddresses
    AtomLists <- MCAtoms
    Others = {12, 102}
    Slips = {3}
    MaxPackets = 4
    IDs = {1, 2}
    Source <- MCSource
    Changes = {0, 7}
    Fillers = {3}
    Missed = {3}
    DelayedToo = TRUE
    MaxFrames = 2
    LongStream = 36
    check_frames = 2
    scan = 18
    Sent <- MCSent
    PortWidths = {1, 2, 4}
    AsyncZeros = 2
    Halves <- MCHalves
    Depth = 6
    Room = 8
    Stride = 2
    Wrap = 8
    Pauses = {1, 5}
    MaxArms = 1
    Procs = {p1, p2}
    Commands = {"burn_fpga", "tap_set_width", "etm_width", "etm_enable", "clear_curtpm", "stream_link", "diag", "diag_deep"}
    Bitstreams = {"pin_la"}
    Flash = "clktap_stream"
    Kind <- MCKind
    Widths = {"2"}
    MaxMoves = 3
    MaxEvents = 1
    MaxSeq = 8
    MaxSpan = 4
SYMMETRY Invocations
INVARIANTS
    FlowRight
    CapturesRight
    BenchRight
    RunsRight
CHECK_DEADLOCK FALSE
