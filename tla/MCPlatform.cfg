SPECIFICATION Spec
CONSTANTS
    p1 = p1
    p2 = p2
    Nobody = Nobody
    Plants <- MCPlants
    HashWindow = 3
    RcTimeout = 1
    MaxTick <- MCMaxTick
    MaxWall = 2
    MaxWire = 2
    MaxEvents = 2
    Firmware = {"v1", "v2", "mute", "junk"}
    First = "v1"
    Genuine = {"v1", "v2", "mute"}
    Answering = {"v1", "v2"}
    MaxUpdates = 3
    MaxCuts = 3
    MaxFlashFaults = 1
    Lengths = {1, 2, 3, 5}
    MaxTransfers = 3
    Attempts = 2
    TicksPerRead = 2
    FreshAge = 3
    MaxTicks = 8
    Sync0 = 10
    Sync1 = 11
    MaxPayload = 2
    TxRingSize = 16
    RxRingSize = 8
    ReadChunk = 3
    Capacity = 1
    Payloads <- MCPayloads
    Noise = {10}
    MaxLineFaults = 1
INVARIANTS RunIsOne CleanRunIsWhole CoreTimeAdvances BootIsWhole
    BurstIsWhole FrameIsOfNow LineIsWhole
CHECK_DEADLOCK FALSE
