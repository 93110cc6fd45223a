\* As MCInstrCache, with DMA transfers that start inside a frame.
SPECIFICATION Spec
CONSTANTS
    NFrames = 2
    Size = 2
    Byte = {"jcc", "ljmp"}
    Relative = {"jcc"}
    Conditional = {"jcc"}
    Handler = {"ljmp"}
    Delta = 3
    EntryPoints = {0}
    IndirectTargets = {0, 1}
    Envs = {"real"}
    HeadBytes = 0
    Writable = {0, 1}
    WriteLens = {1}
    TlbSize = 3
    CleaningDelay = 2
    JitDelay = 2
    MaxQueue = 0
    MaxInFlight = 1
    MaxWrites = 1
    MaxPrev = 3
    Length <- MCLength
    InitMem <- MCInitMem
    DmaSlices <- MCDmaUnaligned
INVARIANT
    CleanFramesCurrent
