\* Two operands, each with an exception that can be masked.
SPECIFICATION CodeSpec
CONSTANTS
    NFrames = 2
    Size = 2
    Byte = {"jcc", "ljmp"}
    Relative = {"jcc"}
    Conditional = {"jcc"}
    Handler = {"ljmp"}
    Delta = 3
    EntryPoints = {2}
    IndirectTargets = {0, 1}
    Envs = {"real"}
    HeadBytes = 0
    Writable = {0, 1}
    WriteLens = {1}
    TlbSize = 3
    CleaningDelay = 2
    JitDelay = 2
    MaxQueue = 0
    MaxInFlight = 1
    MaxWrites = 1
    MaxPrev = 2
    Length <- MCLength
    InitMem <- MCInitMem
    DmaSlices <- MCDma
    NPages = 3
    TableFrames = {0, 1}
    WrapAt = 2
    ChunkSize = 2
    NTlb = 1
    MaxVersion = 2
    MaxEdits = 2
    W = 8
    ByteBits = 2
    Sizes = {1, 2, 3, 4}
    OddSize = 3
    Inputs <- MCInputs
    Families <- MCFamilies
    MaxCalls = 3
    RegOrder <- MCOrder
    Layout <- MCLayout
    Flags = {"f"}
    Programs <- MCTwoOperands
    Cpus <- MCOneEmpty
    NTemps = 1
INVARIANT CompiledExact
