\* As MCInstrCache, with MOV CR0 as the instruction that changes the environment.
SPECIFICATION Spec
CONSTANTS
    NFrames = 2
    Size = 2
    Byte = {"jcc", "cr0"}
    Relative = {"jcc", "cr0"}
    Conditional = {"jcc"}
    Handler = {"cr0"}
    Delta = 3
    EntryPoints = {0}
    IndirectTargets = {0, 1}
    Envs = {"real", "protected"}
    HeadBytes = 0
    Writable = {0, 1}
    WriteLens = {1}
    TlbSize = 3
    CleaningDelay = 2
    JitDelay = 2
    MaxQueue = 0
    MaxInFlight = 1
    MaxWrites = 1
    MaxPrev = 3
    Length <- MCLength
    InitMem <- MCInitMemCr0
    DmaSlices <- MCDma
INVARIANT
    EnvCurrent
