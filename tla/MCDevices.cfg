SPECIFICATION MCSpec
CONSTANTS
    \* Ide
    W = 2  Size = 2  Heads = 2  Spt = 2  Modes = {"lba"}  Data = {"a", "b"}
    Counts = {1, 2}  Limits = {2}  MaxCommands = 2  Packets <- MCPackets
    \* CowDisk, Fdc, Ppi
    SectorSize = 2  Sectors = 2  Cells = {"a"}  MaxWrites = 3  MaxRestores = 2
    FddValues = 2  Values = {1}  FddSpt = 2  Cylinders = {0, 1}  FddCommands = 2
    MaxQueue = 2  MaxDelta = 1
    \* Ne2k, Nat
    U = 2  PStart = 1  PStop = 5  Lengths = {1, 3}  Lines = {1, 2}  MaxFrames = 3
    Keys = {1}  Conns = {"c", "d"}  UdpRemotes = {"r"}  Locals = {"l", "m"}  Cap = 1  MaxPackets = 2
    \* Es1370, PitTimer
    Modulus = 8  Step = 2  SizeRegs = {1, 2}  SampleCounts = {7}  MaxRequired = 2
    Byte = 2  MaxGap = 2
    \* PageLoops
    CodePages <- MCPages
INVARIANTS HandshakeExact ContentsExact TransferExact FramesKept 
           InterruptReported CounterExact PageCodeExact
PROPERTIES ImplementsBlockDevice NoByteStranded
CHECK_DEADLOCK FALSE
