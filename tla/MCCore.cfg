CONSTANTS
  Threads = {emu, clock, net}
  Owner = emu
  Requests = {r1, r2}
  PageSize = 2  NPages = 2  RamFrames = 2  WrapAt = 1  ShmPage <- MCShmPage  ChunkSize = 1
  Leaves <- MCLeaves  Dirs <- MCDirs  Maps <- MCMaps  Crs <- MCCrs  Lines = {TRUE, FALSE}
  Accesses <- MCAccesses  Boots <- MCBoots  MaxEdits = 1
SPECIFICATION CoreSpec
INVARIANTS CountExact NoUnderflow DrainedBeforeFree AccessExact DirtyTracked
PROPERTIES DropTerminates RoundTrip EventuallyShown
CHECK_DEADLOCK FALSE
