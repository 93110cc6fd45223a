CONSTANTS
  Lines = {0, 8}
  CPU = cpu
  Devices = {clock}
  Reinit = {1}
  SyncGuest = {"eoi", "seoi", "imr", "icw", "if", "hlt", "pulse", "clear"}
  AsyncGuest = {"eoi", "if"}
SPECIFICATION Spec
INVARIANT RequestExact
PROPERTIES ServiceLegal ReadyServed StaleIntrEnds
