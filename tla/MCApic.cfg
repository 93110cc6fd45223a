CONSTANTS
  Lines = {0}
  Vectors = {201, 241}
  Priorities = {0, 192}
  GuestEntries <- MCGuestEntries
  SyncGuest = {"eoi", "tpr", "icr", "disable", "low", "high", "if", "pulse"}
  AsyncGuest = {"eoi", "tpr", "low", "if"}
  CPU = cpu
  Devices = {clock}
SPECIFICATION Spec
INVARIANT IntrExact
PROPERTIES PulseDelivered ServiceLegal EligibleServed
