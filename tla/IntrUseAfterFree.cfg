CONSTANTS
  Threads = {cpu, clock, net}
  Owner = cpu
  Requests = {r1, r2}
SPECIFICATION Spec
INVARIANT SafeAccess
CHECK_DEADLOCK FALSE
