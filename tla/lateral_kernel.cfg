\* Two interfaces, two perf rings polled in any order, rings that overflow.
SPECIFICATION MonitorSpec
CONSTANTS
  CPUs = {c1, c2}
  Machines = {m1, m2}
  None = None
  ALERT_THRESHOLD = 1
  RING = 2
  MaxPackets = 4
  MaxTime = 3
INVARIANTS
  AlertIsReal
  AlertInOrder
  FirstMoveDetected
  CleanEnd
