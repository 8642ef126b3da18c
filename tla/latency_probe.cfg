\* Frames measured, passed and dropped, while the monitor reads and clears.
SPECIFICATION LatencySpec
CONSTANTS
  CPUs = {c1}
  IPs = {a}
  NotIP = NotIP
  Ports = {}
  NoPort = NoPort
  MAX_PACKETS = 1
  TIME_WINDOW = 1
  MAX_ENTRIES = 1
  WORD = 64
  MaxPackets = 2
  MaxOther = 1
  MaxTime = 2
INVARIANTS
  EveryFrameMeasured
  BusyWithinTime
  LatencyAccounted
