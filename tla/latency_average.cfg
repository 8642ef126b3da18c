\* The row against the mean of what was read; the program of latency_vide.c.
SPECIFICATION LatencySpec
CONSTANTS
  CPUs = {c1, c2}
  IPs = {}
  NotIP = NotIP
  Ports = {}
  NoPort = NoPort
  MAX_PACKETS = 1
  TIME_WINDOW = 2
  MAX_ENTRIES = 1
  WORD = 64
  MaxPackets = 0
  MaxOther = 2
  MaxTime = 3
INVARIANT RowIsMean
