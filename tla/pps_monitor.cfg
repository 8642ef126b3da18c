\* The filter and the frame counter under a monitor that may be interrupted.
SPECIFICATION MonitorSpec
CONSTANTS
  CPUs = {c1}
  IPs = {a}
  NotIP = NotIP
  Ports = {p}
  NoPort = NoPort
  MAX_PACKETS = 2
  TIME_WINDOW = 1
  MAX_ENTRIES = 1
  WORD = 64
  MaxPackets = 3
  MaxOther = 1
  MaxTime = 1
INVARIANTS
  FramesAccounted
  CleanExit
  BanEarnedSinceClear
