\* Two CPUs in the filter of cpu_monitor.c under a monitor that is signalled.
SPECIFICATION MonitorSpec
CONSTANTS
  CPUs = {c1, c2}
  IPs = {a}
  NotIP = NotIP
  Ports = {}
  NoPort = NoPort
  MAX_PACKETS = 2
  TIME_WINDOW = 1
  MAX_ENTRIES = 1
  WORD = 64
  MaxPackets = 4
  MaxOther = 1
  MaxTime = 2
  MaxSignals = 2
  MaxRows = 1
INVARIANTS
  
  AtMostMaxPassUnraced
  CountedIsStamped
  FloodHandled
  CleanExit

  
