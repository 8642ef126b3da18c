\* One CPU, two addresses, room in every map: the sequential behaviour.
SPECIFICATION Spec
CONSTANTS
  CPUs = {c1}
  IPs = {a, b}
  NotIP = NotIP
  Ports = {p}
  NoPort = NoPort
  MAX_PACKETS = 2
  TIME_WINDOW = 2
  MAX_ENTRIES = 2
  WORD = 64
  MaxPackets = 4
  MaxOther = 1
  MaxTime = 4
INVARIANTS
  AtMostMaxPass
PROPERTIES
  ImplementsFilter
