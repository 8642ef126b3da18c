\* One address, samples at any time, two ports of which one is blocked.
SPECIFICATION FairSpec
CONSTANTS
  IPs = {a}
  NoIP = NoIP
  Ports = {p, q}
  port_blacklist = {q}
  MAX_PACKETS = 2
  TIME_WINDOW = 2
  MaxPackets = 4
  MaxSamples = 2
  MaxTime = 4
INVARIANTS
  TypeOK
  NothingLost
  DropsExceedByOne
PROPERTIES
  HandlerReturns
  ImplementsFilter
