\* Two CPUs, one address: every interleaving of lookups and updates.
SPECIFICATION FairSpec
CONSTANTS
  CPUs = {c1, c2}
  IPs = {a}
  NotIP = NotIP
  Ports = {}
  NoPort = NoPort
  MAX_PACKETS = 2
  TIME_WINDOW = 2
  MAX_ENTRIES = 1
  WORD = 64
  MaxPackets = 4
  MaxOther = 1
  MaxTime = 3
INVARIANTS
  TypeOK
  
PROPERTIES
  NoEntryAfterBan
  FloodResolved
