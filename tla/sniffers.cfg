\* Two sniffers interleaving between any two accesses to the shared record.
SPECIFICATION FairSpec
CONSTANTS
  Threads = {t1, t2}
  None = None
  ALERT_THRESHOLD = 1
  MaxPackets = 2
  MaxTime = 2
INVARIANTS
  TypeOK
  AlertHasEvidence
  AlertIsReal
  FirstMoveDetected
  SniffersSurviveAlone
PROPERTIES
  InterruptEnds
