\* Every test at four rates, with one other process at a time.
SPECIFICATION Spec
CONSTANTS
  Pids = {p1, p2, p3, p4, p5}
  NoPid = NoPid
  Tests = {"cpu", "file-read", "net", "suspicious-mem", "fork-flood", "mixed", "benign-mixed", "malicious-mixed"}
  RATES <- Rates
  ITER = 2
  StartupOpens = 1
  MemOpens = 2
  Forks = 4
  MaxRuns = 4
  MaxOthers = 1
  MaxCalls = 1
INVARIANTS
  TypeOK
  StartsClean
  
SYMMETRY PidSymmetry
