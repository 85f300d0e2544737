SPECIFICATION FairSpec
CONSTANTS
  p1 = p1  p2 = p2  NoLimit = NoLimit
  Procs = {p1, p2}
  Environments <- SmallRun  CommandLines <- RaisingLines
  Interval = 1  MaxLate = 1  Delay = 1  Skew = 1  StaleAfter = 6
  Suspends = FALSE  LostAcks = FALSE
INVARIANTS TypeOK OneOwner PageExclusive
PROPERTIES TakeoverOfDead CompleteIsFinal ResumeRaises ImplementsLease CrashedResumable
