SPECIFICATION Spec
CONSTANTS
  w1 = w1  w2 = w2  s = s  a = a  b = b  c = c  x = x
  Urls = {s, a}  NoUrl = NoUrl
  Workers = {w1, w2}
  Seed = s
  Links <- SmallLinks  Location <- SmallLocation  Answers <- SmallAnswers
  OutOfScope = {}
  InitMaxUrls = 1  NewMaxUrls = {2}
  MaxDepth = 1  MaxBytes = 0
  RuntimeLimit = TRUE
  MaxAttempts = 2  MaxRedirects = 1  MaxInfra = 2  MarkAttempts = 2
  Signals = FALSE  Crashes = TRUE  LostAcks = FALSE
  MaxFaults = 3  MaxSessions = 2
SYMMETRY Symmetry
INVARIANTS ClaimExclusive InProgressOwned DiscoveryComplete NoQueuedLeft AttemptBudget BytesCountedOnce
PROPERTIES CompleteIsFinal ImplementsQueue
