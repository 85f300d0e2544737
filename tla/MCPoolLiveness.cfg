SPECIFICATION FairSpec
CONSTANTS
  w1 = w1  w2 = w2  s = s  a = a  b = b  c = c  x = x
  Urls = {s, a}  NoUrl = NoUrl
  Workers = {w1, w2}
  Seed = s
  Links <- SmallLinks  Location <- SmallLocation  Answers <- SlowAnswers
  OutOfScope = {}
  InitMaxUrls = 2  NewMaxUrls = {}
  MaxDepth = 1  MaxBytes = 0
  RuntimeLimit = TRUE
  MaxAttempts = 2  MaxRedirects = 1  MaxInfra = 1  MarkAttempts = 1
  Signals = TRUE  Crashes = FALSE  LostAcks = FALSE
  MaxFaults = 2  MaxSessions = 1
PROPERTIES PoolEnds StopEnds
