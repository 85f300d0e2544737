SPECIFICATION Spec
CONSTANTS
  w1 = w1  w2 = w2  s = s  a = a  b = b  c = c  x = x
  Urls = {s, a, b, c, x}  NoUrl = NoUrl
  Workers = {w1, w2}
  Seed = s
  Links <- WideLinks  Location <- WideLocation  Answers <- WideAnswers
  OutOfScope = {x}
  InitMaxUrls = 3  NewMaxUrls = {}
  MaxDepth = 1  MaxBytes = 2
  RuntimeLimit = FALSE
  MaxAttempts = 2  MaxRedirects = 1  MaxInfra = 2  MarkAttempts = 2
  Signals = TRUE  Crashes = FALSE  LostAcks = FALSE
  MaxFaults = 0  MaxSessions = 1
SYMMETRY Symmetry
INVARIANTS TypeOK DiscoveryComplete RetryAwaited BytesMatchDone ByteOvershoot DropsReported
PROPERTIES SettledIsFinal
