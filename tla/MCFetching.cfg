SPECIFICATION FairSpec
CONSTANTS
  w1 = w1  w2 = w2  u1 = u1  u2 = u2  NoHeader = NoHeader
  Workers = {w1, w2}  Urls = {u1, u2}
  BaseDelay = 1  Poll = 1  Timeout = 2
  DefaultPause = 2  Fallback = 2  Headers <- SomeHeaders
  RetryBase = 1  RetryMax = 1  Jitter = 100  MaxAttempts = 2
  LongestTimer = 2  Skew = 1
INVARIANTS TypeOK PauseOvershoot
PROPERTIES RetryAfterHonoured WaitEnds ShutdownEnds
CHECK_DEADLOCK FALSE
