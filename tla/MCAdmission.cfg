SPECIFICATION FairSpec
CONSTANTS
  c1 = c1  c2 = c2  c3 = c3  a = a  b = b  d = d  e = e
  Callers = {c1, c2, c3}
  Urls = {a, b, d, e}  NoUrl = NoUrl
  MaxUrls = 1
INVARIANTS TypeOK CounterMatchesRows Overshoot
PROPERTIES ImplementsContract CallsReturn
