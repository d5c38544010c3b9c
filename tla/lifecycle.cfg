SPECIFICATION Spec
CONSTANTS
  t1 = t1
  t2 = t2
  s1 = s1
  s2 = s2
  Threads = {t1, t2}
  Statements = {s1, s2}
  MaxCalls = 5
INVARIANTS TypeOK PrefetchKeepsItsObjects ReaderExclusive
PROPERTY AllEnd
CHECK_DEADLOCK FALSE
