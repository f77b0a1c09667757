CONSTANTS
  Threads = {t1, t2, t3}
  Values = {v1, v2}
  None = None
  Torn = Torn
SPECIFICATION Spec
INVARIANT OneValue
PROPERTIES WrittenOnce GetOrInitReturns
