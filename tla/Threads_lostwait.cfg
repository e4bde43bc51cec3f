SPECIFICATION Spec
CONSTANTS
  main = main
  t1 = t1
  t2 = t2
  m = m
  c = c
  None = None
  Ones = Ones
  Main = main
  Thread <- Two
  Mutex <- NoObject
  Cond <- NoObject
  Calls <- WaitOnly
  Delays <- OneDelay
  MaxSlice = 2
  Wrap = 4
  MaxLate = 4
PROPERTIES WaitEnds
