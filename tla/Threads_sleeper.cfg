SPECIFICATION Spec
CONSTANTS
  main = main
  t1 = t1
  t2 = t2
  m = m
  c = c
  None = None
  Ones = Ones
  Main = main
  Thread <- Three
  Mutex <- OneMutex
  Cond <- NoObject
  Calls <- OneSleeper
  Delays <- ShortDelays
  MaxSlice = 2
  Wrap = 4
  MaxLate = 4
INVARIANTS ClockExact NeverEarly JoinWaits
