\* Finding: two processes are given the same client id.
CONSTANTS
  p1 = p1
  p2 = p2
  t1 = t1
  t2 = t2
  t3 = t3
  Processes = {p1, p2}
  Threads = {t1, t2, t3}
  ProcessOf <- TwoAndOne
  f1 = f1
  f2 = f2
  Files = {f1, f2}
  Closed = Closed
  MaxFd = 3
SYMMETRY Symmetry
SPECIFICATION SessionsSpec
INVARIANT UniqueIds
CHECK_DEADLOCK FALSE
