SPECIFICATION FairSpec
CONSTANTS
  c1 = c1  c2 = c2  c3 = c3
  p1 = p1  p2 = p2
  Cells = {c1, c2, c3}
  Producers = {p1, p2}
  Loop = Loop
  Builds <- TwoBuilds
  Nil = Nil
  Sentinel = Sentinel
  H1 = H1
  H2 = H2
INVARIANT TailIsReachable
PROPERTIES FifoSpec RegisteredIsServed
