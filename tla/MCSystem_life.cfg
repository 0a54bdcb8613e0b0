SPECIFICATION FairSpec
CONSTANTS
  a = a
  b = b
  c = c
  d = d
  u = u
  v = v
  w = w
  Starters = {a}
  Stoppers = {c, d}
  Deadlines = {d}
  Senders = {v}
  GroupCount = 2
  To <- ToThree
  MayBlock = {1}
  Registered = {0, 1}
  MaxMailboxDepth = 1
  GroupMailboxDepthFactor = 1
  MaxSends <- Once
  MaxTicks = 1
INVARIANTS StopIsQuiet
CHECK_DEADLOCK FALSE
PROPERTIES  ShutdownEnds
