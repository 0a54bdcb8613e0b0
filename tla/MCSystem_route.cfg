SPECIFICATION Spec
CONSTANTS
  a = a
  b = b
  c = c
  d = d
  u = u
  v = v
  w = w
  Starters = {a, b}
  Stoppers = {d}
  Deadlines = {}
  Senders = {u, v, w}
  GroupCount = 2
  To <- Recipients
  MayBlock = {}
  Registered = {0}
  MaxMailboxDepth = 1
  GroupMailboxDepthFactor = 1
  MaxSends <- Sends
  MaxTicks = 0
INVARIANTS TypeOK  EntryOvershoot
SYMMETRY Symmetry
CHECK_DEADLOCK FALSE
