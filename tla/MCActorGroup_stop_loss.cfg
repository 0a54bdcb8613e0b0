SPECIFICATION Spec
CONSTANTS
  g1 = g1
  g2 = g2
  a1 = a1
  a2 = a2
  w1 = w1
  c1 = c1
  c2 = c2
  c3 = c3
  Groups = {g1}
  Actors = {a1}
  Watchers = {w1}
  GroupOf <- OneGroup
  Envelopes <- Sends
  Contexts = {c1, c2}
  NoContext = NoContext
  Registered = {a1}
  PanicCreators = {}
  Recyclable = {a1}
  TickOff = {}
  Invalidating = {}
  MaxMailboxDepth = 0
  MaxTicks = 1
  MaxRepeats = 1
  MayStop = TRUE
SYMMETRY ContextSymmetry
INVARIANTS StopDrains
CHECK_DEADLOCK FALSE
