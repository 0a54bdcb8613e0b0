SPECIFICATION Spec
CONSTANTS
  g1 = g1
  g2 = g2
  a1 = a1
  a2 = a2
  w1 = w1
  c1 = c1
  c2 = c2
  c3 = c3
  Groups = {g1}
  Actors = {a1, a2}
  Watchers = {w1}
  GroupOf <- OneGroup
  Envelopes <- TwoActorSends
  Contexts = {c1, c2, c3}
  NoContext = NoContext
  Registered = {a1, a2}
  PanicCreators = {a2}
  Recyclable = {a1, a2}
  TickOff = {}
  Invalidating = {}
  MaxMailboxDepth = 0
  MaxTicks = 1
  MaxRepeats = 1
  MayStop = FALSE
SYMMETRY ContextSymmetry
INVARIANTS RegisteredServed
CHECK_DEADLOCK FALSE
