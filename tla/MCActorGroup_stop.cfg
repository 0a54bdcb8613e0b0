SPECIFICATION FairSpec
CONSTANTS
  g1 = g1
  g2 = g2
  a1 = a1
  a2 = a2
  w1 = w1
  c1 = c1
  c2 = c2
  c3 = c3
  Groups = {g1}
  Actors = {a1}
  Watchers = {w1}
  GroupOf <- OneGroup
  Envelopes <- Load
  Contexts = {c1, c2}
  NoContext = NoContext
  Registered = {a1}
  PanicCreators = {a1}
  Recyclable = {a1}
  TickOff = {}
  Invalidating = {a1}
  MaxMailboxDepth = 1
  MaxTicks = 1
  MaxRepeats = 1
  MayStop = TRUE
INVARIANTS TypeOK AtMostOneInstance QuietAfterStop EnvelopesBounded
PROPERTIES StopTerminates
CHECK_DEADLOCK FALSE
