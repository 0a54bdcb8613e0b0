SPECIFICATION FairSpec
CONSTANTS
  g1 = g1
  g2 = g2
  a1 = a1
  a2 = a2
  w1 = w1
  c1 = c1
  c2 = c2
  c3 = c3
  Groups = {g1}
  Actors = {a1, a2}
  Watchers = {w1}
  GroupOf <- OneGroup
  Envelopes <- WatchTraffic
  Contexts = {c1, c2}
  NoContext = NoContext
  Registered = {a1}
  PanicCreators = {}
  Recyclable = {a1}
  TickOff = {a1}
  Invalidating = {a1}
  MaxMailboxDepth = 0
  MaxTicks = 1
  MaxRepeats = 1
  MayStop = FALSE
INVARIANTS NoStranded
PROPERTIES ImplementsVirtualActor WatchersKept IdleIsRecycled
