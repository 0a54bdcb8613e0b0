SPECIFICATION FairSpec
CONSTANTS
  x = x
  y = y
  q = q
  g = g
  h = h
  t = t
  u = u
  Actors = {x, y}
  Queues = {q}
  Groups = {g, h}
  GroupOf <- GroupsOf
  Crowded = {h}
  Types = {t, u}
  Interests <- Wishes
  Closable = {q}
  OuterQueueMaxDepth = 1
  MaxAsked = 4
INVARIANTS TypeOK OuterBounded
PROPERTIES ImplementsTopic
CHECK_DEADLOCK FALSE
