SPECIFICATION FairSpec
CONSTANTS
  a = a
  b = b
  q = q
  Actors = {a, b}
  Calls <- OneCall
  Timeouts = {TRUE}
  TickOff = {a, b}
  Lasting = {b}
  Mangled = {a}
  Refusing = {b}
  Duplicating = TRUE
  OuterCalls = {q}
  OuterTarget = b
  Untimed = {q}
  Deferring = {}
  MaxRequests = 1
  MaxInstances = 3
INVARIANTS TypeOK MirrorExact OpenIsRegistered
PROPERTIES ImplementsAsyncCall OuterReturns
CHECK_DEADLOCK FALSE
