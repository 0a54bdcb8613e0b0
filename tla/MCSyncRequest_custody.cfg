SPECIFICATION Spec
CONSTANTS
  a = a
  b = b
  c = c
  Nobody = Nobody
  NoEnvelope = NoEnvelope
  Actors = {a, b}
  Calls <- OneCall
  Unbounded = {}
  Forgetful = {b}
  Legacy = {}
  Strangers = {a}
  Refusing = {b}
  Mangled = {a, b}
  Duplicating = TRUE
  MaxRequests = 2
  MaxInstances = 3
INVARIANTS TypeOK OwnAnswer  NothingPinned
PROPERTIES AwaitedIsKept
CHECK_DEADLOCK FALSE
