SPECIFICATION Spec
CONSTANTS
  NoBody = NoBody
  Jobs = {j1}
  Sessions = {s1, s2}
  Ok = {ok1}
  Error = {}
  Invalid = {}
  Opaque = {}
  Postdated = {}
  Bodies <- MCBodies
  Kind <- MCKind
  CompletedAt <- MCCompletedAt
  Lifetime = 2
  MaxNow = 3
  Disruptions = {}
SYMMETRY Symmetric
CHECK_DEADLOCK FALSE
INVARIANTS
  PinnedIsNotAbandoned
