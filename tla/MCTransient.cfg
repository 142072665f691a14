SPECIFICATION Spec
CONSTANTS
  NoBody = NoBody
  Jobs = {j1}
  Sessions = {s1}
  Ok = {ok1}
  Error = {}
  Invalid = {}
  Opaque = {}
  Postdated = {}
  Bodies <- MCBodies
  Kind <- MCKind
  CompletedAt <- MCCompletedAt
  Lifetime = 2
  MaxNow = 3
  Disruptions = {"raw"}
CHECK_DEADLOCK FALSE
PROPERTIES
  RetriedUntilDeadline
