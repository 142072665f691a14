SPECIFICATION FairSpec
CONSTANTS
  NoBody = NoBody
  Jobs = {j1}
  Sessions = {s1, s2}
  Ok = {}
  Error = {}
  Invalid = {bad}
  Opaque = {}
  Postdated = {}
  Bodies <- MCBodies
  Kind <- MCKind
  CompletedAt <- MCCompletedAt
  Lifetime = 2
  MaxNow = 3
  Disruptions = {"crash"}
CHECK_DEADLOCK FALSE
PROPERTIES
  SettledWhileServed
