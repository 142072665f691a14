SPECIFICATION Spec
CONSTANTS
  NoBody = NoBody
  Jobs = {j1}
  Bodies = {b1, b2}
  Connections = {c1, c2, c3}
  Deadlines = {1, 2}
SYMMETRY Symmetric
INVARIANTS
  TypeOK
  ReadyHasDigest
PROPERTIES
  FollowsStateGraph
  EvidenceFrozen
