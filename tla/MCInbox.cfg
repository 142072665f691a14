SPECIFICATION Spec
CONSTANTS
  NoBody = NoBody
  NoToken = NoToken
  Keys = {k1, k2}
  Tokens = {t1, t2}
  Bodies = {b1, b2}
  Handlers = {h1, h2}
  MaxNow = 2
  MaxPosts = 2
SYMMETRY Symmetric
INVARIANTS
  TypeOK
  AcceptedIsStored
  RejectedForAnother
  StoredByHolderInTime
  ReadsAgree
PROPERTIES
  ExpectationKept
  ReplayAnswered
  InboxSpec
