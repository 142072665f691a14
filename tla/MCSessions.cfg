SPECIFICATION Spec
CONSTANTS
  NoBody = NoBody
  Jobs = {j1}
  Sessions = {s1, s2}
  Ok = {ok1, ok2}
  Error = {err}
  Invalid = {bad}
  Opaque = {}
  Postdated = {ok2}
  Bodies <- MCBodies
  Kind <- MCKind
  CompletedAt <- MCCompletedAt
  Lifetime = 2
  MaxNow = 3
  Disruptions = {"crash", "shutdown", "inbox", "raw"}
SYMMETRY Symmetric
CHECK_DEADLOCK FALSE
INVARIANTS
  TypeOK
  FailedIsProven
  DispatchedIsAccepted
  DigestPinsStoredBody
  OpenJobHasTask
PROPERTIES
  PostIsJournaled
  RegistersBeforePost
  ReadyUntilLost
  RejectionHasReason
  StoreSpec
