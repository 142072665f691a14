SPECIFICATION Spec
CONSTANTS
  NoBody = NoBody
  Jobs = {j1}
  Sessions = {s1, s2}
  Ok = {ok1, ok2}
  Error = {err}
  Invalid = {}
  Opaque = {blob}
  Postdated = {}
  Bodies <- MCBodies
  Kind <- MCKind
  CompletedAt <- MCCompletedAt
  Lifetime = 2
  MaxNow = 2
  Disruptions = {"crash", "shutdown", "inbox", "swap", "raw", "journal", "redirect"}
SYMMETRY Symmetric
CHECK_DEADLOCK FALSE
INVARIANTS
  IInv
  AtMostOnePost
  AnswersArePinned
PROPERTIES
  ContractSpec
  TaskOutlivesJob
  CoroutinesEnd
