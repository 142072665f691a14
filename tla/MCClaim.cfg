SPECIFICATION Spec
CONSTANTS
  NoBody = NoBody
  Jobs = {j1}
  Sessions = {s1}
  MCBodies = {"answer", "boast"}
  Bodies <- MCBodies
  Content <- MCContent
  Goal <- MCGoal
  Samples = {}
  Kind <- MCKind
  CompletedAt <- MCCompletedAt
  Lifetime = 2
  MaxNow = 2
  Disruptions = {}
CHECK_DEADLOCK FALSE
INVARIANTS
  AnswersAreDocumented
