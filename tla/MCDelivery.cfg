SPECIFICATION FairSpec
CONSTANTS
  NoBody = NoBody
  Jobs = {j1}
  Sessions = {s1, s2}
  MCBodies = {"answer", "dated", "refusal", "leak", "wide", "lone"}
  Bodies <- MCBodies
  Content <- MCContent
  Goal <- MCGoal
  Samples <- MCSamples
  Kind <- MCKind
  CompletedAt <- MCCompletedAt
  Lifetime = 2
  MaxNow = 2
  Disruptions = {"crash", "shutdown", "inbox", "raw"}
CHECK_DEADLOCK FALSE
INVARIANTS
  RulesAreDocumented
  AnswersAreTolerated
  OutcomeFitsBody
  ToldIsAccepted
PROPERTIES
  RecordFitsBody
  EveryJobRecovers
