SPECIFICATION FairStartup
CONSTANTS
  Nobody = Nobody
  Processes = {p1, p2}
  Requests = {r1}
  MaxRotations = 2
  MaxRows = 2
CHECK_DEADLOCK FALSE
INVARIANTS
  StartupTypeOK
  NotAllRefused
  ServesConfigured
PROPERTIES
  MarkIsSound
  SettledJournalKept
  EveryStartEnds
