\* One thread, two replies, and every fault.
SPECIFICATION FairSpec
CONSTANTS
  Thread = {t1}
  Window = 1
  CaptureAll = TRUE
  Faults = {"llm", "write", "away", "stale", "redrain", "retention"}
  NoRow = NoRow
  MaxSends = 2
  MaxCalls = 2
  MaxTime = 1
  MaxCuts = 1
INVARIANTS
  TypeOK
  EvidenceBounded
  LessonsLostExplained
PROPERTIES
  SentSideStands
  LearnsEventually
