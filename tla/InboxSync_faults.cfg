\* Two threads and every fault.
SPECIFICATION FairSpec
CONSTANTS
  Thread = {t1, t2}
  MaxMail = 2
  PageCap = 2
  Faults = {"lost", "redelivered", "message", "auth", "expiry"}
  MaxAborts = 1
INVARIANTS
  TypeOK
  FlaggedHasClaim
  NoneSilentlyPassed
  NoReprocessing
  RepliedIsUnflagged
PROPERTIES
  HandoverSpec
  CatchesUpInHistory
