\* One thread and every fault: three turns and an owner turn meet on it.
SPECIFICATION FairSpec
CONSTANTS
  Thread = {t1}
  TTL = 2
  MaxAttempts = 2
  NoDraft = NoDraft
  Probe = Probe
  Asked = {t1}
  Faults = {"post", "gmail", "db", "probe", "user"}
  MaxDrafts = 2
  MaxCrashes = 1
INVARIANTS
  TypeOK
  WindowsApart
  DuplicatesExplained
PROPERTIES
  LeaseSpec
  SettledEventually
CHECK_DEADLOCK FALSE
