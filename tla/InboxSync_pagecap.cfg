\* More mail than one drain lists.
SPECIFICATION Spec
CONSTANTS
  Thread = {t1}
  MaxMail = 2
  PageCap = 1
  Faults = {}
  MaxAborts = 0
INVARIANTS
  NoMailLost
