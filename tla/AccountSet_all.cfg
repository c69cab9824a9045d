\* Two mailboxes; the owner connects and disconnects one of them.
SPECIFICATION FairSpec
CONSTANTS
  Account = {a1, a2}
  NoAccount = NoAccount
  Busy = {a1}
  MaxTokens = 2
INVARIANTS
  TypeOK
  SkippedForCause
PROPERTIES
  DisconnectTakesEffect
  ConnectTakesEffect
CHECK_DEADLOCK FALSE
