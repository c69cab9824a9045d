\* Two mailboxes; the owner connects and disconnects one of them.
SPECIFICATION Spec
CONSTANTS
  Account = {a1, a2}
  NoAccount = NoAccount
  Busy = {a1}
  MaxTokens = 2
  Life = 2
  Buffer = 1
INVARIANTS
  LapseExplained
  NudgeExplained
