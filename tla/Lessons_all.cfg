\* One correspondent, three outcomes, two distillers, and an owner who acts once.
SPECIFICATION Spec
CHECK_DEADLOCK FALSE
CONSTANTS
  s1 = s1
  j1 = j1
  j2 = j2
  j3 = j3
  Sender = {s1}
  Reply = {j1, j2, j3}
  NoReply = {j3}
  SenderOf <- MCSenderOf
  Rule = {"brief"}
  Quiet = "quiet"
  Threshold = 1
  MaxStore = 1
  MaxBrief = 1
  Distiller = {d1, d2}
  None = None
  MaxFaults = 1
  MaxOwner = 1
INVARIANTS
  ForgottenIsNotBriefed
  ClearedStaysCleared
  BackfilledOnce
PROPERTIES
  AgentVoiceKept
