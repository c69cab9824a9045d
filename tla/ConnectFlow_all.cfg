\* Two owners, two consents, and a dashboard that serves two requests at once.
SPECIFICATION FlowSpec
CONSTANTS
  Requester = {s1, s2}
  Consent = {c1, c2}
  Request = {r1, r2}
  TTL = 2
SYMMETRY Alike
CHECK_DEADLOCK FALSE
INVARIANTS
  VerifierTakenOnce
  SavedForItsSender
PROPERTIES
  FreshIsKept
