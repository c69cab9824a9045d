\* Two messages, three parcels of which two share a number, two workers.
CHECK_DEADLOCK FALSE
SPECIFICATION FairSpec
CONSTANTS
  a1 = a1
  a2 = a2
  n1 = n1
  n2 = n2
  m1 = m1
  m2 = m2
  Account = {a1, a2}
  Number = {n1, n2}
  Message = {m1, m2}
  AccountOf <- MCAccountOf
  NumbersOf <- MCNumbersOf
  Coded = {m2}
  Worker = {w1, w2}
  MaxActive = 1
  BatchSize = 1
  Stage = {"InTransit", "Delivered"}
  Terminal = {"Delivered"}
  Moves <- MCMoves
  Faults = {"db", "push", "late", "track17", "crash"}
  None = None
  MaxFaults = 1
  MaxDrains = 2
INVARIANTS
  OnceOnly
  LimitOverrunBounded
  MarkedIsTold
PROPERTIES
  ToldInTheEnd
