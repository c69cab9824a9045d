\* Two mailboxes, pages of two messages, three messages looked at and two threads
\* at the most.
SPECIFICATION RollupSpec
CONSTANTS
  x = x
  y = y
  Mailbox = {1, 2}
  Thread = {x, y}
  Unread <- MCUnread
  PageSize = 2
  ScanCap = 3
  MaxResults = 2
  Requested = {0, 1, 3}
  Since = 1
CHECK_DEADLOCK FALSE
INVARIANTS
  WholeUnlessTruncated
  CaughtUpExplained
