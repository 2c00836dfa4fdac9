CONSTANTS
  Notes = {1, 2, 3}
  FailNotes = {2}
  NoTimer = 0
  MaxEdits = 1
  MaxFaults = 1
SPECIFICATION FairSpec
INVARIANTS
  TypeOK
  SentOnce
  BatchWillGo
PROPERTIES
  WindowKept
  Delivered
\* Every notification is queued once, so the system comes to rest.
CHECK_DEADLOCK FALSE
