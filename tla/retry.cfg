SPECIFICATION FairSpec
CONSTANTS
  Tasks = {1}
  PlainTasks = {}
  Scheduler = "sched"
  Hooks = {"hook"}
  Clicks = {"click"}
  MaxRetries = 3
  PassLimit = 50
  MaxFaults = 1
INVARIANT TypeOK
INVARIANT AnnouncedOnce
PROPERTY SettledStays
PROPERTY RetrySettles
