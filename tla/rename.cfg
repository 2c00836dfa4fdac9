SPECIFICATION Spec
CONSTANTS
  Tasks = {1, 2}
  PlainTasks = {}
  Scheduler = "sched"
  Hooks = {"hook"}
  Clicks = {"click"}
  MaxRetries = 3
  PassLimit = 1
  MaxFaults = 0
INVARIANT EveryRawIsRetried
INVARIANT FinalPathValid
PROPERTY OwnFileOnly
CONSTRAINT NoMishap
