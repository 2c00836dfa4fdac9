SPECIFICATION Spec
CONSTANTS
  Tasks = {1, 2}
  PlainTasks = {}
  Scheduler = "sched"
  Hooks = {"hook"}
  Clicks = {"click"}
  MaxRetries = 3
  PassLimit = 50
  MaxFaults = 0
PROPERTY RecordedPathIsKept
