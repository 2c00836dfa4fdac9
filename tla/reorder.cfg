SPECIFICATION Spec
CONSTANTS
  MaxSubs = 3
  Guids = {"g"}
  Dirs = {d1, d2}
  NoDir = NoDir
  Savers = {s1}
  Submitters = {get}
  Sorters = {sort}
  Scheduler = sched
  MaxEvents = 3
PROPERTY ListedOrderAccepted
CHECK_DEADLOCK FALSE
