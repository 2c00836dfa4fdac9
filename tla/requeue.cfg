SPECIFICATION Spec
CONSTANTS
  Items = {1}
  NoUrlItems = {}
  RefusedItems = {}
  MaxTasks = 2
  Gids = {g1, g2}
  NoGid = NoGid
  Scheduler = "sched"
  QueuePasses = {"sched", "retry"}
  ItemSubmits = {}
  SyncPasses = {"sched"}
  Hooks = {}
  Editors = {}
  CompleteEvents = {"bt-complete"}
  QueueLimit = 2
  SyncLimit = 2
  MaxFaults = 0
  g1 = g1
  g2 = g2
PROPERTY QueueOnlyUntriggered
SYMMETRY GidSymmetry
