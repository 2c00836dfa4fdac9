SPECIFICATION FairSpec
CONSTANTS
  Items = {1, 2, 3}
  NoUrlItems = {}
  RefusedItems = {1}
  MaxTasks = 2
  Gids = {g1, g2}
  NoGid = NoGid
  Scheduler = "sched"
  QueuePasses = {"sched"}
  ItemSubmits = {}
  SyncPasses = {"sched"}
  Hooks = {}
  Editors = {}
  CompleteEvents = {"bt-complete"}
  QueueLimit = 2
  SyncLimit = 1
  MaxFaults = 1
  g1 = g1
  g2 = g2
INVARIANT DownloadAccounted
INVARIANT OneLiveDownload
INVARIANT NotifiedOnce
PROPERTY QueueOnlyUntriggered
PROPERTY WaitingIsSubmitted
PROPERTY EndIsRecorded
PROPERTY KeepsLifecycle
INVARIANT AnswersAreRead
