SPECIFICATION Spec
CONSTANTS
  Items = {1}
  NoUrlItems = {}
  RefusedItems = {}
  MaxTasks = 2
  Gids = {g1, g2}
  NoGid = NoGid
  Scheduler = "sched"
  QueuePasses = {}
  ItemSubmits = {"click"}
  SyncPasses = {"sched"}
  Hooks = {"hook"}
  Editors = {"edit"}
  CompleteEvents = {"file-complete"}
  QueueLimit = 2
  SyncLimit = 2
  MaxFaults = 1
  g1 = g1
  g2 = g2
INVARIANT TypeOK
INVARIANT SubmittingHasOwner
INVARIANT GidOwnedOnce
INVARIANT ItemAgreesWithTask
INVARIANT EndIsJustified
SYMMETRY GidSymmetry
PROPERTY KeepsLedger
CONSTRAINT FaultOrEdit
