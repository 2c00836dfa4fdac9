SPECIFICATION FairSpec
CONSTANTS
  Subs = {1}
  Entries = {1, 2}
  SubOf <- OneFeed
  Keywords <- BothKept
  BareEntries = {2}
  NoSub = NoSub
  NoEntry = NoEntry
  Scheduler = "sched"
  Refreshers = {"refresh"}
  Clicks = {"click"}
  MaxEvents = 2
INVARIANT TypeOK
INVARIANT SavedBeforeMarked
INVARIANT NothingLeftBehind
PROPERTY DeletedIsQuiet
PROPERTY PollNeverRequeues
PROPERTY EntrySaved
