SPECIFICATION Spec
CONSTANTS
  MaxSubs = 3
  Guids = {"g"}
  Dirs = {d1, d2}
  NoDir = NoDir
  Savers = {s1, s2}
  Submitters = {get}
  Sorters = {sort}
  Scheduler = sched
  MaxEvents = 3
SYMMETRY Symmetry
INVARIANT OneInternal
INVARIANT AcceptedStays
PROPERTY SaveAloneAgrees
CHECK_DEADLOCK FALSE
