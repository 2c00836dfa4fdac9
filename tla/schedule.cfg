SPECIFICATION Spec
CONSTANTS
  MaxTime = 8
  Crontabs <- SomeCrontabs
  Intervals <- SomeIntervals
  Default = 2
  Width = 8
INVARIANT DueAgrees
INVARIANT NotAtOnce
