SPECIFICATION LiveSpec
CONSTANTS
  ReadSize = 2
  PipeSize = 4
  NumItems = 4
  MaxArgs = 4
  MaxMenus = 3
  MaxOutput = 4
  MaxRuns = 2
  Faults = {"open", "map", "fork"}
CHECK_DEADLOCK FALSE
INVARIANT TypeOK
INVARIANT TailKept
INVARIANT LoopOrdered
INVARIANT MenusExact
PROPERTY ImplementsDialog
PROPERTY RunReturns
