SPECIFICATION Spec
CONSTANTS
  FirstPoolSize = 2
  Margin = 3
  MaxAreas = 2
  Inputs <- SortInputs
  Comparable <- SortComparable
  Below <- SortBelow
  Values = {1, 2}
  MinSize = 1
  BlockSize = 3
  MaxEntries = 7
  FuncCount = 3
  ClassCount = 1
  Programs <- CheckPrograms
  Key <- PairKey
  Strangers = {"s1", "s2"}
  Junk = "junk"
  Waiters = {"t1", "t2", "t3"}
INVARIANTS
  FreeItemsAreThere
  MarginIsKept
  DisorderIsQueued
  NoItemLost
  EntriesAreFound
  BlocksHoldTheirEntries
  LoopsEndWithTheList
  ParallelIsExact
  ArgumentsReachTheirParameters
  IntegersAreExact
  CompiledExpressionsMean
  ExpressionsAreReadAsWritten
  FilesAreReadAsWritten
  NamesReachTheirStorage
  ProjectIsResolved
  ImportsAreFound
  FoldersEndAsAsked
  PairIsOwnConnection
  ConnectsOrCleansUp
  PollsWhatIsWaitedFor
CHECK_DEADLOCK FALSE
