SPECIFICATION Spec
CHECK_DEADLOCK FALSE
CONSTANTS
  WindowSize <- MCSizes
  StartSize <- MCWide
  MethodGiven = {"REGISTERED_GRAPHICS", "NONREGISTERED_GRAPHICS_WITH_ARROWS"}
  NotRead = NotRead
  Key = {"q", "down"}
  QueueCapacity = 2
  MaxMoves = 2
INVARIANTS
  TypeOK
  TearsOneFrame
  LocalsOutliveThreads
  LastSizeArrives
PROPERTIES
  QuitIsKept
  LostOnlyToAnotherKey
