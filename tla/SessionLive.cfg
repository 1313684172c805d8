SPECIFICATION FairSpec
CHECK_DEADLOCK FALSE
CONSTANTS
  WindowSize <- MCSizes
  StartSize <- MCWide
  MethodGiven = {"REGISTERED_GRAPHICS"}
  NotRead = NotRead
  Key = {"escape", "other"}
  QueueCapacity = 1
  MaxMoves = 1
PROPERTIES
  QuitIsHonoured
  LastEscapeQuits
  EventuallyFillsWindow
