SPECIFICATION FairSpec
CHECK_DEADLOCK FALSE
CONSTANTS
  MOVING_AVG_SIZE = 2
  a1 = a1
  a2 = a2
  phone = phone
  phone2 = phone2
  ja = ja
  jb = jb
  foreman = foreman
  stranger = stranger
  t1 = t1
  t2 = t2
  t3 = t3
  Azimuth = {a1}
  NoAzimuth = NoAzimuth
  Address = {phone}
  NoAddress = NoAddress
  Juror = {ja, jb, foreman}
  JuryForeman = foreman
  Text = {t1, t2, t3}
  Speaker = {ja, jb, foreman, stranger}
  MethodGiven = {"REGISTERED_GRAPHICS", "NONREGISTERED_GRAPHICS"}
  InboxCapacity = 1
  RecvMayFail = TRUE
  CaptionFile <- MCOneFile
  MaxTime = 0
  VideoFrames = 1
  WaitOutcomes = {"reread", "hoisted", "elided"}
PROPERTIES
  VideoStarts
  WindowIsFullAgain
  SocketIsReleased
  FramesArePresented
  StreamCompletes
