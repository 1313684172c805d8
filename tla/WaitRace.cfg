SPECIFICATION Spec
CHECK_DEADLOCK FALSE
CONSTANTS
  MOVING_AVG_SIZE = 2
  a1 = a1
  a2 = a2
  phone = phone
  phone2 = phone2
  ja = ja
  jb = jb
  foreman = foreman
  stranger = stranger
  t1 = t1
  t2 = t2
  t3 = t3
  Azimuth = {a1, a2}
  NoAzimuth = NoAzimuth
  Address = {phone}
  NoAddress = NoAddress
  Juror = {ja, jb, foreman}
  JuryForeman = foreman
  Text = {t1, t2, t3}
  Speaker = {ja, jb, foreman, stranger}
  MethodGiven = {"REGISTERED_GRAPHICS", "NONREGISTERED_GRAPHICS",
                 "NONREGISTERED_GRAPHICS_WITH_ARROWS", "CONTROL", "UNKNOWN"}
  InboxCapacity = 1
  RecvMayFail = FALSE
  CaptionFile <- MCShortFiles
  MaxTime = 0
  VideoFrames = 2
  WaitOutcomes = {"reread", "hoisted", "elided"}
INVARIANTS
  WaitsForPhone
