SPECIFICATION Spec
CHECK_DEADLOCK FALSE
CONSTANTS
  Number <- MCNumber
  CaptionedSection <- MCCaptionedSection
  Omitted = Omitted
INVARIANTS
  ExitsAlone
  PlaysKnownSection
  NothingMissing
