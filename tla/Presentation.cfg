SPECIFICATION PresentationSpec
CONSTANTS
  IntHalf = 16
  TextPosition <- MCTextPosition
  TextSize <- MCTextSize
  AzimuthX <- CInt
  HalfFov = 3
  WindowHeight <- MCWindowHeight
  ScreenWidth = 12
  CaptionY <- MCCaptionY
  ArrowSize <- MCArrowSize
INVARIANTS
  PlacementTypeOK
  DrawsWhatIsInView
  ClipsInPlace
  ArrowBesideText
