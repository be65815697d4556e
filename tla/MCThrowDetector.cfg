SPECIFICATION Spec
CONSTANTS
  AgeMax = 3
  MaxGap = 2
  ThrustMin = 2
  FreeFallConfirm = 2
  ReleaseTimeout = 2
  ExitConfirm = 2
  Rises = {0, 3}
  MaxFrames = 5
INVARIANT ThrowIsCaught
PROPERTIES ThrowIsReal ImplementsPort
