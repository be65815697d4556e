SPECIFICATION RearmSpec
CONSTANTS
  AgeMax = 2
  MaxGap = 1
  Modes = {"LEVEL", "ALTITUDE_AUTO"}
  Throttles = {"zero", "away", "centre"}
  Measurements <- MCMeasurements
  RcTimeout = 1
  TiltConfirm = 1
  RecoveryTimeout = 1
  SpinupLead = 0
  ImuFaultFrames = 2
PROPERTIES RearmIsDeliberate DisarmEndsFlight
