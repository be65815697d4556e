SPECIFICATION Spec
CONSTANTS
  AgeMax = 2
  MaxGap = 1
  Modes = {"LEVEL", "ALTITUDE_AUTO"}
  Throttles = {"zero", "low", "away", "rim", "centre"}
  Measurements <- MCMeasurements
  RcTimeout = 1
  TiltConfirm = 1
  RecoveryTimeout = 1
  SpinupLead = 0
  ImuFaultFrames = 2
INVARIANTS FlightInv PilotPresent ThrowIsNeeded TakeoverIsEarned
PROPERTY StartsAtRest
