SPECIFICATION OneOrderSpec
CONSTANTS
  Images = {factory, good, dead}
  Factory = factory
  Mixed = mixed
  Accepted = {factory, good, dead}
  Sized = {factory, good, dead}
  Bootable = {factory, good, dead}
  Unstamped = {}
  Healthy = {factory, good}
  ChunkCount = 2
  AckWindow = 2
  Sessions = {1}
  Listening = TRUE
  MaxResets = 2
  MaxFaults = 0
  StatusTries = 1
  MaxRetries = 1
  MaxAckTries = 2
  QueueMax = 2
  MaxStarts = 1
  MaxReverts = 1
INVARIANTS AckedIsWritten
PROPERTIES ConfirmedIsTrue SessionEnds
CHECK_DEADLOCK FALSE
