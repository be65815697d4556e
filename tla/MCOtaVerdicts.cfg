SPECIFICATION SessionSpec
CONSTANTS
  Images = {factory, good, dead}
  Factory = factory
  Mixed = mixed
  Accepted = {factory, good, dead}
  Sized = {factory, good, dead}
  Bootable = {factory, good, dead}
  Unstamped = {}
  Healthy = {factory, good}
  ChunkCount = 1
  AckWindow = 1
  Sessions = {1}
  Listening = TRUE
  MaxResets = 1
  MaxFaults = 1
  StatusTries = 1
  MaxRetries = 0
  MaxAckTries = 1
  QueueMax = 1
  MaxStarts = 1
  MaxReverts = 0
PROPERTIES ConfirmedIsTrue RolledBackIsTrue
CHECK_DEADLOCK FALSE
