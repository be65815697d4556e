SPECIFICATION SessionSpec
CONSTANTS
  Images = {factory, good, dead}
  Factory = factory
  Mixed = mixed
  Accepted = {factory, good, dead}
  Sized = {factory, good, dead}
  Bootable = {factory, good, dead}
  Unstamped = {}
  Healthy = {factory, good}
  ChunkCount = 1
  AckWindow = 1
  Sessions = {1, 2}
  Listening = TRUE
  MaxResets = 1
  MaxFaults = 0
  StatusTries = 1
  MaxRetries = 0
  MaxAckTries = 1
  QueueMax = 1
  MaxStarts = 1
  MaxReverts = 0
PROPERTY RefusalIsHeard
CHECK_DEADLOCK FALSE
