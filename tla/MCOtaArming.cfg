SPECIFICATION SessionSpec
CONSTANTS
  Images = {factory, good}
  Factory = factory
  Mixed = mixed
  Accepted = {factory, good}
  Sized = {factory, good}
  Bootable = {factory, good}
  Unstamped = {}
  Healthy = {factory, good}
  ChunkCount = 1
  AckWindow = 1
  Sessions = {1, 2}
  Listening = TRUE
  MaxResets = 3
  MaxFaults = 0
  StatusTries = 1
  MaxRetries = 0
  MaxAckTries = 1
  QueueMax = 1
  MaxStarts = 2
  MaxReverts = 0
INVARIANT ArmedIsProven
CHECK_DEADLOCK FALSE
