SPECIFICATION FairSpec
CONSTANTS
  Hub = hub
  Peers = {p, q}
  Slots = {1}
  Retries = 2
  MaxId = 4
  MaxEvents = 4
  NetMax = 2
INVARIANTS MessengerInv DirectoryIsTold
PROPERTIES AckMeansDelivered EveryoneSettles
CHECK_DEADLOCK FALSE
