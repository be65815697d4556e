SPECIFICATION FairSpec
CONSTANTS
  Phases <- MCPhases
  Links <- MCLinks
  Attached <- MCAttached
  Broadcast = all
  MaxNodes = 2
  MaxHops = 2
  Expiry = 2
  SeqCount = 3
  Senders = {"hub", "drone"}
  Unsteady = {"drone"}
  MaxEvents = 2
INVARIANTS RoutesLead DeliveredOnce
PROPERTY PresenceConverges
CHECK_DEADLOCK FALSE
