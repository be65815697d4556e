SPECIFICATION HubSpec
CONSTANTS
  c1 = c1
  c2 = c2
  n1 = n1
  n2 = n2
  NoOne = NoOne
  Clients <- MCClients
  Nodes <- MCNodes
  Uses <- MCUses
  Pages = 2
  PilotWindow = 1
  MaxInbound = 2
  MaxTurns = 3
SYMMETRY Sym
INVARIANTS StreamHasAudience StreamIsHeld ReportsAreGivenBack TablesAreToldWhole
  ViewsAreWatched BoardIsTarget
CHECK_DEADLOCK FALSE
