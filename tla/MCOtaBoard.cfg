SPECIFICATION FairSpec
CONSTANTS
  Images = {factory, good, dead, broken, alien, huge, elf}
  Factory = factory
  Mixed = mixed
  Accepted = {factory, good, dead, broken}
  Sized = {factory, good, dead, broken, alien, elf}
  Bootable = {factory, good, dead, elf}
  Unstamped = {elf}
  Healthy = {factory, good}
  ChunkCount = 2
  AckWindow = 2
  Sessions = {1}
  Listening = FALSE
  MaxResets = 3
  MaxFaults = 1
INVARIANTS BoardInv NeverBricked RunsTrusted OneTrial InterlockHolds
PROPERTY BootCompletes
CHECK_DEADLOCK FALSE
