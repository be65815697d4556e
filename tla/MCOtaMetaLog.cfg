SPECIFICATION Spec
CONSTANTS
  States = {s0, s1}
  Default = s0
  NoWrite = NoWrite
  SlotCount = 2
  CounterMax = 5
INVARIANT LogInv
PROPERTY RegisterSpec
