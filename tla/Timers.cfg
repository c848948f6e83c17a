SPECIFICATION Spec
CONSTANTS
  Wrap = 32
  Period = 5
  Second = 3
  FloatExact = 4
  Secs = {1, 6, 11}
  Freqs = {2}
  MaxStep = 1
  Jumps <- OnAndBack
  MaxJumps = 1
INVARIANTS
  KeepalivesFrequent
  LoopNotLate
PROPERTIES
  KeepalivesSpaced
  LoopNotEarly
