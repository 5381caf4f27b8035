SPECIFICATION Spec
CONSTANTS
  Blocks = 8
  WordBits = 2
  Caller = {shell, program}
  Size = {4, 5, 20, 64}
  BlockSize = 8
  DescSize = 4
INVARIANTS
  CounterAgrees
