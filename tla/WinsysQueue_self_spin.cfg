SPECIFICATION FairSpec
CONSTANTS
  p = p
  q = q
  winsys = winsys
  display = display
  focus = focus
  Producer = {p, q}
  Listener = winsys
  Interrupted = {p}
  Depth = 1
  Op = {display, focus}
  NoOp = NoOp
  Size = 4
  Burst = 3
INVARIANT NeverSelfSpin
