\* One client and one processing thread; every packet queued has bytes.
SPECIFICATION Spec
CONSTANTS
  Keys = {k1, k2}
  Clients = {c1}
  Processors = {p1}
  Handles = {h1, h2}
  Packets = {x1}
  Empty = Empty
  NULL = NULL
  None = None
  Unset = Unset
  ResolveMayFail = FALSE
  Capacity = 2
  Interval = 1
  Slack = 1
  MaxLate = 2
  MaxLag = 0
  ClockSteps = {}
  MaxDue = 0
SYMMETRY Symmetry
INVARIANT AcceptedPacketsKept
