\* Fair threads, addresses that do not resolve, packets without bytes, a system clock
\* that is set forward and back; no symmetry, as liveness is checked.
SPECIFICATION FairSpec
CONSTANTS
  Keys = {k1, k2}
  Clients = {c1}
  Processors = {p1}
  Handles = {h1, h2}
  Packets = {x1, Empty}
  Empty = Empty
  NULL = NULL
  None = None
  Unset = Unset
  ResolveMayFail = TRUE
  Capacity = 1
  Interval = 1
  Slack = 1
  MaxLate = 2
  MaxLag = 1
  ClockSteps <- BackAndForth
  MaxDue = 1
PROPERTIES
  EventuallyServed
  EventuallyReaped
  DestroyCompletes
