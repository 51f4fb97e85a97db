\* One client and one processing thread against a clock with several ticks
\* to an interval; no clock adjustments.
SPECIFICATION PaceSpec
CONSTANTS
  Keys = {k1, k2}
  Clients = {c1}
  Processors = {p1}
  Handles = {h1, h2}
  Packets = {x1}
  Empty = Empty
  NULL = NULL
  None = None
  Unset = Unset
  ResolveMayFail = FALSE
  Capacity = 1
  Interval = 3
  Slack = 2
  MaxLate = 9
  MaxLag = 2
  ClockSteps = {}
  MaxDue = 0
SYMMETRY Symmetry
INVARIANTS
  NeverEarly
  BookedAhead
  BurstBounded
  LevelFollowsDue
