\* Three keys, so that a waiting key can be passed by two others; addresses that do
\* not resolve, packets without bytes, a system clock that is set forward and back.
SPECIFICATION PSpec
CONSTANTS
  Keys = {k1, k2, k3}
  Clients = {c1}
  Processors = {p1}
  Handles = {h1, h2, h3}
  Packets = {x1, Empty}
  Empty = Empty
  NULL = NULL
  None = None
  Unset = Unset
  ResolveMayFail = TRUE
  Capacity = 1
  Interval = 1
  Slack = 1
  MaxLate = 2
  MaxLag = 0
  ClockSteps <- BackAndForth
  MaxDue = 1
SYMMETRY Symmetry
INVARIANTS
  AddressesOwned
  DispatchAddressLive
  RotationIsEraseInsert
PROPERTY OvertakenOnce
