\* Two clients, two processing threads, two keys, distinct packets and rings that
\* wrap: every interleaving of calls.
SPECIFICATION PSpec
CONSTANTS
  Keys = {k1, k2}
  Clients = {c1, c2}
  Processors = {p1, p2}
  Handles = {h1, h2}
  Packets = {x1, x2}
  Empty = Empty
  NULL = NULL
  None = None
  Unset = Unset
  ResolveMayFail = FALSE
  Capacity = 2
  Interval = 1
  Slack = 1
  MaxLate = 2
  MaxLag = 0
  ClockSteps = {}
  MaxDue = 0
SYMMETRY Symmetry
INVARIANTS
  TypeOK
  RotationComplete
  AddressesOwned
  DispatchAddressLive
  NoUseAfterDelete
  OneProcessor
  PromiseKept
PROPERTIES
  QuietShutdown
  ImplementsFifo
