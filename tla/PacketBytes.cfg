\* Four slots; packets of one, two and five bytes for vectors of four.
SPECIFICATION BytesSpec
CONSTANTS
  Capacity = 4
  Packets <- MCPackets
  Empty <- MCEmpty
  Byte = {0, 1}
  Junk = Junk
  MaxSize = 5
  Modulus = 32
INVARIANTS
  RingTypeOK
  RingIsBacklog
  DrainIsPops
  LossIsTheNextPacket
  SlotsHoldPackets
  SentAsTaken
