SPECIFICATION Spec
CONSTANTS
  Size <- MCSize
  Producers = {p1, p2}
  Serialised = TRUE
  WithCallback = TRUE
  MaxOffered = 7
INVARIANTS
  TypeOK
  NoSlotRace
  NothingLeaks
PROPERTIES
  IsBoundedFifo
