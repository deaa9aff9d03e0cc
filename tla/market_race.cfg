SPECIFICATION Spec
CONSTANTS
  s1 = s1
  s2 = s2
  Sessions = {s1, s2}
  Readers = {s1}
  Channels = {"book", "fills"}
  QueueCapacity = 2
  BufferCapacity = 1
  MaxVersion = 2
  MaxFaults = 1
INVARIANTS
  TypeOK
  NewestIsComing
  FillsArriveOnce
PROPERTIES
  ReadersCatchUp
