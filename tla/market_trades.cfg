SPECIFICATION Spec
CONSTANTS
  s1 = s1
  Sessions = {s1}
  Readers = {s1}
  Channels = {"trades"}
  QueueCapacity = 2
  BufferCapacity = 2
  MaxVersion = 3
  MaxFaults = 0
INVARIANTS
  TradesAreForwarded
