SPECIFICATION Spec
CONSTANTS
  c1 = c1
  c2 = c2
  Calls = {c1, c2}
  Oids = {"o1", "o2"}
  Symbols = {"BTC", "SPOT"}
  SymbolOf <- SymbolsOfTwo
  Listed = {"BTC"}
  Percents = {50, 100}
  Offered <- OneOfEach
  Positions <- LongOrShort
  MaxClock = 2
SYMMETRY CallSymmetry
INVARIANTS
  TypeOK
  NonceUsedOnce
  OkMeansAll
  CancelAllIsComplete
PROPERTIES
  CloseOnlyReduces
  ImplementsContract
