SPECIFICATION Spec
CONSTANTS
  BTC = BTC
  SOL = SOL
  c1 = c1
  c2 = c2
  k1 = k1
  k2 = k2
  Symbols = {BTC, SOL}
  DefaultSymbol = BTC
  DemoSymbols = {BTC}
  Sockets = {k1, k2}
  NoSocket = NoSocket
  NoTimer = NoTimer
  Calls = {c1, c2}
  FoundArmed = TRUE
  MaxSequence = 2
  MaxMoves = 1
  MaxFaults = 1
INVARIANTS
  TypeOK
  OneStream
  NeverStranded
  StreamFollowsSelection
  NoEventSkipped
  QuietAfterDestroy
PROPERTIES
  StreamRecovers
  StatusConverges
CHECK_DEADLOCK FALSE
