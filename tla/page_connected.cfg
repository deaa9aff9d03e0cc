SPECIFICATION SafetySpec
CONSTANTS
  BTC = BTC
  SOL = SOL
  c1 = c1
  c2 = c2
  k1 = k1
  k2 = k2
  Symbols = {BTC, SOL}
  DefaultSymbol = BTC
  DemoSymbols = {BTC}
  Sockets = {k1, k2}
  NoSocket = NoSocket
  NoTimer = NoTimer
  Calls = {c1, c2}
  FoundArmed = FALSE
  MaxSequence = 2
  MaxMoves = 1
  MaxFaults = 0
SYMMETRY PageSymmetry
INVARIANT ConnectedIsShown
CHECK_DEADLOCK FALSE
