SPECIFICATION Spec
CONSTANTS
  Addresses = {"home", "lan"}
  Loopback = {"home"}
  LocalOnly = TRUE
  Burst = 1
  Rate = 1
  MaxTime = 1
  Cases <- AllCases
INVARIANTS
  TypeOK
  BudgetKept
  PostedIsTradable
  MarketOrdersCross
  CloseFitsPosition
