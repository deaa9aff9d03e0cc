SPECIFICATION Spec
CONSTANTS
  t1 = t1
  t2 = t2
  Threads = {t1, t2}
  NoThread = NoThread
  Keys <- TwoKeys
  AddressOf <- TwoAddresses
  Files <- ManyFiles
  Roles <- ManyRoles
  Offered = {"createOrder", "cancelAllOrders", "account", "orders", "markets", "health", "toggleOn", "toggleOff", "stream", "switch"}
INVARIANTS
  TypeOK
  WritesStayOnTheirNetwork
  ArmedOnlyWhereTradable
  SignersFitTheirNetwork
  NoStreamOnInactiveNetwork
  StatusIsOfOneConfiguration
PROPERTIES
  ImplementsContract
  EveryRequestIsAnswered
  StreamsFollowTheNetwork
