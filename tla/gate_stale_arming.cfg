SPECIFICATION ArrivalSpec
CONSTANTS
  t1 = t1
  t2 = t2
  t3 = t3
  Threads = {t1, t2, t3}
  NoThread = NoThread
  Keys <- TwoKeys
  AddressOf <- TwoAddresses
  Files <- OneFile
  Roles <- OneRole
  Offered = {"toggleOn", "switch", "createOrder"}
SYMMETRY ThreadSymmetry
INVARIANTS
  ArmedOnTheNetworkSeen
