SPECIFICATION SafetySpec
CONSTANTS
  k1 = k1
  s1 = s1
  s2 = s2
  f1 = f1
  f2 = f2
  Keys = {k1}
  Subs = {s1, s2}
  Feeds = {f1, f2}
  NoFeed = NoFeed
  Capacity = 2
  UpstreamCapacity = 1
  MaxSequence = 3
  UnreliableClient = FALSE
SYMMETRY StreamSymmetry
INVARIANTS
  TypeOK
  NoPanic
  OpenChannelIsServed
  NoSilentLoss
  EveryFeedIsOwned
PROPERTY ImplementsBus
