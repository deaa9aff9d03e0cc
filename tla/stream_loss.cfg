SPECIFICATION Spec
CONSTANTS
  k1 = k1
  s1 = s1
  f1 = f1
  f2 = f2
  Keys = {k1}
  Subs = {s1}
  Feeds = {f1, f2}
  NoFeed = NoFeed
  Capacity = 1
  UpstreamCapacity = 1
  MaxSequence = 2
  UnreliableClient = FALSE
PROPERTY UpstreamLossIsAnnounced
