SPECIFICATION Spec
CONSTANTS
  k1 = k1
  k2 = k2
  s1 = s1
  f1 = f1
  f2 = f2
  Keys = {k1, k2}
  Subs = {s1}
  Feeds = {f1, f2}
  NoFeed = NoFeed
  Capacity = 1
  UpstreamCapacity = 1
  MaxSequence = 2
  UnreliableClient = TRUE
PROPERTIES
  CancelledFeedsEnd
  ResetStreamsEnd
