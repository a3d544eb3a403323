CONSTANTS
  Bases = {b1, b2}
  Images = {i1, i2}
  None = None
  MaxChanges = 3
SPECIFICATION FairSpec
INVARIANTS PollInv FollowerAgrees
PROPERTIES NoRepeatedEvent FeedSpec FollowerCatchesUp
