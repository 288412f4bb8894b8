\* Two deferred and two plain refreshes, fair, a hub that changes twice.
SPECIFICATION FairSpec
CONSTANTS
  Deferred = {d1, d2}
  Plain = {p1, p2}
  None = None
  MaxVersion = 2
INVARIANTS OneAtATime WaitersAreServed
PROPERTIES ChannelNeverGoesBack WaitersReturn
CHECK_DEADLOCK FALSE
