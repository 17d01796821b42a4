CONSTANTS
  Addrs = {0, 1}
  Lanes = {1}
  Bytes = {0, 1}
SPECIFICATION FairSpec
INVARIANTS
  QuietWhenIdle
PROPERTIES
  ServesCore
  ChannelsHold
  Answered
