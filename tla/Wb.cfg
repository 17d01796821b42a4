CONSTANTS
  Addrs = {0, 1}
  Lanes = {0, 1}
  Bytes = {0, 1}
  MaxWait = 1
SPECIFICATION FairSpec
PROPERTIES
  ServesCore
  Answered
