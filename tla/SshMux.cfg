SPECIFICATION FairMuxSpec
CONSTANTS
  Gaps = {3}
  MaxRequests = 2
  MaxTicks = 2
  MaxAlive = 1
INVARIANT MuxTypeOK
PROPERTIES ChannelReplies RelayHadItsChance NoOrphanWork
CHECK_DEADLOCK FALSE
