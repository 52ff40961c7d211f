SPECIFICATION FairSpec
CONSTANTS
  Limit = 2
  ChannelCap = 2
  MaxEvents = 5
INVARIANTS NoSilentGap StampedOnce
PROPERTIES ImplementsDelivery StableSessionCatchesUp
