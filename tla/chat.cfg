SPECIFICATION FairSpec
CONSTANTS
  Addresses = {alice}
  MaxPeers = 2
  MaxReceived = 3
INVARIANT TypeOK GhostExplained AnnouncedInOrder ConnectFirst OnHandlerThread HandlerKnown
PROPERTY JoinAnnounced Quits
CHECK_DEADLOCK FALSE
