SPECIFICATION FairSpec
CONSTANTS
    MaxCalls = 6
    MaxFaults = 2
INVARIANTS PointerHasItsChain OneDiscovery SectionResumesItsCore
PROPERTIES PointerMovesForward DoneIsVerified PreparedIsPublished
