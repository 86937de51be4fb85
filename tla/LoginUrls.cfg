SPECIFICATION Spec
CONSTANTS
    PortalUrl <- MCPortal
    Proto <- MCProto
    Host <- MCHost
    Uri <- MCUri
INVARIANTS
    InductiveInvariant
    ReturnsWhereAsked
CHECK_DEADLOCK FALSE
