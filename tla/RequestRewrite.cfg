SPECIFICATION Spec
CONSTANTS
    None = None
    Malformed = Malformed
    RoutePaths <- MCRoutePaths
    Identifiers <- MCIdentifiers
    PlanVersions <- MCPlanVersions
    Headers <- MCHeaderNames
    Documents <- MCDocuments
    Clients <- MCClients
    KeyTable <- MCKeyTable
INVARIANT ValidConfigMeters
INVARIANT EnforcedAsListed
INVARIANT ForwardedAsMeant
CHECK_DEADLOCK FALSE
