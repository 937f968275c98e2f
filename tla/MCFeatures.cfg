SPECIFICATION FairResolverSpec
CONSTANTS
    FeatureRequests <- MCRequests
INVARIANTS
    ResolverTypeOK
    ResolvedIsClosed
    DependencyNeverMissing
PROPERTIES
    ResolutionEnds
