SPECIFICATION CertificateSpec
CONSTANTS
    NumCandidates = 3
    Order = 2
    Routes <- MCRoutes
    Here = 10
    CorridorHorizon = 4
    RoundTrip = 2
INVARIANTS Minimum DecisionsInformed
