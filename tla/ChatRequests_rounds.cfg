SPECIFICATION FairSpec
CONSTANTS
    r1 = r1
    r2 = r2
    s1 = s1
    s2 = s2
    s3 = s3
    s4 = s4
    a = a
    b = b
    g = g
    h = h
    z = z
    Request = {r1}
    Streams = {}
    Session = {s1, s2, s3, s4}
    Model = {a, b, g, h, z}
    NoSession = NoSession
    ModelOf <- MCModelOf
    Configured = {a, b, g, h}
    Serving = {a}
    Backend = {a, b}
    Weight <- MCWeight
    Fallbacks <- MCFallbacks
    Route <- MCRoute
    RecoverMs = 0
    MaxToolRounds = 5
    MaxAge = 1
INVARIANTS
    FailureMeansAllFailed
PROPERTIES
    RequestsReturn
