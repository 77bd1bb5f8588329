SPECIFICATION Spec
CONSTANTS
    r1 = r1
    r2 = r2
    s1 = s1
    s2 = s2
    s3 = s3
    s4 = s4
    a = a
    b = b
    g = g
    h = h
    z = z
    Request = {r1, r2}
    Streams = {r2}
    Session = {s1}
    Model = {a, b, g, h, z}
    NoSession = NoSession
    ModelOf <- MCModelOf
    Configured = {a, b, g, h}
    Serving = {a, b}
    Backend = {a, b}
    Weight <- MCWeight
    Fallbacks <- MCNoFallbacks
    Route <- MCRoute
    RecoverMs = 0
    MaxToolRounds = 1
    MaxAge = 1
INVARIANTS
    ConversationsAreWellFormed
    QuestionIsRead
    MetricsAddUp
    NothingFollowsTheAnswer
