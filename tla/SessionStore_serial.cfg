SPECIFICATION UnreadSpec
CONSTANTS
    t1 = t1  t2 = t2  s1 = s1  s2 = s2  m1 = m1  m2 = m2  m3 = m3
    Thread <- Threads
    Sid <- TwoSids
    Mid <- TwoMids
    NoThread = NoThread
    NoSid = NoSid
    NoMsg = NoMsg
    SerialClients = TRUE
    WritesMayFail = FALSE
    MaxTime = 1
    MaxRestarts = 1
\* The system may stop: every thread may hang, or the bounds be used up.
CHECK_DEADLOCK FALSE
INVARIANTS DeleteIsDurable RestartShowsTheSame
PROPERTIES IsConversationLog CallsReturn
