SPECIFICATION Spec
CONSTANTS
    t1 = t1  t2 = t2  s1 = s1  s2 = s2  m1 = m1  m2 = m2  m3 = m3
    Thread <- Threads
    Sid <- OneSid
    Mid <- TwoMids
    NoThread = NoThread
    NoSid = NoSid
    NoMsg = NoMsg
    SerialClients = FALSE
    WritesMayFail = FALSE
    MaxTime = 0
    MaxRestarts = 0
\* The system may stop: every thread may hang, or the bounds be used up.
CHECK_DEADLOCK FALSE
INVARIANT NoSelfDeadlock
