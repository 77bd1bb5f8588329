SPECIFICATION ReaderSpec
CONSTANTS
    t1 = t1  t2 = t2  s1 = s1  s2 = s2  m1 = m1  m2 = m2  m3 = m3
    Thread <- Threads
    Sid <- TwoSids
    Mid <- TwoMids
    NoThread = NoThread
    NoSid = NoSid
    NoMsg = NoMsg
    SerialClients = FALSE
    WritesMayFail = TRUE
    MaxTime = 0
    MaxRestarts = 1
\* The system may stop: every thread may hang, or the bounds be used up.
CHECK_DEADLOCK FALSE
SYMMETRY Symmetry
INVARIANTS MemoryAgreesWithDisk AckedSurvives
    ListFitsTheCall HistoryHoldsTheAcked
PROPERTIES EraseIsFinal
