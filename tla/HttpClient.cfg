SPECIFICATION FairSpec
CONSTANTS
    Calls <- SomeCalls
    Hosts <- SomeHosts
    Answers <- SomeAnswers
    Tunnels <- SomeTunnels
INVARIANTS
    DescriptorsAreReturned
PROPERTIES
    OnlyTheUnansweredIsRepeated
    StallsAreGivenUp
    KeepsTheContract
\* The call has returned, or the process is gone.
CHECK_DEADLOCK FALSE
