SPECIFICATION PromptSpec
CONSTANTS
    Texts <- SomeTexts
    Windows <- SomeWindows
    MaxMessages = 3
    Orders <- TwoFamilies
    MaxToolRounds = 2
    Registrations <- SomeRegistrations
    ToolNames <- Names
    Replies <- SomeReplies
INVARIANTS
    LoopIsFit
    QuestionSurvives
    OverrunIsBounded
    EveryCallHasItsResult
    TellsTheHistory
    ArgumentsSurvive
\* The request has returned.
CHECK_DEADLOCK FALSE
