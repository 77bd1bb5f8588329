SPECIFICATION FairSpec
CONSTANTS
    Families <- AllFamilies
    Sent <- UpToThreeParts
INVARIANTS
    AnswerIsWhatWasShown
    PiecesDoNotMatter
    EveryTextArrives
    AnswersEnd
PROPERTY StreamReturns
\* A stream that has returned does nothing more.
CHECK_DEADLOCK FALSE
