SPECIFICATION FairSpec
CONSTANTS
    DefaultPrecision = 3
    MaxAttempts = 4
    Symbols = {s1, s2}
    Environments <- Reliable
PROPERTIES
    ImplementsSubmission
    ExitLeavesNothing
    OrdersStayWhatTheyAre
    AnswerComes
CHECK_DEADLOCK FALSE
