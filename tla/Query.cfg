CONSTANTS
    Name <- MCName
    Zone <- MCZone
    Pool <- MCPool
    Question <- MCQuestion
    MaxHops = 3
    MaxChanges = 2
SPECIFICATION FairSpec
INVARIANTS
    TypeOK
    AnswersAsDefined
    AnswersHangTogether
    PresentIsAnswered
PROPERTIES
    EveryQueryEnds
CHECK_DEADLOCK FALSE
