CONSTANTS
    Name <- MCName
    Zone <- MCReverseZone
    Pool <- MCReversePool
    Question <- MCReverseQuestion
    MaxHops = 5
    MaxChanges = 1
SPECIFICATION FairSpec
INVARIANTS
    ReverseIsAnswered
CHECK_DEADLOCK FALSE
