CONSTANTS
    Cursors = {a, b, c}
    EmptyCursor = EmptyCursor
    NoCursor = NoCursor
    Limits = {50}
    NoLimit = NoLimit
SPECIFICATION FairSpec
INVARIANTS
    NoPageTwice
    FollowsCursors
    ExhaustedAtEnd
    DeliveredInOrder
PROPERTY CollectAllReturns
