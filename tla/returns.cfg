CONSTANTS
    Own = {e1}
    Others = {o1, f1}
    Forged = {f1}
    Refused = {}
    AuthId = AuthId
    NoId = NoId
    NoSub = NoSub
    CallerSubs = {}
    AuthRequired = TRUE
    MaxCalls = 1
    MaxChallenges = 2
    ChanCap = 1
    Ops = {"publish", "query", "poll", "poll_event"}
    RecvLimit = 3
SPECIFICATION FairSpec
INVARIANT QueryExact
PROPERTY PublishReturns
PROPERTY QueryReturns
