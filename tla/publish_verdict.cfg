CONSTANTS
    Own = {e1}
    Others = {}
    Forged = {}
    Refused = {}
    AuthId = AuthId
    NoId = NoId
    NoSub = NoSub
    CallerSubs = {}
    AuthRequired = TRUE
    MaxCalls = 1
    MaxChallenges = 1
    ChanCap = 2
    Ops = {"publish"}
    RecvLimit = 3
SPECIFICATION Spec
INVARIANT RejectedNotStored
