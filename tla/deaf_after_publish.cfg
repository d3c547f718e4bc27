CONSTANTS
    Own = {e1}
    Others = {}
    Forged = {}
    Refused = {}
    AuthId = AuthId
    NoId = NoId
    NoSub = NoSub
    CallerSubs = {dm}
    AuthRequired = TRUE
    MaxCalls = 1
    MaxChallenges = 1
    ChanCap = 2
    Ops = {"publish", "subscribe", "poll"}
    RecvLimit = 3
SPECIFICATION Spec
INVARIANT ListenerNotDeaf
