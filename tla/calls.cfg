CONSTANTS
    Own = {e1}
    Others = {o1}
    Forged = {}
    Refused = {}
    AuthId = AuthId
    NoId = NoId
    NoSub = NoSub
    CallerSubs = {dm, nt}
    AuthRequired = TRUE
    MaxCalls = 2
    MaxChallenges = 1
    ChanCap = 2
    Ops = {"publish", "query", "subscribe", "unsubscribe", "poll"}
    RecvLimit = 2
SPECIFICATION EitherSpec
INVARIANT TypeOK
INVARIANT QueryFresh
INVARIANT NoDuplicates
INVARIANT AcceptedIsStored
INVARIANT ReplayAfterAuth
INVARIANT SubsAccounted
INVARIANT ListenerNotDeaf
PROPERTY ServiceSpec
