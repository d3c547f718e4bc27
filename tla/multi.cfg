CONSTANTS
    Relays = {r1, r2}
    Events = {e1, e2}
    MaxUrls = 2
    MaxAnswer = 2
    MaxOps = 2
SPECIFICATION Spec
INVARIANT TypeOK
INVARIANT ConnectAccountsForAll
INVARIANT BroadcastReport
INVARIANT QueryUnion
INVARIANT ReadYourWrites
INVARIANT SubscribeAllOrPrefix
