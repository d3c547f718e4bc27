CONSTANTS
    Order = 11
    KeyLen = 2
    AccRange = 1048576
    Secrets = {0, 3, 8, 4}
    PublicKeys = {0, 3, 4}
    Ephemeral = 4
    Lengths <- MCLengths
    EdgeLengths <- MCEdgeLengths
    Replies = {"r1"}
    ZippedLengths = {200, 2000}
    KeyBytes <- MCKeyBytes
    Symbols <- MCSymbols
SPECIFICATION Spec
INVARIANT TypeOK
INVARIANT ReadBack
INVARIANT NeverMisread
INVARIANT SizeLimits
INVARIANT PaddingHides
INVARIANT CanonicalKeys
