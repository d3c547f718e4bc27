CONSTANTS
    Digits = {0, 1}
    IdLen = 2
    EventKinds = {1, 30078}
    TagFields = {"e", "t"}
    TagValues = {"x", "y"}
    Times = {1, 2}
    MaxList = 2
    MaxSets = 2
    Words = {"ni", "nik", "unicity"}
    Lower <- MCLower
    CharCount <- MCCharCount
    Authors <- MCAuthors
    Strangers <- MCStrangers
    Apps = {"notes"}
    Names <- MCNames
    Addresses <- MCAddresses
    IdentitySets <- MCIdentitySets
    AskLimit = 1
    MaxInt = 1500
    MaxBinds = 0
SPECIFICATION EitherSpec
INVARIANT EmptyIsNoConstraint
